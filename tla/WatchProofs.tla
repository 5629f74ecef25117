---------------------------- MODULE WatchProofs ----------------------------
(***************************************************************************)
(* Theorems about WatchParty and WatchPage, for any users, sessions and    *)
(* contents, and all surroundings at once.                                 *)
(***************************************************************************)
EXTENDS WatchPage, FiniteSetTheorems, SequenceTheorems, TLAPS

-----------------------------------------------------------------------------
(* The inductive invariant.                                                 *)

Joining == {"put", "lookup", "announce"}
Going   == {"leave", "leaveLookup"}

\* The handlers of a session, and what it is subscribed to.
HandlerOK(s) ==
    /\ session[s] = "new"    => user[s] = None /\ pc[s] = "idle"
    /\ session[s] = "open"   => user[s] # None /\ pc[s] \notin Going
    /\ session[s] = "closed" => user[s] # None /\ pc[s] \notin Joining
    /\ session[s] # "open" => subs[s] = {}
    /\ subs[s] \subseteq setting.to \X Contents
    /\ pc[s] \in Joining \cup {"leaveLookup"} => loc[s].content # None
    /\ pc[s] \in Joining /\ ~setting.unsubscribe =>
           \E d \in Destinations : <<d, loc[s].content>> \in subs[s]

Over(s) == session[s] = "closed" /\ pc[s] = "idle"

\* Without a second tab, a user's former sessions are over and done with.
OneTab ==
    ~setting.tabs =>
        \A s, t \in Sessions : s # t /\ user[s] = user[t] /\ user[s] # None => Over(s) \/ Over(t)

\* And whoever subscribes is listed until he disconnects.
Listed ==
    ~setting.tabs =>
        \A s \in Sessions, c \in Contents, d \in Destinations :
            session[s] = "open" /\ <<d, c>> \in subs[s] => user[s] \in watchingUsers[c]

Undeleted == ~setting.delete => exists = Contents

OneHandler == \A s, t \in Sessions : pc[s] # "idle" /\ pc[t] # "idle" => s = t

\* Handler s has changed the entry of content c and has still to tell so.
Telling(s, c) == pc[s] \in Joining \cup {"leaveLookup"} /\ loc[s].content = c

AddsUp(c) ==
    /\ announced[c] = watchingUsers[c]
    /\ watcherCount[c] = Cardinality(watchingUsers[c])

\* What is missing in the broadcasts while handler s tells of content c.
Owes(s, c) ==
    /\ pc[s] \in Joining => announced[c] \cup {user[s]} = watchingUsers[c]
    /\ pc[s] = "announce" => /\ loc[s].count = Cardinality(watchingUsers[c])
                             /\ loc[s].todo \subseteq watchingUsers[c]
    /\ pc[s] = "leaveLookup" => /\ announced[c] \ {user[s]} = watchingUsers[c]
                                /\ loc[s].count = Cardinality(watchingUsers[c])

Told ==
    ~setting.overlap =>
        /\ OneHandler
        /\ \A c \in exists : \/ AddsUp(c) /\ \A s \in Sessions : ~Telling(s, c)
                             \/ \E s \in Sessions : Telling(s, c) /\ Owes(s, c)

PartyInv ==
    /\ TypeOK
    /\ \A s \in Sessions : HandlerOK(s)
    /\ Undeleted /\ NoGhost /\ OneTab /\ Listed /\ Told

Locals == [content : Contents \cup {None}, count : 0..Cardinality(Users),
           todo : SUBSET (Users \cup Contents)]

Steps == {"idle", "leave"} \cup Joining \cup {"leaveLookup"}

LEMMA SettingFacts ==
  ASSUME TypeOK
  PROVE  /\ setting.to \subseteq Destinations
         /\ {setting.overlap, setting.tabs, setting.unsubscribe, setting.delete} \subseteq BOOLEAN
  BY WatchAssumption DEF TypeOK, AllSettings, Destinations

LEMMA CountFacts ==
  ASSUME NEW W, W \subseteq Users
  PROVE  IsFiniteSet(W) /\ Cardinality(W) \in 0..Cardinality(Users)
  <1>1. IsFiniteSet(W) /\ Cardinality(W) <= Cardinality(Users)
    BY WatchAssumption, FS_Subset
  <1>2. Cardinality(W) \in Nat /\ Cardinality(Users) \in Nat
    BY <1>1, WatchAssumption, FS_CardinalityType
  <1>3. QED
    BY <1>1, <1>2

LEMMA NullLocalsTyped == NullLocals \in Locals
  <1>1. 0 \in 0..Cardinality(Users)
    BY WatchAssumption, FS_CardinalityType
  <1>2. QED
    BY <1>1 DEF NullLocals, Locals

\* What a step of one handler does to the handlers.
LEMMA StepMoves ==
  ASSUME TypeOK, NEW s \in Sessions, NEW step, NEW l, Step(s, step, l)
  PROVE  /\ pc'[s] = step /\ loc'[s] = IF step = "idle" THEN NullLocals ELSE l
         /\ \A t \in Sessions \ {s} : pc'[t] = pc[t] /\ loc'[t] = loc[t]
         /\ step \in Steps /\ l \in Locals =>
                pc' \in [Sessions -> Steps] /\ loc' \in [Sessions -> Locals]
  <1>1. pc \in [Sessions -> Steps] /\ loc \in [Sessions -> Locals]
    BY DEF TypeOK, Steps, Joining, Locals
  <1>2. QED
    BY <1>1, NullLocalsTyped DEF Step

\* What a broadcast about content c changes.
LEMMA BroadcastMoves ==
  ASSUME TypeOK, NEW s \in Sessions, NEW c \in Contents, NEW W, W \subseteq Users,
         Broadcast(s, c, W)
  PROVE  /\ announced'[c] = W /\ watcherCount'[c] = loc[s].count
         /\ \A d \in Contents \ {c} : announced'[d] = announced[d] /\ watcherCount'[d] = watcherCount[d]
         /\ announced' \in [Contents -> SUBSET Users]
         /\ watcherCount' \in [Contents -> 0..Cardinality(Users)]
  <1>1. loc[s].count \in 0..Cardinality(Users)
    BY DEF TypeOK
  <1>2. QED
    BY <1>1 DEF TypeOK, Broadcast

\* The parts of the state a step changes are given in each of the following
\* lemmas point by point.
LEMMA Typed ==
  TypeOK <=> /\ setting \in Settings /\ exists \subseteq Contents
             /\ session \in [Sessions -> {"new", "open", "closed"}]
             /\ user \in [Sessions -> Users \cup {None}]
             /\ subs \in [Sessions -> SUBSET (Destinations \X Contents)]
             /\ watchingUsers \in [Contents -> SUBSET Users]
             /\ announced \in [Contents -> SUBSET Users]
             /\ watcherCount \in [Contents -> 0..Cardinality(Users)]
             /\ pc \in [Sessions -> Steps] /\ loc \in [Sessions -> Locals]
  <1>1. Steps = {"idle", "put", "lookup", "announce", "leave", "leaveLookup"}
    BY DEF Steps, Joining
  <1>2. QED
    BY <1>1 DEF TypeOK, Locals

LEMMA ListedUsersCounted ==
  ASSUME TypeOK, NEW c \in Contents
  PROVE  /\ watchingUsers[c] \subseteq Users
         /\ Cardinality(watchingUsers[c]) \in 0..Cardinality(Users)
  BY CountFacts DEF TypeOK

-----------------------------------------------------------------------------
(* The clients.                                                             *)

LEMMA ConnectInv ==
  ASSUME PartyInv, UNCHANGED setting, NEW s \in Sessions, NEW u \in Users, Connect(s, u)
  PROVE  PartyInv'
  <1>1. /\ session[s] = "new" /\ session' = [session EXCEPT ![s] = "open"]
        /\ user' = [user EXCEPT ![s] = u]
        /\ UNCHANGED <<exists, subs, watchingUsers, announced, watcherCount, pc, loc>>
        /\ setting.tabs \/ \A t \in Sessions : user[t] = u => Over(t)
    BY DEF Connect, broadcasts, handlers, Over
  <1>2. TypeOK /\ \A t \in Sessions : HandlerOK(t)
    BY DEF PartyInv
  <1>3. user[s] = None /\ pc[s] = "idle" /\ subs[s] = {} /\ u # None
    BY <1>1, <1>2, WatchAssumption DEF HandlerOK
  <1>4. TypeOK'
    BY <1>1, <1>2 DEF TypeOK
  <1>5. /\ session'[s] = "open" /\ user'[s] = u
        /\ \A t \in Sessions \ {s} : session'[t] = session[t] /\ user'[t] = user[t]
    BY <1>1, <1>2 DEF TypeOK
  <1>6. ASSUME NEW t \in Sessions PROVE HandlerOK(t)'
    <2>1. HandlerOK(t)
      BY <1>2
    <2>2. CASE t = s
      BY <1>1, <1>3, <1>5, <2>1, <2>2 DEF HandlerOK, Joining, Going
    <2>3. CASE t # s
      BY <1>1, <1>5, <2>1, <2>3 DEF HandlerOK
    <2>4. QED
      BY <2>2, <2>3
  <1>7. Undeleted'
    BY <1>1 DEF PartyInv, Undeleted
  <1>8. NoGhost'
    <2>1. ASSUME NEW c \in Contents, NEW w \in watchingUsers[c],
                 Attends(w, c, Destinations) \/ Leaving(w, c)
          PROVE  (Attends(w, c, Destinations) \/ Leaving(w, c))'
      BY <1>1, <1>3, <1>5, <2>1 DEF Attends, Leaving
    <2>2. QED
      BY <1>1, <2>1 DEF PartyInv, NoGhost
  <1>9. OneTab'
    <2>1. \A t \in Sessions \ {s} : Over(t)' <=> Over(t)
      BY <1>1, <1>5 DEF Over
    <2>2. QED
      BY <1>1, <1>5, <2>1 DEF PartyInv, OneTab
  <1>10. Listed'
    BY <1>1, <1>3, <1>5 DEF PartyInv, Listed
  <1>11. Told'
    <2>1. \A c \in Contents, t \in Sessions : /\ Telling(t, c)' <=> Telling(t, c)
                                              /\ Telling(t, c) => (Owes(t, c)' <=> Owes(t, c))
      BY <1>1, <1>3, <1>5 DEF Telling, Owes, Joining
    <2>2. QED
      BY <1>1, <1>2, <2>1 DEF PartyInv, Told, OneHandler, AddsUp, TypeOK
  <1>12. QED
    BY <1>4, <1>6, <1>7, <1>8, <1>9, <1>10, <1>11 DEF PartyInv

LEMMA UnsubscribeInv ==
  ASSUME PartyInv, UNCHANGED setting, NEW s \in Sessions, NEW d, NEW c, Unsubscribe(s, d, c)
  PROVE  PartyInv'
  <1>1. /\ setting.unsubscribe /\ subs' = [subs EXCEPT ![s] = @ \ {<<d, c>>}]
        /\ UNCHANGED <<exists, session, user, watchingUsers, announced, watcherCount, pc, loc>>
    BY DEF Unsubscribe, broadcasts, handlers
  <1>2. TypeOK /\ \A t \in Sessions : HandlerOK(t)
    BY DEF PartyInv
  <1>3. TypeOK' /\ \A t \in Sessions : subs'[t] \subseteq subs[t]
    BY <1>1, <1>2 DEF TypeOK
  <1>4. ASSUME NEW t \in Sessions PROVE HandlerOK(t)'
    BY <1>1, <1>2, <1>3 DEF HandlerOK
  <1>5. Undeleted' /\ NoGhost' /\ OneTab'
    BY <1>1 DEF PartyInv, Undeleted, NoGhost, OneTab, Over
  <1>6. Listed'
    BY <1>1, <1>3 DEF PartyInv, Listed
  <1>7. Told'
    BY <1>1 DEF PartyInv, Told, OneHandler, AddsUp, Telling, Owes
  <1>8. QED
    BY <1>3, <1>4, <1>5, <1>6, <1>7 DEF PartyInv

LEMMA DeleteContentInv ==
  ASSUME PartyInv, UNCHANGED setting, NEW c \in Contents, DeleteContent(c)
  PROVE  PartyInv'
  <1>1. /\ setting.delete /\ exists' = exists \ {c}
        /\ UNCHANGED <<session, user, subs, watchingUsers, announced, watcherCount, pc, loc>>
    BY DEF DeleteContent, broadcasts, handlers
  <1>2. TypeOK'
    BY <1>1 DEF PartyInv, TypeOK
  <1>3. ASSUME NEW t \in Sessions PROVE HandlerOK(t)'
    BY <1>1 DEF PartyInv, HandlerOK
  <1>4. Undeleted' /\ NoGhost' /\ OneTab' /\ Listed'
    BY <1>1 DEF PartyInv, Undeleted, NoGhost, OneTab, Over, Listed
  <1>5. Told'
    BY <1>1 DEF PartyInv, Told, OneHandler, AddsUp, Telling, Owes
  <1>6. QED
    BY <1>2, <1>3, <1>4, <1>5 DEF PartyInv

-----------------------------------------------------------------------------
(* The handler of a subscription.                                           *)

LEMMA SubscribeInv ==
  ASSUME PartyInv, UNCHANGED setting, NEW s \in Sessions, NEW d \in setting.to,
         NEW c \in Contents, Subscribe(s, d, c)
  PROVE  PartyInv'
  <1> DEFINE u == user[s]
             l == [NullLocals EXCEPT !.content = c]
  <1>1. /\ session[s] = "open" /\ pc[s] = "idle"
        /\ setting.overlap \/ \A t \in Sessions : pc[t] = "idle"
        /\ subs' = [subs EXCEPT ![s] = @ \cup {<<d, c>>}]
        /\ watchingUsers' = [watchingUsers EXCEPT ![c] = @ \cup {u}]
        /\ UNCHANGED <<exists, session, user, announced, watcherCount>>
    BY DEF Subscribe, MayHandle, broadcasts
  <1>2. TypeOK /\ \A t \in Sessions : HandlerOK(t)
    BY DEF PartyInv
  <1>3. u \in Users /\ d \in Destinations
    BY <1>1, <1>2, SettingFacts DEF HandlerOK, TypeOK
  <1>4. /\ subs'[s] = subs[s] \cup {<<d, c>>} /\ watchingUsers'[c] = watchingUsers[c] \cup {u}
        /\ \A t \in Sessions \ {s} : subs'[t] = subs[t]
        /\ \A e \in Contents \ {c} : watchingUsers'[e] = watchingUsers[e]
    BY <1>1, <1>2 DEF TypeOK
  <1>5. l \in Locals /\ l.content = c /\ l.todo = {}
    BY NullLocalsTyped DEF Locals, NullLocals
  <1>6. /\ \A t \in Sessions \ {s} : pc'[t] = pc[t] /\ loc'[t] = loc[t]
        /\ pc' \in [Sessions -> Steps] /\ loc' \in [Sessions -> Locals]
        /\ \/ u \in watchingUsers[c] /\ pc'[s] = "idle" /\ loc'[s] = loc[s]
           \/ u \notin watchingUsers[c] /\ pc'[s] = "put" /\ loc'[s] = l
    <2>1. CASE u \in watchingUsers[c]
      BY <1>1, <1>2, <2>1, Typed DEF Subscribe, handlers
    <2>2. CASE u \notin watchingUsers[c]
      <3>1. Step(s, "put", l)
        BY <2>2 DEF Subscribe
      <3>2. QED
        BY <1>2, <1>5, <2>2, <3>1, StepMoves DEF Steps, Joining
    <2>3. QED
      BY <2>1, <2>2
  <1> HIDE DEF l
  <1>7. TypeOK'
    <2>1. subs' \in [Sessions -> SUBSET (Destinations \X Contents)]
      BY <1>1, <1>2, <1>3 DEF TypeOK
    <2>2. watchingUsers' \in [Contents -> SUBSET Users]
      BY <1>1, <1>2, <1>3 DEF TypeOK
    <2>3. QED
      BY <1>1, <1>2, <1>6, <2>1, <2>2 DEF TypeOK, Steps, Joining, Locals
  <1>8. ASSUME NEW t \in Sessions PROVE HandlerOK(t)'
    <2>1. HandlerOK(t)
      BY <1>2
    <2>2. CASE t # s
      BY <1>1, <1>4, <1>6, <2>1, <2>2 DEF HandlerOK
    <2>3. CASE t = s
      <3>1. c # None
        BY WatchAssumption
      <3>2. QED
        BY <1>1, <1>3, <1>4, <1>5, <1>6, <2>1, <2>3, <3>1 DEF HandlerOK, Joining, Going
    <2>4. QED
      BY <2>2, <2>3
  <1>9. Undeleted'
    BY <1>1 DEF PartyInv, Undeleted
  <1>10. NoGhost'
    <2>1. ASSUME NEW e \in Contents, NEW w \in Users, Leaving(w, e) PROVE Leaving(w, e)'
      BY <1>1, <1>6, <2>1 DEF Leaving
    <2>2. ASSUME NEW e \in Contents, NEW w \in Users, Attends(w, e, Destinations)
          PROVE  Attends(w, e, Destinations)'
      BY <1>1, <1>4, <2>2 DEF Attends
    <2>3. Attends(u, c, Destinations)'
      BY <1>1, <1>3, <1>4 DEF Attends
    <2>4. ASSUME ~setting.unsubscribe, ~setting.delete,
                 NEW e \in Contents, NEW w \in watchingUsers'[e]
          PROVE  (Attends(w, e, Destinations) \/ Leaving(w, e))'
      <3>1. w \in Users /\ (w \in watchingUsers[e] \/ (w = u /\ e = c))
        BY <1>3, <1>4, <1>2, <2>4 DEF TypeOK
      <3>2. CASE w \in watchingUsers[e]
        BY <2>1, <2>2, <2>4, <3>1, <3>2 DEF PartyInv, NoGhost
      <3>3. CASE w = u /\ e = c
        BY <1>1, <2>3, <3>3 DEF Attends
      <3>4. QED
        BY <3>1, <3>2, <3>3
    <2>5. QED
      BY <1>1, <2>4 DEF NoGhost
  <1>11. OneTab'
    <2>1. \A t \in Sessions : Over(t) => Over(t)'
      BY <1>1, <1>6 DEF Over
    <2>2. QED
      BY <1>1, <2>1 DEF PartyInv, OneTab
  <1>12. Listed'
    <2>1. \A e \in Contents : watchingUsers[e] \subseteq watchingUsers'[e]
      BY <1>4
    <2>2. \A t \in Sessions, e \in Contents : \A f :
              <<f, e>> \in subs'[t] => <<f, e>> \in subs[t] \/ (t = s /\ e = c)
      BY <1>4
    <2>3. QED
      BY <1>1, <1>4, <2>1, <2>2 DEF PartyInv, Listed
  <1>13. Told'
    <2> SUFFICES ASSUME ~setting.overlap PROVE Told'
      BY <1>1 DEF Told
    <2>1. \A t \in Sessions : pc[t] = "idle"
      BY <1>1
    <2>2. \A e \in exists : AddsUp(e)
      BY <2>1 DEF PartyInv, Told, Telling, Joining
    <2>3. OneHandler'
      BY <1>6, <2>1 DEF OneHandler
    <2>4. ASSUME NEW e \in exists, \/ e # c \/ u \in watchingUsers[c]
          PROVE  AddsUp(e)' /\ \A t \in Sessions : ~Telling(t, e)'
      <3>1. e \in Contents
        BY <1>2 DEF TypeOK
      <3>2. watchingUsers'[e] = watchingUsers[e]
        BY <1>4, <2>4, <3>1
      <3>3. AddsUp(e)'
        BY <1>1, <2>2, <3>2 DEF AddsUp
      <3>4. QED
        BY <1>5, <1>6, <2>1, <2>4, <3>3 DEF Telling, Joining
    <2>5. ASSUME c \in exists, u \notin watchingUsers[c]
          PROVE  Telling(s, c)' /\ Owes(s, c)'
      <3>1. pc'[s] = "put" /\ loc'[s].content = c
        BY <1>5, <1>6, <2>5
      <3>2. announced'[c] \cup {user'[s]} = watchingUsers'[c]
        BY <1>1, <1>4, <2>2, <2>5 DEF AddsUp
      <3>3. QED
        BY <3>1, <3>2 DEF Telling, Owes, Joining
    <2>6. QED
      BY <1>1, <2>3, <2>4, <2>5 DEF Told
  <1>14. QED
    BY <1>7, <1>8, <1>9, <1>10, <1>11, <1>12, <1>13 DEF PartyInv

\* A step of a handler that runs keeps what does not depend on the map.
LEMMA HandlerKeeps ==
  ASSUME PartyInv, UNCHANGED setting, NEW s \in Sessions, pc[s] # "idle",
         NEW step \in Steps, NEW l \in Locals, Step(s, step, l),
         UNCHANGED <<exists, session, user, subs>>,
         pc[s] \in Joining => step \in Joining \cup {"idle"} /\ l.content = loc[s].content,
         pc[s] \in Going => step \in Going \cup {"idle"},
         step = "leaveLookup" => l.content # None,
         watchingUsers' \in [Contents -> SUBSET Users],
         announced' \in [Contents -> SUBSET Users],
         watcherCount' \in [Contents -> 0..Cardinality(Users)]
  PROVE  /\ TypeOK' /\ \A t \in Sessions : HandlerOK(t)'
         /\ Undeleted' /\ OneTab' /\ (~setting.overlap => OneHandler')
         /\ ~setting.overlap => \A t \in Sessions \ {s} : pc'[t] = "idle"
         /\ pc'[s] = step /\ loc'[s] = IF step = "idle" THEN NullLocals ELSE l
         /\ \A t \in Sessions \ {s} : pc'[t] = pc[t] /\ loc'[t] = loc[t]
         /\ user[s] \in Users
  <1>1. TypeOK /\ \A t \in Sessions : HandlerOK(t)
    BY DEF PartyInv
  <1>2. /\ pc'[s] = step /\ loc'[s] = IF step = "idle" THEN NullLocals ELSE l
        /\ \A t \in Sessions \ {s} : pc'[t] = pc[t] /\ loc'[t] = loc[t]
        /\ pc' \in [Sessions -> Steps] /\ loc' \in [Sessions -> Locals]
    BY <1>1, StepMoves
  <1>3. TypeOK'
    BY <1>1, <1>2 DEF TypeOK, Steps, Joining, Locals
  <1>4. ASSUME NEW t \in Sessions PROVE HandlerOK(t)'
    <2>1. HandlerOK(t)
      BY <1>1
    <2>2. CASE t # s
      BY <1>2, <2>1, <2>2 DEF HandlerOK
    <2>3. CASE t = s
      <3>1. pc[s] \in Joining \cup Going
        BY <1>1, Typed DEF Steps, Joining, Going
      <3>2. /\ session[s] = "new" => user[s] = None /\ pc'[s] = "idle"
            /\ session[s] = "open" => user[s] # None /\ pc'[s] \notin Going
            /\ session[s] = "closed" => user[s] # None /\ pc'[s] \notin Joining
        BY <1>2, <2>1, <2>3, <3>1 DEF HandlerOK, Joining, Going
      <3>3. pc'[s] \in Joining \cup {"leaveLookup"} => loc'[s].content # None
        BY <1>2, <2>1, <2>3, <3>1 DEF HandlerOK, Joining, Going
      <3>4. pc'[s] \in Joining => pc[s] \in Joining /\ loc'[s].content = loc[s].content
        BY <1>2, <2>3, <3>1 DEF Joining, Going
      <3>5. QED
        BY <2>1, <2>3, <3>2, <3>3, <3>4 DEF HandlerOK
    <2>4. QED
      BY <2>2, <2>3
  <1>5. OneTab'
    <2>1. \A t \in Sessions : Over(t) => Over(t)'
      BY <1>2 DEF Over
    <2>2. QED
      BY <2>1 DEF PartyInv, OneTab
  <1>6. ~setting.overlap => OneHandler' /\ \A t \in Sessions \ {s} : pc'[t] = "idle"
    BY <1>2 DEF PartyInv, Told, OneHandler
  <1>7. user[s] \in Users
    BY <1>1 DEF HandlerOK, TypeOK
  <1>8. QED
    BY <1>2, <1>3, <1>4, <1>5, <1>6, <1>7 DEF PartyInv, Undeleted

\* While it tells of a content, the broadcasts about the others add up.
LEMMA OthersAddUp ==
  ASSUME PartyInv, ~setting.overlap, NEW s \in Sessions, pc[s] # "idle"
  PROVE  /\ \A c \in exists : ~Telling(s, c) => AddsUp(c)
         /\ \A c \in exists : Telling(s, c) => Owes(s, c)
  <1>1. \A t \in Sessions \ {s} : pc[t] = "idle"
    BY DEF PartyInv, Told, OneHandler
  <1>2. \A t \in Sessions \ {s}, c \in exists : ~Telling(t, c)
    BY <1>1 DEF Telling, Joining
  <1>3. QED
    BY <1>2 DEF PartyInv, Told

\* A step of handler s that changes what is known of content c only.
LEMMA ToldBy ==
  ASSUME PartyInv, UNCHANGED <<setting, exists>>, NEW s \in Sessions, pc[s] # "idle",
         ~setting.overlap => OneHandler' /\ \A t \in Sessions \ {s} : pc'[t] = "idle",
         NEW c,
         \A e \in Contents \ {c} :
             /\ watchingUsers'[e] = watchingUsers[e] /\ announced'[e] = announced[e]
             /\ watcherCount'[e] = watcherCount[e]
             /\ ~Telling(s, e) /\ ~Telling(s, e)',
         ~setting.overlap /\ c \in exists =>
             (AddsUp(c)' /\ ~Telling(s, c)') \/ (Telling(s, c)' /\ Owes(s, c)')
  PROVE  Told'
  <1> SUFFICES ASSUME ~setting.overlap PROVE Told'
    BY DEF Told
  <1>1. \A t \in Sessions \ {s}, e \in exists : ~Telling(t, e)'
    BY DEF Telling, Joining
  <1>2. ASSUME NEW e \in exists, e # c
        PROVE  AddsUp(e)' /\ \A t \in Sessions : ~Telling(t, e)'
    <2>1. e \in Contents
      BY DEF PartyInv, TypeOK
    <2>2. AddsUp(e) /\ ~Telling(s, e)'
      BY <1>2, <2>1, OthersAddUp
    <2>3. QED
      BY <1>1, <1>2, <2>1, <2>2 DEF AddsUp
  <1>3. QED
    BY <1>1, <1>2 DEF Told

LEMMA ListedKept ==
  ASSUME PartyInv, UNCHANGED <<setting, session, user, subs>>,
         \A c \in Contents : watchingUsers[c] \subseteq watchingUsers'[c]
  PROVE  Listed'
  BY DEF PartyInv, Listed

\* Nobody is listed anew but a user who is subscribed, and nobody who was
\* leaving is forgotten.
LEMMA NoGhostKept ==
  ASSUME PartyInv, UNCHANGED <<setting, exists, session, user, subs>>,
         \A c \in Contents, u \in Users : Leaving(u, c) /\ u \in watchingUsers'[c]
             /\ ~setting.delete => Leaving(u, c)',
         \A c \in Contents : \A u \in watchingUsers'[c] :
             /\ u \in Users
             /\ u \in watchingUsers[c] \/ setting.unsubscribe \/ Attends(u, c, Destinations)
  PROVE  NoGhost'
  <1>1. \A c \in Contents, u \in Users : Attends(u, c, Destinations) <=> Attends(u, c, Destinations)'
    BY DEF Attends
  <1>2. QED
    BY <1>1 DEF PartyInv, NoGhost

LEMMA HandlerFacts ==
  ASSUME PartyInv, NEW s \in Sessions, pc[s] # "idle"
  PROVE  /\ TypeOK /\ loc[s] \in Locals /\ user[s] \in Users /\ pc[s] \in Joining \cup Going
         /\ pc[s] \in Joining \cup {"leaveLookup"} => loc[s].content \in Contents
         /\ pc[s] \in Joining => session[s] = "open"
         /\ pc[s] \in Going => session[s] = "closed"
         /\ pc[s] \in Joining /\ ~setting.unsubscribe =>
                Attends(user[s], loc[s].content, Destinations)
         /\ \A c \in exists : Telling(s, c) /\ ~setting.overlap => Owes(s, c)
  <1>1. TypeOK /\ HandlerOK(s)
    BY DEF PartyInv
  <1>2. loc[s] \in Locals /\ pc[s] \in Joining \cup Going
    BY <1>1, Typed DEF Steps, Joining, Going
  <1>3. session[s] \in {"new", "open", "closed"} /\ user[s] \in Users \cup {None}
    BY <1>1 DEF TypeOK
  <1>4. /\ pc[s] \in Joining => session[s] = "open" /\ user[s] # None
        /\ pc[s] \in Going => session[s] = "closed" /\ user[s] # None
    BY <1>1, <1>2, <1>3 DEF HandlerOK, Joining, Going
  <1>5. pc[s] \in Joining \cup {"leaveLookup"} => loc[s].content \in Contents
    BY <1>1, <1>2 DEF HandlerOK, Locals
  <1>6. QED
    BY <1>1, <1>2, <1>3, <1>4, <1>5, OthersAddUp DEF HandlerOK, Attends

LEMMA PutInv ==
  ASSUME PartyInv, UNCHANGED setting, NEW s \in Sessions, Put(s)
  PROVE  PartyInv'
  <1> PICK c \in Contents, u \in Users : c = loc[s].content /\ u = user[s]
    BY HandlerFacts DEF Put, Joining
  <1>1. /\ pc[s] = "put" /\ Step(s, "lookup", loc[s])
        /\ watchingUsers' = [watchingUsers EXCEPT ![c] = @ \cup {u}]
        /\ UNCHANGED <<exists, session, user, subs, announced, watcherCount>>
    BY DEF Put, broadcasts
  <1>2. TypeOK /\ loc[s] \in Locals
    BY <1>1, HandlerFacts
  <1>3. /\ watchingUsers' \in [Contents -> SUBSET Users]
        /\ watchingUsers'[c] = watchingUsers[c] \cup {u}
        /\ \A e \in Contents \ {c} : watchingUsers'[e] = watchingUsers[e]
    BY <1>1, <1>2 DEF TypeOK
  <1>4. /\ TypeOK' /\ \A t \in Sessions : HandlerOK(t)'
        /\ Undeleted' /\ OneTab' /\ (~setting.overlap => OneHandler')
        /\ ~setting.overlap => \A t \in Sessions \ {s} : pc'[t] = "idle"
        /\ pc'[s] = "lookup" /\ loc'[s] = loc[s]
        /\ \A t \in Sessions \ {s} : pc'[t] = pc[t] /\ loc'[t] = loc[t]
    BY <1>1, <1>2, <1>3, HandlerKeeps DEF TypeOK, Steps, Joining, Going
  <1>5. Listed'
    BY <1>1, <1>3, ListedKept
  <1>6. NoGhost'
    <2>1. \A e \in Contents, w \in Users : Leaving(w, e) => Leaving(w, e)'
      BY <1>1, <1>4 DEF Leaving
    <2>2. setting.unsubscribe \/ Attends(u, c, Destinations)
      BY <1>1, HandlerFacts DEF Joining
    <2>3. \A e \in Contents : \A w \in watchingUsers'[e] :
              w \in Users /\ (w \in watchingUsers[e] \/ (w = u /\ e = c))
      BY <1>3
    <2>4. \A e \in Contents : \A w \in watchingUsers'[e] :
              w \in watchingUsers[e] \/ setting.unsubscribe \/ Attends(w, e, Destinations)
      BY <2>2, <2>3
    <2>5. QED
      BY <1>1, <2>1, <2>3, <2>4, NoGhostKept
  <1>7. Told'
    <2>1. \A e \in Contents \ {c} : ~Telling(s, e) /\ ~Telling(s, e)'
      BY <1>4 DEF Telling
    <2>2. ASSUME ~setting.overlap, c \in exists PROVE Telling(s, c)' /\ Owes(s, c)'
      <3>1. announced[c] \cup {u} = watchingUsers[c]
        BY <1>1, <2>2, HandlerFacts DEF Telling, Owes, Joining
      <3>2. watchingUsers'[c] = watchingUsers[c]
        BY <1>3, <3>1
      <3>3. QED
        BY <1>1, <1>4, <3>1, <3>2 DEF Telling, Owes, Joining
    <2>3. QED
      BY <1>1, <1>3, <1>4, <2>1, <2>2, ToldBy
  <1>8. QED
    BY <1>4, <1>5, <1>6, <1>7 DEF PartyInv

LEMMA LookUpInv ==
  ASSUME PartyInv, UNCHANGED setting, NEW s \in Sessions, LookUp(s)
  PROVE  PartyInv'
  <1> PICK c \in Contents, u \in Users : c = loc[s].content /\ u = user[s]
    BY HandlerFacts DEF LookUp, Joining
  <1> DEFINE l == [loc[s] EXCEPT !.count = Cardinality(watchingUsers[c]),
                                 !.todo = watchingUsers[c]]
  <1>1. /\ pc[s] = "lookup"
        /\ IF c \in exists THEN Step(s, "announce", l) ELSE Step(s, "idle", NullLocals)
        /\ UNCHANGED <<exists, session, user, subs, watchingUsers, announced, watcherCount>>
    BY DEF LookUp, broadcasts
  <1>2. TypeOK /\ loc[s] \in Locals
    BY <1>1, HandlerFacts
  <1>3. /\ l \in Locals /\ l.content = c
        /\ l.count = Cardinality(watchingUsers[c]) /\ l.todo = watchingUsers[c]
    BY <1>2, ListedUsersCounted DEF Locals
  <1> HIDE DEF l
  <1> DEFINE step == IF c \in exists THEN "announce" ELSE "idle"
             k == IF c \in exists THEN l ELSE [loc[s] EXCEPT !.count = loc[s].count]
  <1>4. step \in {"announce", "idle"} /\ k \in Locals /\ k.content = c /\ Step(s, step, k)
    <2>1. CASE c \in exists
      BY <1>1, <1>3, <2>1
    <2>2. CASE c \notin exists
      <3>1. k = loc[s]
        BY <1>2, <2>2 DEF Locals
      <3>2. Step(s, "idle", loc[s])
        BY <1>1, <2>2 DEF Step
      <3>3. QED
        BY <1>2, <2>2, <3>1, <3>2
    <2>3. QED
      BY <2>1, <2>2
  <1>5. c \in exists => step = "announce" /\ k = l
    OBVIOUS
  <1>6. c \notin exists => step = "idle"
    OBVIOUS
  <1> HIDE DEF step, k
  <1>7. /\ TypeOK' /\ \A t \in Sessions : HandlerOK(t)'
        /\ Undeleted' /\ OneTab' /\ (~setting.overlap => OneHandler')
        /\ ~setting.overlap => \A t \in Sessions \ {s} : pc'[t] = "idle"
        /\ pc'[s] = step /\ loc'[s] = IF step = "idle" THEN NullLocals ELSE k
        /\ \A t \in Sessions \ {s} : pc'[t] = pc[t] /\ loc'[t] = loc[t]
    <2>1. step \in Steps /\ step \in Joining \cup {"idle"} /\ step # "leaveLookup"
      BY <1>4 DEF Steps, Joining
    <2>2. pc[s] # "idle" /\ pc[s] \notin Going
      BY <1>1 DEF Going
    <2>3. QED
      BY <1>1, <1>2, <1>4, <2>1, <2>2, HandlerKeeps DEF TypeOK
  <1>8. Listed'
    BY <1>1, ListedKept
  <1>9. NoGhost'
    <2>1. \A e \in Contents, w \in Users : Leaving(w, e) => Leaving(w, e)'
      BY <1>1, <1>7 DEF Leaving
    <2>2. QED
      BY <1>1, <1>2, <2>1, NoGhostKept DEF TypeOK
  <1>10. Told'
    <2>1. \A e \in Contents \ {c} : ~Telling(s, e) /\ ~Telling(s, e)'
      BY <1>4, <1>7 DEF Telling, Joining
    <2>2. ASSUME ~setting.overlap, c \in exists PROVE Telling(s, c)' /\ Owes(s, c)'
      <3>1. announced[c] \cup {u} = watchingUsers[c]
        BY <1>1, <2>2, HandlerFacts DEF Telling, Owes, Joining
      <3>2. pc'[s] = "announce" /\ loc'[s] = l
        BY <1>5, <1>7, <2>2
      <3>3. QED
        BY <1>1, <1>3, <3>1, <3>2 DEF Telling, Owes, Joining
    <2>3. QED
      BY <1>1, <1>7, <2>1, <2>2, ToldBy
  <1>11. QED
    BY <1>7, <1>8, <1>9, <1>10 DEF PartyInv

LEMMA AnnounceWatcherInv ==
  ASSUME PartyInv, UNCHANGED setting, NEW s \in Sessions, NEW w \in Users, AnnounceWatcher(s, w)
  PROVE  PartyInv'
  <1> PICK c \in Contents, u \in Users : c = loc[s].content /\ u = user[s]
    BY HandlerFacts DEF AnnounceWatcher, Joining
  <1> DEFINE l == [loc[s] EXCEPT !.todo = @ \ {w}]
  <1>1. /\ pc[s] = "announce" /\ w \in loc[s].todo /\ Step(s, "announce", l)
        /\ \/ Broadcast(s, c, announced[c] \cup {w})
           \/ UNCHANGED <<announced, watcherCount>>
        /\ UNCHANGED <<exists, session, user, subs, watchingUsers>>
    BY DEF AnnounceWatcher, broadcasts
  <1>2. TypeOK /\ loc[s] \in Locals
    BY <1>1, HandlerFacts
  <1>3. /\ l \in Locals /\ l.content = c
        /\ l.count = loc[s].count /\ l.todo = loc[s].todo \ {w}
    BY <1>2 DEF Locals
  <1> HIDE DEF l
  <1>4. /\ announced' \in [Contents -> SUBSET Users]
        /\ watcherCount' \in [Contents -> 0..Cardinality(Users)]
        /\ announced'[c] \in {announced[c], announced[c] \cup {w}}
        /\ \A d \in Contents \ {c} : announced'[d] = announced[d] /\ watcherCount'[d] = watcherCount[d]
    <2>1. announced[c] \cup {w} \subseteq Users
      BY <1>2 DEF TypeOK
    <2>2. CASE Broadcast(s, c, announced[c] \cup {w})
      BY <1>2, <2>1, <2>2, BroadcastMoves
    <2>3. CASE UNCHANGED <<announced, watcherCount>>
      BY <1>2, <2>3 DEF TypeOK
    <2>4. QED
      BY <1>1, <2>2, <2>3
  <1>5. /\ TypeOK' /\ \A t \in Sessions : HandlerOK(t)'
        /\ Undeleted' /\ OneTab' /\ (~setting.overlap => OneHandler')
        /\ ~setting.overlap => \A t \in Sessions \ {s} : pc'[t] = "idle"
        /\ pc'[s] = "announce" /\ loc'[s] = l
        /\ \A t \in Sessions \ {s} : pc'[t] = pc[t] /\ loc'[t] = loc[t]
    <2>1. /\ pc[s] # "idle" /\ pc[s] \notin Going /\ "announce" \in Steps \cap Joining
          /\ watchingUsers' \in [Contents -> SUBSET Users]
      BY <1>1, <1>2 DEF TypeOK, Steps, Joining, Going
    <2>2. QED
      BY <1>1, <1>2, <1>3, <1>4, <2>1, HandlerKeeps
  <1>6. Listed'
    BY <1>1, ListedKept
  <1>7. NoGhost'
    <2>1. \A e \in Contents, v \in Users : Leaving(v, e) => Leaving(v, e)'
      BY <1>1, <1>5 DEF Leaving
    <2>2. QED
      BY <1>1, <1>2, <2>1, NoGhostKept DEF TypeOK
  <1>8. Told'
    <2>1. \A e \in Contents \ {c} : ~Telling(s, e) /\ ~Telling(s, e)'
      BY <1>3, <1>5 DEF Telling
    <2>2. ASSUME ~setting.overlap, c \in exists PROVE Telling(s, c)' /\ Owes(s, c)'
      <3>1. Owes(s, c)
        BY <1>1, <2>2, HandlerFacts DEF Telling, Joining
      <3>2. /\ announced[c] \cup {u} = watchingUsers[c] /\ w \in watchingUsers[c]
            /\ loc[s].count = Cardinality(watchingUsers[c]) /\ loc[s].todo \subseteq watchingUsers[c]
        BY <1>1, <3>1 DEF Owes, Joining
      <3>3. QED
        BY <1>1, <1>3, <1>4, <1>5, <3>2 DEF Telling, Owes, Joining
    <2>3. QED
      BY <1>1, <1>4, <1>5, <2>1, <2>2, ToldBy
  <1>9. QED
    BY <1>5, <1>6, <1>7, <1>8 DEF PartyInv

LEMMA AnnounceSelfInv ==
  ASSUME PartyInv, UNCHANGED setting, NEW s \in Sessions, AnnounceSelf(s)
  PROVE  PartyInv'
  <1> PICK c \in Contents, u \in Users : c = loc[s].content /\ u = user[s]
    BY HandlerFacts DEF AnnounceSelf, Joining
  <1>1. /\ pc[s] = "announce" /\ Step(s, "idle", loc[s])
        /\ Broadcast(s, c, announced[c] \cup {u})
        /\ UNCHANGED <<exists, session, user, subs, watchingUsers>>
    BY DEF AnnounceSelf, Step
  <1>2. TypeOK /\ loc[s] \in Locals
    BY <1>1, HandlerFacts
  <1>3. announced[c] \cup {u} \subseteq Users
    BY <1>2 DEF TypeOK
  <1>4. /\ announced' \in [Contents -> SUBSET Users]
        /\ watcherCount' \in [Contents -> 0..Cardinality(Users)]
        /\ announced'[c] = announced[c] \cup {u} /\ watcherCount'[c] = loc[s].count
        /\ \A d \in Contents \ {c} : announced'[d] = announced[d] /\ watcherCount'[d] = watcherCount[d]
    BY <1>1, <1>2, <1>3, BroadcastMoves
  <1>5. /\ TypeOK' /\ \A t \in Sessions : HandlerOK(t)'
        /\ Undeleted' /\ OneTab' /\ (~setting.overlap => OneHandler')
        /\ ~setting.overlap => \A t \in Sessions \ {s} : pc'[t] = "idle"
        /\ pc'[s] = "idle"
        /\ \A t \in Sessions \ {s} : pc'[t] = pc[t] /\ loc'[t] = loc[t]
    <2>1. /\ pc[s] # "idle" /\ pc[s] \notin Going /\ "idle" \in Steps
          /\ watchingUsers' \in [Contents -> SUBSET Users]
      BY <1>1, <1>2 DEF TypeOK, Steps, Going
    <2>2. QED
      BY <1>1, <1>2, <1>4, <2>1, HandlerKeeps
  <1>6. Listed'
    BY <1>1, ListedKept
  <1>7. NoGhost'
    <2>1. \A e \in Contents, v \in Users : Leaving(v, e) => Leaving(v, e)'
      BY <1>1, <1>5 DEF Leaving
    <2>2. QED
      BY <1>1, <1>2, <2>1, NoGhostKept DEF TypeOK
  <1>8. Told'
    <2>1. \A e \in Contents : (e # c => ~Telling(s, e)) /\ ~Telling(s, e)'
      BY <1>5 DEF Telling, Joining
    <2>2. ASSUME ~setting.overlap, c \in exists PROVE AddsUp(c)' /\ ~Telling(s, c)'
      <3>1. Owes(s, c)
        BY <1>1, <2>2, HandlerFacts DEF Telling, Joining
      <3>2. /\ announced[c] \cup {u} = watchingUsers[c]
            /\ loc[s].count = Cardinality(watchingUsers[c])
        BY <1>1, <3>1 DEF Owes, Joining
      <3>3. QED
        BY <1>1, <1>4, <2>1, <3>2 DEF AddsUp
    <2>3. QED
      BY <1>1, <1>4, <1>5, <2>1, <2>2, ToldBy
  <1>9. QED
    BY <1>5, <1>6, <1>7, <1>8 DEF PartyInv

-----------------------------------------------------------------------------
(* The handler of a disconnection.                                          *)

LEMMA DisconnectInv ==
  ASSUME PartyInv, UNCHANGED setting, NEW s \in Sessions, Disconnect(s)
  PROVE  PartyInv'
  <1> DEFINE l == [NullLocals EXCEPT !.todo = Contents]
  <1>1. /\ session[s] = "open" /\ pc[s] = "idle" /\ Step(s, "leave", l)
        /\ setting.overlap \/ \A t \in Sessions : pc[t] = "idle"
        /\ session' = [session EXCEPT ![s] = "closed"]
        /\ subs' = [subs EXCEPT ![s] = {}]
        /\ UNCHANGED <<exists, user, watchingUsers, announced, watcherCount>>
    BY DEF Disconnect, MayHandle, broadcasts
  <1>2. TypeOK /\ \A t \in Sessions : HandlerOK(t)
    BY DEF PartyInv
  <1>3. l \in Locals /\ l.todo = Contents
    BY NullLocalsTyped DEF Locals, NullLocals
  <1> HIDE DEF l
  <1>4. /\ session'[s] = "closed" /\ subs'[s] = {} /\ pc'[s] = "leave" /\ loc'[s] = l
        /\ \A t \in Sessions \ {s} : /\ session'[t] = session[t] /\ subs'[t] = subs[t]
                                     /\ pc'[t] = pc[t] /\ loc'[t] = loc[t]
        /\ pc' \in [Sessions -> Steps] /\ loc' \in [Sessions -> Locals]
    <2>1. "leave" \in Steps
      BY DEF Steps
    <2>2. QED
      BY <1>1, <1>2, <1>3, <2>1, StepMoves DEF TypeOK
  <1>5. TypeOK'
    BY <1>1, <1>2, <1>4 DEF TypeOK, Steps, Joining, Locals
  <1>6. ASSUME NEW t \in Sessions PROVE HandlerOK(t)'
    <2>1. HandlerOK(t)
      BY <1>2
    <2>2. CASE t # s
      BY <1>1, <1>4, <2>1, <2>2 DEF HandlerOK
    <2>3. CASE t = s
      BY <1>1, <1>4, <2>1, <2>3 DEF HandlerOK, Joining, Going
    <2>4. QED
      BY <2>2, <2>3
  <1>7. Undeleted'
    BY <1>1 DEF PartyInv, Undeleted
  <1>8. OneTab'
    <2>1. \A t \in Sessions : Over(t) => t # s
      BY <1>1 DEF Over
    <2>2. \A t \in Sessions : Over(t) => Over(t)'
      BY <1>4, <2>1 DEF Over
    <2>3. QED
      BY <1>1, <2>2 DEF PartyInv, OneTab
  <1>9. Listed'
    BY <1>1, <1>4 DEF PartyInv, Listed
  <1>10. NoGhost'
    <2>1. ASSUME NEW c \in Contents, NEW w \in Users, Leaving(w, c) PROVE Leaving(w, c)'
      BY <1>1, <1>4, <2>1 DEF Leaving
    <2>2. ASSUME NEW c \in Contents, NEW w \in Users, Attends(w, c, Destinations)
          PROVE  (Attends(w, c, Destinations) \/ Leaving(w, c))'
      <3>1. PICK t \in Sessions : /\ session[t] = "open" /\ user[t] = w
                                  /\ \E d \in Destinations : <<d, c>> \in subs[t]
        BY <2>2 DEF Attends
      <3>2. CASE t = s
        BY <1>1, <1>3, <1>4, <3>1, <3>2 DEF Leaving
      <3>3. CASE t # s
        BY <1>1, <1>4, <3>1, <3>3 DEF Attends
      <3>4. QED
        BY <3>2, <3>3
    <2>3. \A c \in Contents : watchingUsers[c] \subseteq Users
      BY <1>2 DEF TypeOK
    <2>4. QED
      BY <1>1, <2>1, <2>2, <2>3 DEF PartyInv, NoGhost
  <1>11. Told'
    <2> SUFFICES ASSUME ~setting.overlap PROVE Told'
      BY <1>1 DEF Told
    <2>1. \A t \in Sessions : pc[t] = "idle"
      BY <1>1
    <2>2. \A c \in exists : AddsUp(c)
      BY <2>1 DEF PartyInv, Told, Telling, Joining
    <2>3. OneHandler' /\ \A t \in Sessions, c \in exists : ~Telling(t, c)'
      BY <1>4, <2>1 DEF OneHandler, Telling, Joining
    <2>4. QED
      BY <1>1, <2>2, <2>3 DEF Told, AddsUp
  <1>12. QED
    BY <1>5, <1>6, <1>7, <1>8, <1>9, <1>10, <1>11 DEF PartyInv

LEMMA RemoveInv ==
  ASSUME PartyInv, UNCHANGED setting, NEW s \in Sessions, NEW c \in Contents, Remove(s, c)
  PROVE  PartyInv'
  <1> PICK u \in Users : u = user[s]
    BY HandlerFacts DEF Remove
  <1> DEFINE rest == watchingUsers[c] \ {u}
             step == IF u \in watchingUsers[c] THEN "leaveLookup" ELSE "leave"
             l == [content |-> c, count |-> Cardinality(rest), todo |-> loc[s].todo \ {c}]
  <1>1. /\ pc[s] = "leave" /\ c \in loc[s].todo /\ Step(s, step, l)
        /\ watchingUsers' = [watchingUsers EXCEPT ![c] = rest]
        /\ UNCHANGED <<exists, session, user, subs, announced, watcherCount>>
    BY DEF Remove, broadcasts
  <1>2. /\ TypeOK /\ loc[s] \in Locals /\ session[s] = "closed"
        /\ rest \subseteq Users /\ Cardinality(rest) \in 0..Cardinality(Users)
    <2>1. TypeOK /\ loc[s] \in Locals /\ session[s] = "closed"
      BY <1>1, HandlerFacts DEF Going
    <2>2. rest \subseteq Users
      BY <2>1 DEF TypeOK
    <2>3. QED
      BY <2>1, <2>2, CountFacts
  <1>3. /\ l \in Locals /\ l.content = c /\ c # None
        /\ l.count = Cardinality(rest) /\ l.todo = loc[s].todo \ {c}
    BY <1>2, WatchAssumption DEF Locals
  <1>4. /\ watchingUsers' \in [Contents -> SUBSET Users]
        /\ watchingUsers'[c] = rest
        /\ \A e \in Contents \ {c} : watchingUsers'[e] = watchingUsers[e]
    BY <1>1, <1>2 DEF TypeOK
  <1>5. /\ step \in {"leave", "leaveLookup"}
        /\ u \in watchingUsers[c] => step = "leaveLookup"
        /\ u \notin watchingUsers[c] => step = "leave" /\ rest = watchingUsers[c]
    OBVIOUS
  <1>6. rest \subseteq watchingUsers[c] /\ u \notin rest /\ watchingUsers[c] \subseteq rest \cup {u}
    OBVIOUS
  <1> HIDE DEF l, step, rest
  <1>7. /\ TypeOK' /\ \A t \in Sessions : HandlerOK(t)'
        /\ Undeleted' /\ OneTab' /\ (~setting.overlap => OneHandler')
        /\ ~setting.overlap => \A t \in Sessions \ {s} : pc'[t] = "idle"
        /\ pc'[s] = step /\ loc'[s] = l
        /\ \A t \in Sessions \ {s} : pc'[t] = pc[t] /\ loc'[t] = loc[t]
    <2>1. /\ pc[s] # "idle" /\ pc[s] \notin Joining /\ step \in Steps /\ step \in Going
          /\ step # "idle"
          /\ announced' \in [Contents -> SUBSET Users]
          /\ watcherCount' \in [Contents -> 0..Cardinality(Users)]
      BY <1>1, <1>2, <1>5 DEF TypeOK, Steps, Joining, Going
    <2>2. QED
      BY <1>1, <1>2, <1>3, <1>4, <2>1, HandlerKeeps
  <1>8. Listed'
    <2> SUFFICES ASSUME ~setting.tabs, NEW t \in Sessions, NEW e \in Contents, NEW d \in Destinations,
                        session[t] = "open", <<d, e>> \in subs[t]
                 PROVE  user[t] \in watchingUsers'[e]
      BY <1>1 DEF Listed
    <2>1. user[t] \in watchingUsers[e]
      BY DEF PartyInv, Listed
    <2>2. user[t] # u
      <3>1. ~Over(s) /\ ~Over(t) /\ t # s
        BY <1>1, <1>2 DEF Over
      <3>2. u # None
        BY WatchAssumption
      <3>3. QED
        BY <3>1, <3>2 DEF PartyInv, OneTab
    <2>3. QED
      BY <1>4, <1>6, <2>1, <2>2
  <1>9. NoGhost'
    <2>1. ASSUME NEW e \in Contents, NEW w \in Users, Leaving(w, e), w \in watchingUsers'[e]
          PROVE  Leaving(w, e)'
      <3>1. PICK t \in Sessions : user[t] = w /\ pc[t] \in {"leave", "leaveLookup"} /\ e \in loc[t].todo
        BY <2>1 DEF Leaving
      <3>2. CASE t = s
        <4>1. e # c
          BY <1>4, <1>6, <2>1, <3>1, <3>2
        <4>2. QED
          BY <1>1, <1>3, <1>5, <1>7, <3>1, <3>2, <4>1 DEF Leaving
      <3>3. CASE t # s
        BY <1>1, <1>7, <3>1, <3>3 DEF Leaving
      <3>4. QED
        BY <3>2, <3>3
    <2>2. \A e \in Contents : \A w \in watchingUsers'[e] : w \in Users /\ w \in watchingUsers[e]
      BY <1>4, <1>6
    <2>3. QED
      BY <1>1, <2>1, <2>2, NoGhostKept
  <1>10. Told'
    <2>1. \A e \in Contents : ~Telling(s, e) /\ (e # c => ~Telling(s, e)')
      BY <1>1, <1>3, <1>7 DEF Telling, Joining
    <2>2. ASSUME ~setting.overlap, c \in exists
          PROVE  (AddsUp(c)' /\ ~Telling(s, c)') \/ (Telling(s, c)' /\ Owes(s, c)')
      <3>1. AddsUp(c)
        BY <1>1, <2>1, <2>2, OthersAddUp
      <3>2. CASE u \in watchingUsers[c]
        <4>1. pc'[s] = "leaveLookup" /\ loc'[s] = l
          BY <1>5, <1>7, <3>2
        <4>2. announced'[c] \ {user'[s]} = watchingUsers'[c]
          BY <1>1, <1>4, <3>1 DEF AddsUp, rest
        <4>3. loc'[s].count = Cardinality(watchingUsers'[c])
          BY <1>3, <1>4, <4>1
        <4>4. QED
          BY <1>3, <4>1, <4>2, <4>3 DEF Telling, Owes, Joining
      <3>3. CASE u \notin watchingUsers[c]
        <4>1. pc'[s] = "leave" /\ watchingUsers'[c] = watchingUsers[c]
          BY <1>4, <1>5, <1>7, <3>3
        <4>2. QED
          BY <1>1, <3>1, <4>1 DEF AddsUp, Telling, Joining
      <3>4. QED
        BY <3>2, <3>3
    <2>3. QED
      BY <1>1, <1>4, <1>7, <2>1, <2>2, ToldBy
  <1>11. QED
    BY <1>7, <1>8, <1>9, <1>10 DEF PartyInv

LEMMA AnnounceLeaveInv ==
  ASSUME PartyInv, UNCHANGED setting, NEW s \in Sessions, AnnounceLeave(s)
  PROVE  PartyInv'
  <1> PICK c \in Contents, u \in Users : c = loc[s].content /\ u = user[s]
    BY HandlerFacts DEF AnnounceLeave
  <1> DEFINE step == IF c \in exists THEN "leave" ELSE "idle"
  <1>1. /\ pc[s] = "leaveLookup" /\ Step(s, step, loc[s])
        /\ IF c \in exists THEN Broadcast(s, c, announced[c] \ {u})
                           ELSE UNCHANGED <<announced, watcherCount>>
        /\ UNCHANGED <<exists, session, user, subs, watchingUsers>>
    BY DEF AnnounceLeave, Step, broadcasts
  <1>2. TypeOK /\ loc[s] \in Locals
    BY <1>1, HandlerFacts
  <1>3. /\ step \in {"leave", "idle"}
        /\ c \in exists => step = "leave"
    OBVIOUS
  <1> HIDE DEF step
  <1>4. /\ announced' \in [Contents -> SUBSET Users]
        /\ watcherCount' \in [Contents -> 0..Cardinality(Users)]
        /\ c \in exists => announced'[c] = announced[c] \ {u} /\ watcherCount'[c] = loc[s].count
        /\ \A d \in Contents \ {c} : announced'[d] = announced[d] /\ watcherCount'[d] = watcherCount[d]
    <2>1. announced[c] \ {u} \subseteq Users
      BY <1>2 DEF TypeOK
    <2>2. CASE c \in exists
      BY <1>1, <1>2, <2>1, <2>2, BroadcastMoves
    <2>3. CASE c \notin exists
      BY <1>1, <1>2, <2>3 DEF TypeOK
    <2>4. QED
      BY <2>2, <2>3
  <1>5. /\ TypeOK' /\ \A t \in Sessions : HandlerOK(t)'
        /\ Undeleted' /\ OneTab' /\ (~setting.overlap => OneHandler')
        /\ ~setting.overlap => \A t \in Sessions \ {s} : pc'[t] = "idle"
        /\ pc'[s] = step /\ loc'[s] = IF step = "idle" THEN NullLocals ELSE loc[s]
        /\ \A t \in Sessions \ {s} : pc'[t] = pc[t] /\ loc'[t] = loc[t]
    <2>1. /\ pc[s] # "idle" /\ pc[s] \notin Joining /\ step \in Steps
          /\ step \in Going \cup {"idle"} /\ step # "leaveLookup"
          /\ watchingUsers' \in [Contents -> SUBSET Users]
      BY <1>1, <1>2, <1>3 DEF TypeOK, Steps, Joining, Going
    <2>2. QED
      BY <1>1, <1>2, <1>4, <2>1, HandlerKeeps
  <1>6. Listed'
    BY <1>1, ListedKept
  <1>7. NoGhost'
    <2>1. ASSUME ~setting.delete, NEW e \in Contents, NEW w \in Users, Leaving(w, e)
          PROVE  Leaving(w, e)'
      <3>1. step = "leave"
        BY <1>3, <2>1 DEF PartyInv, Undeleted
      <3>2. QED
        BY <1>1, <1>5, <2>1, <3>1 DEF Leaving
    <2>2. QED
      BY <1>1, <1>2, <2>1, NoGhostKept DEF TypeOK
  <1>8. Told'
    <2>1. \A e \in Contents : (e # c => ~Telling(s, e)) /\ ~Telling(s, e)'
      BY <1>3, <1>5 DEF Telling, Joining
    <2>2. ASSUME ~setting.overlap, c \in exists PROVE AddsUp(c)' /\ ~Telling(s, c)'
      <3>1. Owes(s, c)
        BY <1>1, <2>2, HandlerFacts DEF Telling
      <3>2. /\ announced[c] \ {u} = watchingUsers[c]
            /\ loc[s].count = Cardinality(watchingUsers[c])
        BY <1>1, <3>1 DEF Owes
      <3>3. QED
        BY <1>1, <1>4, <2>1, <2>2, <3>2 DEF AddsUp
    <2>3. QED
      BY <1>1, <1>4, <1>5, <2>1, <2>2, ToldBy
  <1>9. QED
    BY <1>5, <1>6, <1>7, <1>8 DEF PartyInv

LEMMA LeaveEndsInv ==
  ASSUME PartyInv, UNCHANGED setting, NEW s \in Sessions, LeaveEnds(s)
  PROVE  PartyInv'
  <1>1. /\ pc[s] = "leave" /\ loc[s].todo = {} /\ Step(s, "idle", loc[s])
        /\ UNCHANGED <<exists, session, user, subs, watchingUsers, announced, watcherCount>>
    BY DEF LeaveEnds, Step, broadcasts
  <1>2. TypeOK /\ loc[s] \in Locals
    BY <1>1, HandlerFacts
  <1>3. /\ TypeOK' /\ \A t \in Sessions : HandlerOK(t)'
        /\ Undeleted' /\ OneTab' /\ (~setting.overlap => OneHandler')
        /\ ~setting.overlap => \A t \in Sessions \ {s} : pc'[t] = "idle"
        /\ pc'[s] = "idle"
        /\ \A t \in Sessions \ {s} : pc'[t] = pc[t] /\ loc'[t] = loc[t]
    <2>1. /\ pc[s] # "idle" /\ pc[s] \notin Joining /\ "idle" \in Steps
          /\ UNCHANGED <<watchingUsers, announced, watcherCount>>
      BY <1>1 DEF Steps, Joining
    <2>2. QED
      BY <1>1, <1>2, <2>1, HandlerKeeps DEF TypeOK
  <1>4. Listed'
    BY <1>1, ListedKept
  <1>5. NoGhost'
    <2>1. ASSUME NEW e \in Contents, NEW w \in Users, Leaving(w, e) PROVE Leaving(w, e)'
      BY <1>1, <1>3, <2>1 DEF Leaving
    <2>2. QED
      BY <1>1, <1>2, <2>1, NoGhostKept DEF TypeOK
  <1>6. Told'
    <2>1. \A e \in Contents : ~Telling(s, e) /\ ~Telling(s, e)'
      BY <1>1, <1>3 DEF Telling, Joining
    <2>2. None \notin exists
      BY <1>2, WatchAssumption DEF TypeOK
    <2>3. QED
      BY <1>1, <1>3, <2>1, <2>2, ToldBy
  <1>7. QED
    BY <1>3, <1>4, <1>5, <1>6 DEF PartyInv

-----------------------------------------------------------------------------
(* The theorems about WatchParty.                                           *)

LEMMA PartyInit == Init => PartyInv
  <1> SUFFICES ASSUME Init PROVE PartyInv
    OBVIOUS
  <1>1. /\ setting \in Settings /\ exists = Contents
        /\ \A s \in Sessions : /\ session[s] = "new" /\ user[s] = None /\ subs[s] = {}
                               /\ pc[s] = "idle" /\ loc[s] = NullLocals
        /\ \A c \in Contents : /\ watchingUsers[c] = {} /\ announced[c] = {}
                               /\ watcherCount[c] = 0
    BY DEF Init
  <1>2. TypeOK
    <2>1. 0 \in 0..Cardinality(Users) /\ NullLocals \in Locals
      BY WatchAssumption, FS_CardinalityType, NullLocalsTyped
    <2>2. QED
      BY <2>1 DEF Init, TypeOK, Locals
  <1>3. \A s \in Sessions : HandlerOK(s)
    BY <1>1 DEF HandlerOK, Joining
  <1>4. Undeleted /\ NoGhost /\ OneTab /\ Listed
    BY <1>1 DEF Undeleted, NoGhost, OneTab, Listed
  <1>5. Told
    <2>1. Cardinality({}) = 0
      BY FS_EmptySet
    <2>2. QED
      BY <1>1, <2>1 DEF Told, OneHandler, AddsUp, Telling, Joining
  <1>6. QED
    BY <1>2, <1>3, <1>4, <1>5 DEF PartyInv

LEMMA PartyNext == PartyInv /\ [Next]_vars => PartyInv'
  <1> SUFFICES ASSUME PartyInv, [Next]_vars PROVE PartyInv'
    OBVIOUS
  <1>1. ASSUME UNCHANGED setting, NEW s \in Sessions, Client(s) PROVE PartyInv'
    <2>1. CASE \E u \in Users : Connect(s, u)
      BY <1>1, <2>1, ConnectInv
    <2>2. CASE \E d \in setting.to, c \in Contents : Subscribe(s, d, c) \/ Unsubscribe(s, d, c)
      BY <1>1, <2>2, SubscribeInv, UnsubscribeInv
    <2>3. CASE Disconnect(s)
      BY <1>1, <2>3, DisconnectInv
    <2>4. QED
      BY <1>1, <2>1, <2>2, <2>3 DEF Client
  <1>2. ASSUME UNCHANGED setting, NEW s \in Sessions, Handler(s) PROVE PartyInv'
    BY <1>2, PutInv, LookUpInv, AnnounceSelfInv, AnnounceWatcherInv, RemoveInv,
       AnnounceLeaveInv, LeaveEndsInv DEF Handler
  <1>3. CASE UNCHANGED vars
    <2>1. TypeOK' /\ \A s \in Sessions : HandlerOK(s)'
      BY <1>3 DEF vars, PartyInv, TypeOK, HandlerOK
    <2>2. Undeleted' /\ NoGhost' /\ OneTab' /\ Listed'
      BY <1>3 DEF vars, PartyInv, Undeleted, NoGhost, Attends, Leaving, OneTab, Over, Listed
    <2>3. Told'
      BY <1>3 DEF vars, PartyInv, Told, OneHandler, AddsUp, Telling, Owes
    <2>4. QED
      BY <2>1, <2>2, <2>3 DEF PartyInv
  <1>4. QED
    BY <1>1, <1>2, <1>3, DeleteContentInv DEF Next

\* Whatever surrounds the listener, the map of watchers, the handlers under way
\* and the broadcasts are tied to each other as PartyInv says.
THEOREM PartyInvariant == Spec => []PartyInv
  BY PartyInit, PartyNext, PTL DEF Spec

\* Nobody is listed for good whose last session is gone.
THEOREM NobodyStaysListed == Spec => []NoGhost
  <1>1. PartyInv => NoGhost
    BY DEF PartyInv
  <1>2. QED
    BY <1>1, PartyInvariant, PTL

\* A user none of whose handlers runs is listed if and only if he watches.
THEOREM ListedAreWatching == Spec => []ListedIffWatching
  <1>1. PartyInv => ListedIffWatching
    <2> SUFFICES ASSUME PartyInv, ~setting.tabs, ~setting.unsubscribe, ~setting.delete,
                        setting.to = {"watch"}, NEW u \in Users, NEW c \in Contents, Quiet(u)
                 PROVE  u \in watchingUsers[c] <=> Attends(u, c, {"watch"})
      BY DEF ListedIffWatching
    <2>1. ~Leaving(u, c)
      BY DEF Quiet, Leaving
    <2>2. Attends(u, c, Destinations) => Attends(u, c, {"watch"})
      <3>1. \A s \in Sessions : subs[s] \subseteq {"watch"} \X Contents
        BY DEF PartyInv, HandlerOK
      <3>2. QED
        BY <3>1 DEF Attends
    <2>3. Attends(u, c, {"watch"}) => u \in watchingUsers[c]
      BY DEF Attends, PartyInv, Listed, Destinations
    <2>4. QED
      BY <2>1, <2>2, <2>3 DEF PartyInv, NoGhost
  <1>2. QED
    BY <1>1, PartyInvariant, PTL

\* With handlers one after another the broadcasts add up to the map of watchers.
THEOREM BroadcastsTell == Spec => []BroadcastsAddUp
  <1>1. PartyInv => BroadcastsAddUp
    BY DEF PartyInv, Told, AddsUp, Telling, Joining, BroadcastsAddUp
  <1>2. QED
    BY <1>1, PartyInvariant, PTL

-----------------------------------------------------------------------------
(* The pages: the inductive invariant.                                      *)

ViewerLists == [data : Seq([id : Users]), more : BOOLEAN, cursor : {None},
                loading : BOOLEAN, params : Contents \cup {None}]

Kinds == {"JOIN", "LEAVE"}

PageTyped ==
    /\ <<setting, habits>> \in Combinations
    /\ at \in [Users -> Contents \cup {None}]
    /\ socket \in [Users -> [state : {"off", "connecting", "connected"},
                             session : Sessions \cup {None}]]
    /\ entries \in [Users -> SUBSET Contents]
    /\ list \in [Users -> ViewerLists]
    /\ late \subseteq Sessions
    /\ frames \in [Users -> [Users -> Seq(Kinds)]]

\* The socket of a tab is an open session of its user.
SocketOK(u) ==
    /\ IF Connected(u) THEN /\ socket[u].session \in Sessions
                            /\ session[socket[u].session] = "open"
                            /\ user[socket[u].session] = u
                       ELSE socket[u].session = None
    /\ habits = None => ~Connected(u)

\* Which entries a tab holds, and what is behind them.
EntriesOK(u) ==
    habits # None /\ ~(habits.leave /\ habits.drop) =>
        /\ Connected(u) => \A c \in entries[u] : <<"watch", c>> \in subs[socket[u].session]
        /\ ~habits.leave => entries[u] \subseteq {at[u]}
        /\ ~habits.drop /\ ~Connected(u) => entries[u] = {}

\* Whom a page will show when it has heard all frames under way in their order:
\* the last one about a viewer decides.
Awaited(u) ==
    {w \in Users : IF frames[u][w] = <<>> THEN w \in Ids(list[u])
                   ELSE frames[u][w][Len(frames[u][w])] = "JOIN"}

\* A row too many is of a user about whom the LEAVE is still to come, a row that
\* is missing of a newcomer, or the page is the newcomer's.
Shown(u) ==
    LET W == watchingUsers[at[u]]
        L == Awaited(u)
    IN  /\ \A w \in L \ W : \E s \in Sessions :
               pc[s] = "leaveLookup" /\ loc[s].content = at[u] /\ user[s] = w
        /\ habits.prompt => \A w \in W \ L : \E s \in Sessions :
               /\ pc[s] \in Joining /\ loc[s].content = at[u]
               /\ \/ user[s] = w
                  \/ s = socket[u].session /\ (pc[s] = "announce" => w \in loc[s].todo)

\* A page with no row and none on its way.
Blank(u) == list[u].data = <<>> /\ frames[u] = NoFrames

\* In calm surroundings a session is held by the tab of its user, which has an
\* entry for each of its subscriptions; a page shows nothing before it hears.
CalmOK ==
    /\ \A s \in Sessions : session[s] = "open" => socket[user[s]].session = s
    /\ habits.prompt => late = {}
    /\ \A u \in Users :
           /\ Connected(u) => subs[socket[u].session] \subseteq {"watch"} \X entries[u]
           /\ at[u] \notin entries[u] \/ socket[u].session \in late => Blank(u)
           /\ at[u] \in entries[u] => Shown(u)

PageInv ==
    /\ PartyInv /\ PageTyped
    /\ \A u \in Users : SocketOK(u) /\ EntriesOK(u)
    /\ Calm => CalmOK

-----------------------------------------------------------------------------
(* The lists of viewers.                                                    *)

\* The members of K that are not greater than i: their number is the rank of i.
UpTo(K, i) == {j \in K : j <= i}

LEMMA RankFacts ==
  ASSUME NEW K \in SUBSET Nat, IsFiniteSet(K)
  PROVE  /\ \A i \in K : Cardinality(UpTo(K, i)) \in 1..Cardinality(K)
         /\ \A i, k \in K : Cardinality(UpTo(K, i)) = Cardinality(UpTo(K, k)) => i = k
  <1>1. Cardinality(K) \in Nat
    BY FS_CardinalityType
  <1>2. ASSUME NEW i \in K
        PROVE  /\ IsFiniteSet(UpTo(K, i)) /\ Cardinality(UpTo(K, i)) \in 1..Cardinality(K)
    <2>1. UpTo(K, i) \in SUBSET K /\ i \in UpTo(K, i)
      BY DEF UpTo
    <2>2. IsFiniteSet(UpTo(K, i)) /\ Cardinality(UpTo(K, i)) <= Cardinality(K)
      BY <2>1, FS_Subset
    <2>3. Cardinality(UpTo(K, i)) \in Nat /\ Cardinality(UpTo(K, i)) # 0
      BY <2>1, <2>2, FS_CardinalityType, FS_EmptySet
    <2>4. QED
      BY <1>1, <2>2, <2>3
  <1>3. ASSUME NEW i \in K, NEW k \in K, i < k
        PROVE  Cardinality(UpTo(K, i)) # Cardinality(UpTo(K, k))
    <2>1. i \in Nat /\ k \in Nat
      OBVIOUS
    <2>2. \A j \in UpTo(K, i) : j \in Nat /\ j \in K /\ j <= i
      BY DEF UpTo
    <2>3. \A j \in UpTo(K, i) : j \in UpTo(K, k)
      BY <1>3, <2>1, <2>2 DEF UpTo
    <2>4. k \in UpTo(K, k) /\ k \notin UpTo(K, i)
      BY <1>3, <2>1 DEF UpTo
    <2>5. UpTo(K, i) \in SUBSET UpTo(K, k) /\ IsFiniteSet(UpTo(K, k))
      BY <1>2, <2>3
    <2>6. QED
      BY <2>4, <2>5, FS_Subset
  <1>4. ASSUME NEW i \in K, NEW k \in K, Cardinality(UpTo(K, i)) = Cardinality(UpTo(K, k))
        PROVE  i = k
    <2>1. i \in Nat /\ k \in Nat /\ ~(i < k) /\ ~(k < i)
      BY <1>3, <1>4
    <2>2. QED
      BY <2>1
  <1>5. QED
    BY <1>2, <1>4

\* Every number up to the size of a finite set of numbers is a rank.
LEMMA RankOnto ==
  ASSUME NEW K \in SUBSET Nat, IsFiniteSet(K), NEW n \in 1..Cardinality(K)
  PROVE  \E i \in K : Cardinality(UpTo(K, i)) = n
  <1> DEFINE rank == [i \in K |-> Cardinality(UpTo(K, i))]
             T == 1..Cardinality(K)
  <1>1. Cardinality(K) \in Nat
    BY FS_CardinalityType
  <1>2. rank \in [K -> T] /\ \A i, k \in K : rank[i] = rank[k] => i = k
    BY RankFacts
  <1>3. rank \in Injection(K, T)
    BY <1>2 DEF Injection, IsInjective
  <1>4. IsFiniteSet(T) /\ Cardinality(T) = Cardinality(K)
    <2>1. /\ IsFiniteSet(T)
          /\ Cardinality(T) = IF 1 > Cardinality(K) THEN 0 ELSE Cardinality(K) - 1 + 1
      BY <1>1, FS_Interval
    <2>2. QED
      BY <1>1, <2>1
  <1>5. rank \in Surjection(K, T)
    BY <1>3, <1>4, FS_Injection
  <1>6. PICK i \in K : rank[i] = n
    BY <1>5 DEF Surjection
  <1>7. QED
    BY <1>6

LEMMA ListFacts ==
  ASSUME NEW l \in ViewerLists
  PROVE  /\ l.data \in Seq([id : Users]) /\ Len(l.data) \in Nat
         /\ \A i \in 1..Len(l.data) : l.data[i] \in [id : Users]
         /\ Ids(l) \subseteq Users
         /\ l.data = <<>> => Ids(l) = {}
  <1>1. l.data \in Seq([id : Users])
    BY DEF ViewerLists
  <1> DEFINE data == l.data
             Rows == [id : Users]
  <1>2. Len(l.data) \in Nat /\ \A i \in 1..Len(l.data) : l.data[i] \in [id : Users]
    <2>1. data \in Seq(Rows)
      BY <1>1
    <2> HIDE DEF data, Rows
    <2>2. Len(data) \in Nat /\ \A i \in 1..Len(data) : data[i] \in Rows
      BY <2>1
    <2>3. QED
      BY <2>2 DEF data, Rows
  <1>3. l.data = <<>> => Len(l.data) = 0
    OBVIOUS
  <1>4. QED
    BY <1>1, <1>2, <1>3 DEF Ids

LEMMA ClearedFacts == Cleared \in ViewerLists /\ Cleared.data = <<>>
  BY DEF Cleared, ViewerLists

LEMMA FetchFacts ==
  ASSUME NEW l \in ViewerLists, NEW c \in Contents
  PROVE  /\ Fetching(l, c) \in ViewerLists /\ Failed(l) \in ViewerLists
         /\ l.data = <<>> => Fetching(l, c).data = <<>>
         /\ Failed(l).data = l.data
  <1>1. <<>> \in Seq([id : Users])
    OBVIOUS
  <1>2. QED
    BY <1>1 DEF Fetching, Failed, ViewerLists

\* add: the row is there afterwards, and the others are.
LEMMA AddFacts ==
  ASSUME NEW l \in ViewerLists, NEW w \in Users
  PROVE  LET m == Add(l, [id |-> w], Append(l.data, [id |-> w]))
         IN  m \in ViewerLists /\ Ids(m) = Ids(l) \cup {w}
  <1> DEFINE row == [id |-> w]
             data == Append(l.data, row)
  <1>1. CASE w \in Ids(l)
    BY <1>1 DEF Add
  <1>2. CASE w \notin Ids(l)
    <2>1. row \in [id : Users] /\ row.id = w
      OBVIOUS
    <2>2. l.data \in Seq([id : Users]) /\ Len(l.data) \in Nat
      BY ListFacts
    <2>3. Add(l, row, data) = [l EXCEPT !.data = data]
      BY <1>2 DEF Add
    <2> HIDE DEF row
    <2>4. /\ data \in Seq([id : Users]) /\ Len(data) = Len(l.data) + 1
          /\ data[Len(data)] = row /\ \A i \in 1..Len(l.data) : data[i] = l.data[i]
      BY <2>1, <2>2
    <2> HIDE DEF data
    <2>5. [l EXCEPT !.data = data] \in ViewerLists /\ [l EXCEPT !.data = data].data = data
      BY <2>4 DEF ViewerLists
    <2>6. {data[i].id : i \in 1..Len(data)} = {l.data[i].id : i \in 1..Len(l.data)} \cup {w}
      <3>1. 1..Len(data) = 1..Len(l.data) \cup {Len(data)}
        BY <2>2, <2>4
      <3>2. QED
        BY <2>1, <2>4, <3>1
    <2> DEFINE m == Add(l, row, data)
    <2>7. m \in ViewerLists /\ m.data = data
      BY <2>3, <2>5
    <2> HIDE DEF m
    <2>8. m \in ViewerLists /\ Ids(m) = Ids(l) \cup {w}
      BY <2>6, <2>7 DEF Ids
    <2>9. QED
      BY <2>8 DEF row, data, m
  <1>3. QED
    BY <1>1, <1>2

\* delete: the row is gone, and no other.
LEMMA DeleteFacts ==
  ASSUME NEW l \in ViewerLists, NEW w
  PROVE  Delete(l, w) \in ViewerLists /\ Ids(Delete(l, w)) = Ids(l) \ {w}
  <1> DEFINE kept == {i \in 1..Len(l.data) : l.data[i].id # w}
             Nth(n) == CHOOSE i \in kept : Cardinality(UpTo(kept, i)) = n
             data == [n \in 1..Cardinality(kept) |-> l.data[Nth(n)]]
  <1>1. /\ l.data \in Seq([id : Users]) /\ Len(l.data) \in Nat
        /\ \A i \in 1..Len(l.data) : l.data[i] \in [id : Users]
    BY ListFacts
  <1>2. IsFiniteSet(kept) /\ Cardinality(kept) \in Nat /\ kept \in SUBSET Nat
    <2>1. IsFiniteSet(1..Len(l.data)) /\ kept \in SUBSET (1..Len(l.data))
      BY <1>1, FS_Interval
    <2>2. kept \in SUBSET Nat
      BY <1>1
    <2> HIDE DEF kept
    <2>3. QED
      BY <2>1, <2>2, FS_Subset, FS_CardinalityType
  <1>3. Delete(l, w) = [l EXCEPT !.data = data]
    BY DEF Delete, UpTo
  <1>4. \A i \in kept : i \in 1..Len(l.data) /\ l.data[i].id # w
    OBVIOUS
  <1>5. \A i \in 1..Len(l.data) : l.data[i].id # w => i \in kept
    OBVIOUS
  <1> HIDE DEF kept
  <1>6. \A n \in 1..Cardinality(kept) : Nth(n) \in kept
    BY <1>2, RankOnto
  <1>7. \A i \in kept : \E n \in 1..Cardinality(kept) : Nth(n) = i
    <2> SUFFICES ASSUME NEW i \in kept PROVE \E n \in 1..Cardinality(kept) : Nth(n) = i
      OBVIOUS
    <2> DEFINE n == Cardinality(UpTo(kept, i))
    <2>1. n \in 1..Cardinality(kept)
      BY <1>2, RankFacts
    <2>2. Nth(n) \in kept /\ Cardinality(UpTo(kept, Nth(n))) = n
      BY <2>1
    <2>3. \A j, k \in kept : Cardinality(UpTo(kept, j)) = Cardinality(UpTo(kept, k)) => j = k
      BY <1>2, RankFacts
    <2> HIDE DEF Nth
    <2>4. Nth(n) = i
      BY <2>2, <2>3
    <2>5. QED
      BY <2>1, <2>4
  <1> HIDE DEF Nth
  <1>8. \A n \in 1..Cardinality(kept) : data[n] = l.data[Nth(n)]
    OBVIOUS
  <1>9. data \in Seq([id : Users]) /\ Len(data) = Cardinality(kept)
    <2>1. \A n \in 1..Cardinality(kept) : l.data[Nth(n)] \in [id : Users]
      BY <1>1, <1>4, <1>6
    <2>2. data \in [1..Cardinality(kept) -> [id : Users]]
      BY <2>1
    <2> DEFINE Rows == [id : Users]
    <2> HIDE DEF data, Rows
    <2>3. data \in [1..Cardinality(kept) -> Rows]
      BY <2>2 DEF Rows
    <2>4. data \in Seq(Rows) /\ Len(data) = Cardinality(kept)
      BY <1>2, <2>3
    <2>5. QED
      BY <2>4 DEF Rows
  <1> HIDE DEF data
  <1>10. [l EXCEPT !.data = data] \in ViewerLists /\ [l EXCEPT !.data = data].data = data
    BY <1>9 DEF ViewerLists
  <1>11. {data[i].id : i \in 1..Len(data)} = {l.data[i].id : i \in 1..Len(l.data)} \ {w}
    BY <1>4, <1>5, <1>6, <1>7, <1>8, <1>9
  <1>12. QED
    BY <1>3, <1>10, <1>11 DEF Ids

\* What is under way.
LEMMA NoFramesTyped == NoFrames \in [Users -> Seq(Kinds)] /\ \A w \in Users : NoFrames[w] = <<>>
  <1>1. <<>> \in Seq(Kinds)
    OBVIOUS
  <1>2. QED
    BY <1>1 DEF NoFrames

LEMMA SentFacts ==
  ASSUME NEW f \in Seq(Kinds), NEW k \in Kinds
  PROVE  /\ Append(f, k) \in Seq(Kinds) /\ Append(f, k) # <<>>
         /\ Append(f, k)[Len(Append(f, k))] = k
  <1>1. Append(f, k) \in Seq(Kinds) /\ Len(Append(f, k)) = Len(f) + 1 /\ Append(f, k)[Len(f) + 1] = k
    BY AppendProperties
  <1>2. Len(f) \in Nat /\ Len(<<>>) = 0
    BY LenProperties, EmptySeq
  <1>3. QED
    BY <1>1, <1>2

\* A frame that is taken out; when it was the first, the last one stays the last.
LEMMA TakenFacts ==
  ASSUME NEW f \in Seq(Kinds), NEW i \in 1..Len(f)
  PROVE  LET g == SubSeq(f, 1, i - 1) \o SubSeq(f, i + 1, Len(f))
         IN  /\ g \in Seq(Kinds) /\ f # <<>>
             /\ i = 1 /\ g = <<>> => f[Len(f)] = f[1]
             /\ i = 1 /\ g # <<>> => g[Len(g)] = f[Len(f)]
  <1> DEFINE a == SubSeq(f, 1, i - 1)
             b == SubSeq(f, i + 1, Len(f))
             g == a \o b
  <1>1. Len(f) \in Nat /\ i \in Nat /\ 1 <= i /\ i <= Len(f) /\ \A j \in 1..Len(f) : f[j] \in Kinds
    BY LenProperties
  <1>2. a \in Seq(Kinds) /\ Len(a) = i - 1
    <2>1. i - 1 \in Int /\ \A j \in 1..(i - 1) : f[j] \in Kinds
      BY <1>1
    <2>2. a \in Seq(Kinds) /\ Len(a) = IF 1 <= i - 1 THEN i - 1 - 1 + 1 ELSE 0
      BY <2>1, SubSeqProperties
    <2>3. QED
      BY <1>1, <2>2
  <1>3. b \in Seq(Kinds) /\ Len(b) = Len(f) - i /\ \A j \in 1..(Len(f) - i) : b[j] = f[i + j]
    <2>1. i + 1 \in Int /\ Len(f) \in Int /\ \A j \in (i + 1)..Len(f) : f[j] \in Kinds
      BY <1>1
    <2>2. /\ b \in Seq(Kinds) /\ Len(b) = IF i + 1 <= Len(f) THEN Len(f) - (i + 1) + 1 ELSE 0
          /\ \A j \in 1..(Len(f) - (i + 1) + 1) : b[j] = f[i + 1 + j - 1]
      BY <2>1, SubSeqProperties
    <2>3. \A j \in 1..(Len(f) - i) : j \in 1..(Len(f) - (i + 1) + 1) /\ i + 1 + j - 1 = i + j
      BY <1>1
    <2>4. QED
      BY <1>1, <2>2, <2>3
  <1> HIDE DEF a, b
  <1>4. g \in Seq(Kinds) /\ Len(g) = Len(f) - 1
    <2>1. g \in Seq(Kinds) /\ Len(g) = Len(a) + Len(b)
      BY <1>2, <1>3, ConcatProperties
    <2>2. QED
      BY <1>1, <1>2, <1>3, <2>1
  <1>5. f # <<>>
    BY <1>1, EmptySeq
  <1>6. CASE i = 1
    <2>1. g = b
      <3>1. a = <<>>
        BY <1>2, <1>6, EmptySeq
      <3>2. QED
        BY <1>3, <3>1, ConcatEmptySeq
    <2>2. CASE b = <<>>
      <3>1. Len(f) = 1
        BY <1>1, <1>3, <1>6, <2>2, EmptySeq
      <3>2. QED
        BY <1>4, <1>5, <2>1, <2>2, <3>1 DEF a, b
    <2>3. CASE b # <<>>
      <3>1. Len(b) \in Nat \ {0}
        BY <1>3, <2>3, EmptySeq
      <3>2. b[Len(b)] = f[Len(f)]
        BY <1>1, <1>3, <1>6, <3>1
      <3>3. QED
        BY <1>4, <1>5, <2>1, <2>3, <3>2 DEF a, b
    <2>4. QED
      BY <2>2, <2>3
  <1>7. QED
    BY <1>4, <1>5, <1>6 DEF a, b

-----------------------------------------------------------------------------
(* The pages are clients of WatchParty.                                     *)

LEMMA HabitFacts ==
  ASSUME PageTyped
  PROVE  /\ setting \in Settings
         /\ habits # None => "watch" \in setting.to /\ habits \in AllHabits
  BY CombinationsAssumption DEF PageTyped

LEMMA TabFacts ==
  ASSUME PageTyped, NEW u \in Users
  PROVE  /\ at[u] \in Contents \cup {None} /\ entries[u] \subseteq Contents
         /\ at[u] \in entries[u] => at[u] \in Contents
         /\ list[u] \in ViewerLists /\ Ids(list[u]) \subseteq Users
         /\ frames[u] \in [Users -> Seq(Kinds)]
         /\ None \notin Contents
  BY ListFacts, WatchAssumption DEF PageTyped

\* What a page does is a step of its client or none.
LEMMA BrowseIsClient ==
  ASSUME PageTyped, \A u \in Users : SocketOK(u), habits # None, NEW u \in Users, Browse(u)
  PROVE  (\E s \in Sessions : Client(s)) \/ UNCHANGED vars
  <1> USE DEF Client
  <1>1. ASSUME NEW c \in Contents \cup {None}, Turn(u, c)
        PROVE  (\E s \in Sessions : Client(s)) \/ UNCHANGED vars
    <2>1. CASE UNCHANGED vars
      BY <2>1
    <2>2. CASE /\ Connected(u) /\ at[u] \in entries[u]
               /\ Unsubscribe(socket[u].session, "watch", at[u])
      BY <2>2, HabitFacts, TabFacts DEF SocketOK
    <2>3. QED
      BY <1>1, <2>1, <2>2 DEF Turn, Unsubscribes
  <1>2. ASSUME NEW s \in Sessions, OnConnect(u, s)
        PROVE  (\E t \in Sessions : Client(t)) \/ UNCHANGED vars
    BY <1>2 DEF OnConnect
  <1>3. CASE Subscribing(u)
    BY <1>3, HabitFacts DEF Subscribing, SocketOK
  <1>4. CASE CloseTab(u)
    BY <1>4 DEF CloseTab, SocketOK
  <1>5. CASE FetchFails(u) \/ Drop(u) \/ ConnectFails(u) \/ \E w \in Users : Hears(u, w)
    BY <1>5 DEF FetchFails, Drop, ConnectFails, Hears
  <1>6. QED
    BY <1>1, <1>2, <1>3, <1>4, <1>5 DEF Browse

LEMMA PageStepIsStep ==
  ASSUME PageTyped, \A u \in Users : SocketOK(u), [PageNext]_pageVars
  PROVE  [Next]_vars
  <1>1. CASE UNCHANGED pageVars
    BY <1>1 DEF pageVars
  <1>2. ASSUME habits # None, UNCHANGED setting, NEW u \in Users, Browse(u) PROVE [Next]_vars
    BY <1>2, BrowseIsClient DEF Next
  <1>3. ASSUME UNCHANGED setting, NEW s \in Sessions, HandlerStep(s) PROVE [Next]_vars
    <2>1. Handler(s) \/ \E d \in Contents : Remove(s, d)
      BY <1>3 DEF HandlerStep, Handler
    <2>2. Handler(s)
      BY <2>1 DEF Handler
    <2>3. QED
      BY <1>3, <2>2 DEF Next
  <1>4. ASSUME UNCHANGED setting, NEW s \in Sessions, Notice(s) \/ Register(s) PROVE [Next]_vars
    BY <1>4 DEF Notice, Register, Client, Next
  <1>5. QED
    BY <1>1, <1>2, <1>3, <1>4 DEF PageNext

\* Who holds which session.
LEMMA SocketFacts ==
  ASSUME PageInv, NEW u \in Users, Connected(u)
  PROVE  /\ socket[u].session \in Sessions /\ session[socket[u].session] = "open"
         /\ user[socket[u].session] = u
         /\ \A v \in Users \ {u} : socket[v].session # socket[u].session
  <1>1. SocketOK(u) /\ \A v \in Users : SocketOK(v)
    BY DEF PageInv
  <1>2. None \notin Sessions
    BY WatchAssumption
  <1>3. QED
    BY <1>1, <1>2 DEF SocketOK

-----------------------------------------------------------------------------
(* A step of a page: types, sockets and entries.                            *)

LEMMA PageTypes ==
  ASSUME PageInv
  PROVE  /\ PageTyped /\ TypeOK /\ None \notin Sessions /\ None \notin Users
         /\ \A s \in Sessions : HandlerOK(s)
         /\ \A u \in Users : SocketOK(u) /\ EntriesOK(u)
  BY WatchAssumption DEF PageInv, PartyInv

\* What hearing a frame does to a page.
LEMMA HearsEffect ==
  ASSUME PageTyped, NEW u \in Users, NEW w \in Users, Hears(u, w)
  PROVE  /\ UNCHANGED <<vars, at, socket, entries, late>>
         /\ list' \in [Users -> ViewerLists] /\ frames' \in [Users -> [Users -> Seq(Kinds)]]
         /\ \A v \in Users \ {u} : list'[v] = list[v] /\ frames'[v] = frames[v]
         /\ frames[u] # NoFrames
         /\ habits.ordered => Awaited(u)' = Awaited(u)
  <1> DEFINE f == frames[u][w]
             added == Add(list[u], [id |-> w], Append(list[u].data, [id |-> w]))
             gone == Delete(list[u], w)
  <1>1. PICK i \in 1..Len(f) :
          /\ habits.ordered => i = 1
          /\ list' = [list EXCEPT ![u] = IF f[i] = "JOIN" THEN added ELSE gone]
          /\ frames' = [frames EXCEPT ![u][w] = SubSeq(f, 1, i - 1) \o SubSeq(f, i + 1, Len(f))]
          /\ UNCHANGED <<vars, at, socket, entries, late>>
    BY DEF Hears
  <1> DEFINE g == SubSeq(f, 1, i - 1) \o SubSeq(f, i + 1, Len(f))
             l == IF f[i] = "JOIN" THEN added ELSE gone
             F == [Users -> Seq(Kinds)]
  <1>2. list \in [Users -> ViewerLists] /\ frames \in [Users -> F] /\ f \in Seq(Kinds)
    BY DEF PageTyped
  <1>3. /\ added \in ViewerLists /\ Ids(added) = Ids(list[u]) \cup {w}
        /\ gone \in ViewerLists /\ Ids(gone) = Ids(list[u]) \ {w}
    BY <1>2, AddFacts, DeleteFacts
  <1>4. l \in ViewerLists /\ Ids(l) = IF f[i] = "JOIN" THEN Ids(list[u]) \cup {w} ELSE Ids(list[u]) \ {w}
    BY <1>3
  <1>5. /\ g \in Seq(Kinds) /\ f # <<>>
        /\ i = 1 /\ g = <<>> => f[Len(f)] = f[1]
        /\ i = 1 /\ g # <<>> => g[Len(g)] = f[Len(f)]
    BY <1>2, TakenFacts
  <1>6. list' = [list EXCEPT ![u] = l] /\ frames' = [frames EXCEPT ![u][w] = g]
    BY <1>1
  <1> HIDE DEF g, l, added, gone
  <1>7. /\ list'[u] = l /\ frames'[u][w] = g
        /\ \A x \in Users \ {w} : frames'[u][x] = frames[u][x]
        /\ list' \in [Users -> ViewerLists] /\ frames' \in [Users -> F]
        /\ \A v \in Users \ {u} : list'[v] = list[v] /\ frames'[v] = frames[v]
    <2>1. [frames[u] EXCEPT ![w] = g] \in F
      BY <1>2, <1>5
    <2>2. frames' = [frames EXCEPT ![u] = [frames[u] EXCEPT ![w] = g]]
      BY <1>6
    <2>3. frames'[u] = [frames[u] EXCEPT ![w] = g] /\ frames[u] \in F
      BY <1>2, <2>2
    <2>4. frames'[u][w] = g /\ \A x \in Users \ {w} : frames'[u][x] = frames[u][x]
      BY <2>3
    <2> HIDE DEF F
    <2>5. QED
      BY <1>2, <1>4, <1>6, <2>1, <2>2, <2>4
  <1>8. frames[u] # NoFrames
    BY <1>5, NoFramesTyped
  <1>9. ASSUME habits.ordered PROVE Awaited(u)' = Awaited(u)
    <2>1. i = 1
      BY <1>1, <1>9
    <2>2. ASSUME NEW x \in Users PROVE x \in Awaited(u)' <=> x \in Awaited(u)
      <3>1. CASE x # w
        <4>1. frames'[u][x] = frames[u][x] /\ (x \in Ids(list'[u]) <=> x \in Ids(list[u]))
          BY <1>4, <1>7, <3>1
        <4>2. QED
          BY <4>1 DEF Awaited
      <3>2. CASE x = w /\ g = <<>>
        <4>1. w \in Awaited(u)' <=> f[1] = "JOIN"
          BY <1>4, <1>7, <2>1, <3>2 DEF Awaited
        <4>2. w \in Awaited(u) <=> f[Len(f)] = "JOIN"
          BY <1>5 DEF Awaited
        <4>3. QED
          BY <1>5, <2>1, <3>2, <4>1, <4>2
      <3>3. CASE x = w /\ g # <<>>
        <4>1. w \in Awaited(u)' <=> g[Len(g)] = "JOIN"
          BY <1>7, <3>3 DEF Awaited
        <4>2. w \in Awaited(u) <=> f[Len(f)] = "JOIN"
          BY <1>5 DEF Awaited
        <4>3. QED
          BY <1>5, <2>1, <3>3, <4>1, <4>2
      <3>4. QED
        BY <3>1, <3>2, <3>3
    <2>3. QED
      BY <2>2 DEF Awaited
  <1>10. QED
    BY <1>1, <1>7, <1>8, <1>9

LEMMA BrowseTyped ==
  ASSUME PageTyped, UNCHANGED <<setting, habits>>, NEW u \in Users, SocketOK(u), Browse(u)
  PROVE  PageTyped'
  <1> DEFINE States == [state : {"off", "connecting", "connected"}, session : Sessions \cup {None}]
             Frames == [Users -> Seq(Kinds)]
  <1>1. /\ at \in [Users -> Contents \cup {None}] /\ entries \in [Users -> SUBSET Contents]
        /\ list \in [Users -> ViewerLists] /\ late \subseteq Sessions
        /\ socket \in [Users -> States] /\ frames \in [Users -> Frames]
    BY DEF PageTyped
  <1>2. /\ NoSocket \in States /\ Connecting \in States /\ NoFrames \in Frames
        /\ \A s \in Sessions : [state |-> "connected", session |-> s] \in States
    BY NoFramesTyped DEF NoSocket, Connecting
  <1>3. <<setting, habits>>' \in Combinations
    BY DEF PageTyped
  <1>4. SUFFICES /\ at' \in [Users -> Contents \cup {None}] /\ entries' \in [Users -> SUBSET Contents]
                 /\ list' \in [Users -> ViewerLists] /\ late' \subseteq Sessions
                 /\ socket' \in [Users -> States] /\ frames' \in [Users -> Frames]
    BY <1>3 DEF PageTyped
  <1> HIDE DEF States, Frames
  <1>5. ASSUME NEW c \in Contents \cup {None}, Turn(u, c) PROVE PageTyped'
    <2>1. entries' \in [Users -> SUBSET Contents]
      BY <1>1, <1>5 DEF Turn, Unsubscribes
    <2>2. list' \in [Users -> ViewerLists]
      <3> DEFINE l == IF c = None THEN list[u] ELSE Fetching(list[u], c)
      <3>1. l \in ViewerLists
        BY <1>1, FetchFacts
      <3>2. list' = [list EXCEPT ![u] = l]
        BY <1>5 DEF Turn
      <3> HIDE DEF l
      <3>3. QED
        BY <1>1, <3>1, <3>2
    <2>3. at' \in [Users -> Contents \cup {None}] /\ late' \subseteq Sessions
          /\ socket' \in [Users -> States]
      BY <1>1, <1>2, <1>5 DEF Turn
    <2>4. frames' \in [Users -> Frames]
      BY <1>1, <1>2, <1>5 DEF Turn, Unsubscribes
    <2>5. QED
      BY <1>3, <2>1, <2>2, <2>3, <2>4 DEF PageTyped, States, Frames
  <1>6. CASE FetchFails(u)
    <2>1. list' = [list EXCEPT ![u] = Failed(list[u])] /\ Failed(list[u]) \in ViewerLists
      <3>1. Failed(list[u]) \in ViewerLists
        BY <1>1 DEF Failed, ViewerLists
      <3>2. QED
        BY <1>6, <3>1 DEF FetchFails
    <2>2. QED
      BY <1>1, <1>6, <2>1 DEF FetchFails
  <1>7. ASSUME NEW s \in Sessions, OnConnect(u, s)
        PROVE  /\ at' = at /\ list' = list /\ late' = late /\ frames' = frames
               /\ entries' \in [Users -> SUBSET Contents] /\ socket' \in [Users -> States]
    BY <1>1, <1>2, <1>7 DEF OnConnect
  <1>8. CASE Subscribing(u)
    <2>1. socket[u].session \in Sessions
      BY <1>8 DEF Subscribing, SocketOK
    <2>2. QED
      BY <1>1, <1>8, <2>1 DEF Subscribing
  <1>9. CASE Drop(u) \/ ConnectFails(u)
    BY <1>1, <1>2, <1>9 DEF Drop, ConnectFails
  <1>10. CASE CloseTab(u)
    BY <1>1, <1>2, <1>10, ClearedFacts DEF CloseTab
  <1>11. ASSUME NEW w \in Users, Hears(u, w)
         PROVE  /\ at' = at /\ entries' = entries /\ late' = late /\ socket' = socket
                /\ list' \in [Users -> ViewerLists] /\ frames' \in [Users -> Frames]
    BY <1>11, HearsEffect DEF Frames
  <1>12. QED
    BY <1>1, <1>5, <1>6, <1>7, <1>8, <1>9, <1>10, <1>11 DEF Browse, PageTyped, States, Frames

LEMMA SentTyped ==
  ASSUME NEW c, NEW w \in Users, NEW k \in Kinds, Sent(c, w, k),
         frames \in [Users -> [Users -> Seq(Kinds)]]
  PROVE  frames' \in [Users -> [Users -> Seq(Kinds)]]
  <1> DEFINE F == [Users -> Seq(Kinds)]
             Longer(v) == [frames[v] EXCEPT ![w] = Append(frames[v][w], k)]
  <1>1. \A v \in Users : Longer(v) \in F
    <2> SUFFICES ASSUME NEW v \in Users PROVE Longer(v) \in F
      OBVIOUS
    <2>1. Append(frames[v][w], k) \in Seq(Kinds)
      BY SentFacts
    <2>2. QED
      BY <2>1
  <1>2. frames' = [v \in Users |-> IF Receives(v, c) THEN Longer(v) ELSE frames[v]]
    BY DEF Sent
  <1> HIDE DEF Longer, F
  <1>3. QED
    BY <1>1, <1>2 DEF F

LEMMA HandlerTyped ==
  ASSUME PageInv, UNCHANGED <<setting, habits>>, NEW s \in Sessions, HandlerStep(s)
  PROVE  PageTyped'
  <1>1. /\ frames \in [Users -> [Users -> Seq(Kinds)]] /\ user[s] \in Users \cup {None}
        /\ session[s] \in {"new", "open", "closed"} /\ HandlerOK(s)
    BY DEF PageInv, PartyInv, TypeOK, PageTyped
  <1>2. AnnounceSelf(s) \/ AnnounceLeave(s) => user[s] \in Users
    BY <1>1 DEF AnnounceSelf, AnnounceLeave, HandlerOK
  <1>3. frames' \in [Users -> [Users -> Seq(Kinds)]]
    BY <1>1, <1>2, SentTyped DEF HandlerStep, Kinds
  <1>4. PageTyped
    BY DEF PageInv
  <1>5. QED
    BY <1>3, <1>4 DEF HandlerStep, PageTyped

\* What the connections hold after a step.
LEMMA SocketsKeep ==
  ASSUME PageInv, UNCHANGED habits, NEW v \in Users, socket'[v] = socket[v],
         Connected(v) => LET s == socket[v].session
                         IN  session'[s] = session[s] /\ user'[s] = user[s]
  PROVE  SocketOK(v)'
  BY PageTypes DEF SocketOK, Connected

LEMMA EntriesKeep ==
  ASSUME PageInv, UNCHANGED habits, NEW v \in Users, socket'[v] = socket[v],
         entries'[v] = entries[v], at'[v] = at[v],
         Connected(v) => subs'[socket[v].session] = subs[socket[v].session]
  PROVE  EntriesOK(v)'
  BY PageTypes DEF EntriesOK, Connected

\* Sockets and entries, as they are before and after a step.
HoldsOn == \A u \in Users : SocketOK(u) /\ EntriesOK(u)

LEMMA SameBehind ==
  ASSUME PageInv, UNCHANGED habits, UNCHANGED <<session, user, subs, socket, entries, at>>
  PROVE  HoldsOn'
  BY SocketsKeep, EntriesKeep DEF HoldsOn

LEMMA TurnHolds ==
  ASSUME PageInv, UNCHANGED habits, habits # None, NEW u \in Users,
         NEW c \in Contents \cup {None}, Turn(u, c)
  PROVE  HoldsOn'
  <1>1. PageTyped /\ TypeOK /\ None \notin Contents
    BY PageTypes, WatchAssumption
  <1>2. session' = session /\ user' = user /\ subs \in [Sessions -> SUBSET (Destinations \X Contents)]
    BY <1>1 DEF Turn, Unsubscribes, Unsubscribe, vars, TypeOK
  <1>3. /\ at \in [Users -> Contents \cup {None}] /\ entries \in [Users -> SUBSET Contents]
        /\ \A v \in Users \ {u} : socket'[v] = socket[v] /\ entries'[v] = entries[v] /\ at'[v] = at[v]
        /\ socket'[u] = socket[u] \/ (socket[u] = NoSocket /\ socket'[u] = Connecting)
    BY <1>1 DEF PageTyped, Turn, Unsubscribes
  <1>4. \A t \in Sessions : t # socket[u].session => subs'[t] = subs[t]
    BY <1>1, <1>2 DEF Turn, Unsubscribes, Unsubscribe, vars
  <1>5. ASSUME NEW v \in Users \ {u} PROVE SocketOK(v)' /\ EntriesOK(v)'
    <2>1. Connected(v) => socket[v].session \in Sessions /\ socket[v].session # socket[u].session
      <3>1. CASE Connected(u)
        BY <3>1, PageTypes, SocketFacts
      <3>2. CASE ~Connected(u)
        BY <3>2, PageTypes DEF SocketOK
      <3>3. QED
        BY <3>1, <3>2
    <2>2. QED
      BY <1>2, <1>3, <1>4, <2>1, SocketsKeep, EntriesKeep
  <1>6. /\ Connected(u)' <=> Connected(u)
        /\ socket'[u].session = socket[u].session
    BY <1>3 DEF Connected, NoSocket, Connecting
  <1>7. SocketOK(u)'
    BY <1>2, <1>6, PageTypes DEF SocketOK
  <1>8. EntriesOK(u)'
    <2> SUFFICES ASSUME ~(habits.leave /\ habits.drop)
                 PROVE  /\ Connected(u) => \A d \in entries'[u] : <<"watch", d>> \in subs'[socket[u].session]
                        /\ ~habits.leave => entries'[u] \subseteq {at'[u]}
                        /\ ~habits.drop /\ ~Connected(u) => entries'[u] = {}
      BY <1>6 DEF EntriesOK
    <2>1. EntriesOK(u) /\ SocketOK(u)
      BY PageTypes
    <2>2. entries'[u] \subseteq entries[u]
      BY <1>1, <1>3 DEF Turn, Unsubscribes
    <2>3. CASE Connected(u) /\ at[u] \in entries[u] /\ <<"watch", at[u]>> \in subs[socket[u].session]
      <3>1. /\ entries'[u] = entries[u] \ {at[u]}
            /\ subs'[socket[u].session] = subs[socket[u].session] \ {<<"watch", at[u]>>}
        <4>1. /\ entries' = [entries EXCEPT ![u] = @ \ {at[u]}]
              /\ subs' = [subs EXCEPT ![socket[u].session] = @ \ {<<"watch", at[u]>>}]
          BY <2>3 DEF Turn, Unsubscribes, Unsubscribe
        <4>2. socket[u].session \in Sessions
          BY <2>1, <2>3 DEF SocketOK
        <4>3. QED
          BY <1>2, <1>3, <4>1, <4>2
      <3>2. \A d \in entries'[u] : <<"watch", d>> \in subs'[socket[u].session]
        BY <2>1, <2>3, <3>1 DEF EntriesOK
      <3>3. ~habits.leave => FALSE
        BY <1>1, <1>3, <2>3 DEF Turn
      <3>4. QED
        BY <2>1, <2>2, <2>3, <3>2, <3>3
    <2>4. CASE ~(Connected(u) /\ at[u] \in entries[u] /\ <<"watch", at[u]>> \in subs[socket[u].session])
      <3>1. subs' = subs
        BY <2>4 DEF Turn, Unsubscribes, vars
      <3>2. ~habits.leave => entries[u] = {}
        <4>1. ~habits.leave => at[u] = None /\ entries[u] \subseteq {at[u]}
          BY <1>3, <2>1 DEF EntriesOK, Turn
        <4>2. QED
          BY <1>1, <1>3, <4>1
      <3>3. QED
        BY <2>1, <2>2, <3>1, <3>2 DEF EntriesOK
    <2>5. QED
      BY <2>3, <2>4
  <1>9. QED
    BY <1>5, <1>7, <1>8 DEF HoldsOn

LEMMA ConnectHolds ==
  ASSUME PageInv, UNCHANGED habits, habits # None, NEW u \in Users, NEW s \in Sessions, OnConnect(u, s)
  PROVE  HoldsOn'
  <1>1. PageTyped /\ TypeOK
    BY PageTypes
  <1>2. /\ session[s] = "new" /\ socket[u] = Connecting /\ subs' = subs /\ at' = at
        /\ session'[s] = "open" /\ user'[s] = u
        /\ \A t \in Sessions \ {s} : session'[t] = session[t] /\ user'[t] = user[t]
    BY <1>1 DEF OnConnect, Connect, TypeOK
  <1>3. /\ socket'[u] = [state |-> "connected", session |-> s]
        /\ entries'[u] = entries[u] \ {at[u]}
        /\ \A v \in Users \ {u} : socket'[v] = socket[v] /\ entries'[v] = entries[v]
    BY <1>1 DEF OnConnect, PageTyped
  <1>4. ASSUME NEW v \in Users \ {u} PROVE SocketOK(v)' /\ EntriesOK(v)'
    <2>1. Connected(v) => socket[v].session \in Sessions \ {s}
      BY <1>2, SocketFacts
    <2>2. QED
      BY <1>2, <1>3, <2>1, SocketsKeep, EntriesKeep
  <1>5. SocketOK(u)'
    BY <1>2, <1>3 DEF SocketOK, Connected
  <1>6. EntriesOK(u)'
    <2>1. EntriesOK(u) /\ ~Connected(u)
      BY <1>2, PageTypes DEF Connected, Connecting
    <2>2. ~(habits.leave /\ habits.drop) => entries'[u] = {}
      BY <1>3, <2>1 DEF EntriesOK
    <2>3. QED
      BY <2>2 DEF EntriesOK
  <1>7. QED
    BY <1>4, <1>5, <1>6 DEF HoldsOn

LEMMA SubscribingHolds ==
  ASSUME PageInv, UNCHANGED habits, habits # None, NEW u \in Users, Subscribing(u)
  PROVE  HoldsOn'
  <1> DEFINE s == socket[u].session
  <1>1. PageTyped /\ TypeOK /\ Connected(u) /\ socket' = socket /\ at' = at
        /\ session' = session /\ user' = user
    BY PageTypes DEF Subscribing, Subscribe
  <1>2. s \in Sessions /\ \A v \in Users \ {u} : socket[v].session # s
    BY <1>1, SocketFacts
  <1>3. /\ subs'[s] = subs[s] \cup {<<"watch", at[u]>>}
        /\ \A t \in Sessions \ {s} : subs'[t] = subs[t]
        /\ entries'[u] = entries[u] \cup {at[u]}
        /\ \A v \in Users \ {u} : entries'[v] = entries[v]
    BY <1>1, <1>2 DEF Subscribing, Subscribe, TypeOK, PageTyped
  <1>4. ASSUME NEW v \in Users \ {u} PROVE SocketOK(v)' /\ EntriesOK(v)'
    <2>1. Connected(v) => socket[v].session \in Sessions \ {s}
      BY <1>2, SocketFacts
    <2>2. QED
      BY <1>1, <1>3, <2>1, SocketsKeep, EntriesKeep
  <1>5. SocketOK(u)'
    BY <1>1, SocketsKeep
  <1>6. EntriesOK(u)'
    <2>1. EntriesOK(u)
      BY PageTypes
    <2>2. QED
      BY <1>1, <1>3, <2>1 DEF EntriesOK, Connected
  <1>7. QED
    BY <1>4, <1>5, <1>6 DEF HoldsOn

LEMMA BreakHolds ==
  ASSUME PageInv, UNCHANGED habits, habits # None, NEW u \in Users, Drop(u) \/ ConnectFails(u)
  PROVE  HoldsOn'
  <1>1. PageTyped /\ TypeOK
    BY PageTypes
  <1>2. /\ habits.drop /\ entries' = entries /\ at' = at
        /\ session' = session /\ user' = user /\ subs' = subs
        /\ \A v \in Users \ {u} : socket'[v] = socket[v]
        /\ socket'[u] \in {NoSocket, Connecting}
    BY <1>1 DEF Drop, ConnectFails, vars, PageTyped
  <1>3. SocketOK(u)' /\ ~Connected(u)'
    BY <1>2 DEF SocketOK, Connected, NoSocket, Connecting
  <1>4. EntriesOK(u)'
    BY <1>2, <1>3, PageTypes DEF EntriesOK
  <1>5. QED
    BY <1>2, <1>3, <1>4, SocketsKeep, EntriesKeep DEF HoldsOn

LEMMA DisconnectEffect ==
  ASSUME TypeOK, NEW s \in Sessions, Disconnect(s)
  PROVE  /\ session[s] = "open" /\ pc[s] = "idle" /\ pc'[s] = "leave"
         /\ session'[s] = "closed" /\ subs'[s] = {}
         /\ user' = user /\ watchingUsers' = watchingUsers
         /\ \A t \in Sessions \ {s} : /\ session'[t] = session[t] /\ subs'[t] = subs[t]
                                      /\ pc'[t] = pc[t]
         /\ ~setting.overlap => \A t \in Sessions : pc[t] = "idle"
  BY DEF TypeOK, Disconnect, MayHandle, Step

LEMMA NoticeHolds ==
  ASSUME PageInv, UNCHANGED habits, habits # None, NEW s \in Sessions, Notice(s)
  PROVE  HoldsOn'
  <1>1. /\ socket' = socket /\ entries' = entries /\ at' = at /\ user' = user
        /\ \A u \in Users : socket[u].session # s
        /\ \A t \in Sessions \ {s} : session'[t] = session[t] /\ subs'[t] = subs[t]
    BY PageTypes, DisconnectEffect DEF Notice
  <1>2. \A u \in Users : Connected(u) => socket[u].session \in Sessions
    BY SocketFacts
  <1>3. QED
    BY <1>1, <1>2, SocketsKeep, EntriesKeep DEF HoldsOn

LEMMA CloseTabHolds ==
  ASSUME PageInv, UNCHANGED habits, habits # None, NEW u \in Users, CloseTab(u)
  PROVE  HoldsOn'
  <1>1. PageTyped /\ TypeOK
    BY PageTypes
  <1>2. /\ socket'[u] = NoSocket /\ entries'[u] = {}
        /\ \A v \in Users \ {u} : socket'[v] = socket[v] /\ entries'[v] = entries[v] /\ at'[v] = at[v]
    BY <1>1 DEF CloseTab, PageTyped
  <1>3. \A v \in Users \ {u} : Connected(v) =>
          LET s == socket[v].session
          IN  session'[s] = session[s] /\ user'[s] = user[s] /\ subs'[s] = subs[s]
    <2>1. CASE Connected(u)
      <3>1. socket[u].session \in Sessions /\ Disconnect(socket[u].session)
        BY <2>1, SocketFacts DEF CloseTab
      <3>2. \A v \in Users \ {u} : Connected(v) =>
              socket[v].session \in Sessions \ {socket[u].session}
        BY <2>1, SocketFacts
      <3>3. QED
        BY <1>1, <3>1, <3>2, DisconnectEffect
    <2>2. CASE ~Connected(u)
      BY <2>2 DEF CloseTab, vars
    <2>3. QED
      BY <2>1, <2>2
  <1>4. ~Connected(u)' /\ SocketOK(u)' /\ EntriesOK(u)'
    BY <1>2 DEF SocketOK, EntriesOK, Connected, NoSocket
  <1>5. QED
    BY <1>2, <1>3, <1>4, SocketsKeep, EntriesKeep DEF HoldsOn

LEMMA HandlerHolds ==
  ASSUME PageInv, UNCHANGED habits, NEW s \in Sessions, HandlerStep(s)
  PROVE  HoldsOn'
  <1>1. UNCHANGED <<session, user, subs, socket, entries, at>>
    BY DEF HandlerStep, Put, LookUp, LeaveEnds, Remove, AnnounceSelf, AnnounceWatcher, AnnounceLeave
  <1>2. QED
    BY <1>1, SameBehind

-----------------------------------------------------------------------------
(* Calm surroundings: what the pages show.                                  *)

LEMMA CalmFacts ==
  ASSUME PageInv, Calm
  PROVE  /\ CalmOK /\ OneHandler /\ exists = Contents
         /\ ~habits.leave /\ ~habits.drop /\ ~setting.overlap
         /\ \A u \in Users : /\ entries[u] \subseteq {at[u]}
                             /\ ~Connected(u) => entries[u] = {}
         /\ \A s \in Sessions : session[s] = "open" =>
                user[s] \in Users /\ socket[user[s]].session = s
  <1>1. /\ CalmOK /\ OneHandler /\ exists = Contents
        /\ ~habits.leave /\ ~habits.drop /\ ~setting.overlap
    BY DEF PageInv, PartyInv, Calm, Told, Undeleted
  <1>2. ASSUME NEW u \in Users
        PROVE  /\ entries[u] \subseteq {at[u]}
               /\ ~Connected(u) => entries[u] = {}
    BY <1>1, PageTypes DEF EntriesOK, Calm
  <1>3. ASSUME NEW s \in Sessions, session[s] = "open"
        PROVE  user[s] \in Users /\ socket[user[s]].session = s
    BY <1>1, <1>3, PageTypes DEF HandlerOK, TypeOK, CalmOK
  <1>4. QED
    BY <1>1, <1>2, <1>3

\* When no handler runs, a page will show who is listed.
LEMMA IdleShows ==
  ASSUME PageInv, Calm, \A s \in Sessions : pc[s] = "idle",
         NEW u \in Users, at[u] \in entries[u]
  PROVE  /\ Awaited(u) \subseteq watchingUsers[at[u]]
         /\ habits.prompt => Awaited(u) = watchingUsers[at[u]]
  <1>1. Shown(u)
    BY CalmFacts DEF CalmOK
  <1>2. QED
    BY <1>1 DEF Shown, Joining

\* And the other way round.
LEMMA ShowsIdle ==
  ASSUME NEW u \in Users,
         Awaited(u)' \subseteq watchingUsers'[at'[u]],
         habits'.prompt => watchingUsers'[at'[u]] \subseteq Awaited(u)'
  PROVE  Shown(u)'
  BY DEF Shown

\* What a page waits for when nothing is under way, and when the step does not
\* concern it.
LEMMA AwaitedFacts ==
  ASSUME PageTyped, NEW u \in Users
  PROVE  /\ frames[u] = NoFrames => Awaited(u) = Ids(list[u])
         /\ Blank(u) => Awaited(u) = {}
  <1>1. Ids(list[u]) \subseteq Users /\ list[u] \in ViewerLists
    BY TabFacts
  <1>2. frames[u] = NoFrames => Awaited(u) = Ids(list[u])
    BY <1>1, NoFramesTyped DEF Awaited
  <1>3. QED
    BY <1>1, <1>2, ListFacts DEF Blank

LEMMA AwaitedKeeps ==
  ASSUME NEW u \in Users, list'[u].data = list[u].data, frames'[u] = frames[u]
  PROVE  Awaited(u)' = Awaited(u) /\ Blank(u)' = Blank(u)
  BY DEF Awaited, Blank, Ids

\* The part of the calm invariant about one page.
CalmPage(u) ==
    /\ Connected(u) => subs[socket[u].session] \subseteq {"watch"} \X entries[u]
    /\ at[u] \notin entries[u] \/ socket[u].session \in late => Blank(u)
    /\ at[u] \in entries[u] => Shown(u)

LEMMA CalmPages ==
  CalmOK <=> /\ \A s \in Sessions : session[s] = "open" => socket[user[s]].session = s
             /\ habits.prompt => late = {}
             /\ \A u \in Users : CalmPage(u)
  BY DEF CalmOK, CalmPage

\* A page that the step does not concern.
LEMMA PageKeeps ==
  ASSUME PageInv, Calm, UNCHANGED <<habits, pc, loc, user, watchingUsers>>,
         NEW u \in Users, at'[u] = at[u], socket'[u] = socket[u], entries'[u] = entries[u],
         list'[u].data = list[u].data, frames'[u] = frames[u],
         socket[u].session \in late' => socket[u].session \in late,
         Connected(u) => subs'[socket[u].session] = subs[socket[u].session]
  PROVE  CalmPage(u)'
  <1>1. CalmPage(u)
    BY CalmFacts, CalmPages
  <1>2. Awaited(u)' = Awaited(u) /\ Blank(u)' = Blank(u)
    BY AwaitedKeeps
  <1>3. at[u] \in entries[u] => Shown(u)'
    BY <1>1, <1>2 DEF CalmPage, Shown
  <1>4. QED
    BY <1>1, <1>2, <1>3 DEF CalmPage, Connected

LEMMA TurnCalm ==
  ASSUME PageInv, Calm, UNCHANGED <<setting, habits>>, NEW u \in Users,
         NEW c \in Contents \cup {None}, Turn(u, c)
  PROVE  CalmOK'
  <1>1. PageTyped /\ TypeOK /\ None \notin Contents /\ CalmOK
    BY PageTypes, CalmFacts, WatchAssumption
  <1>2. at[u] = None /\ entries[u] = {}
    <2>1. at[u] = None
      BY CalmFacts DEF Turn
    <2>2. QED
      BY <1>1, <2>1, CalmFacts DEF PageTyped
  <1>3. UNCHANGED <<vars, entries, late, frames>>
    BY <1>2 DEF Turn, Unsubscribes
  <1>4. /\ \A v \in Users \ {u} : socket'[v] = socket[v] /\ list'[v] = list[v] /\ at'[v] = at[v]
        /\ socket'[u] = socket[u] \/ (socket[u] = NoSocket /\ socket'[u] = Connecting)
        /\ list'[u] = IF c = None THEN list[u] ELSE Fetching(list[u], c)
    BY <1>1 DEF PageTyped, Turn
  <1>5. /\ socket'[u].session = socket[u].session
        /\ Connected(u)' <=> Connected(u)
    BY <1>4 DEF Connected, NoSocket, Connecting
  <1>6. CalmPage(u)'
    <2>1. CalmPage(u) /\ list[u] \in ViewerLists
      BY <1>1, CalmPages DEF PageTyped
    <2>2. Blank(u)
      BY <1>2, <2>1 DEF CalmPage
    <2>3. Blank(u)'
      BY <1>3, <1>4, <2>1, <2>2, FetchFacts DEF Blank
    <2>4. QED
      BY <1>2, <1>3, <1>5, <2>1, <2>3 DEF CalmPage, vars
  <1>7. ASSUME NEW v \in Users \ {u} PROVE CalmPage(v)'
    BY <1>3, <1>4, PageKeeps DEF vars
  <1>8. ASSUME NEW s \in Sessions, session'[s] = "open" PROVE socket'[user'[s]].session = s
    BY <1>3, <1>4, <1>5, <1>8, CalmFacts DEF vars
  <1>9. habits'.prompt => late' = {}
    BY <1>1, <1>3 DEF CalmOK
  <1>10. QED
    BY <1>6, <1>7, <1>8, <1>9 DEF CalmOK, CalmPage

LEMMA FetchFailsCalm ==
  ASSUME PageInv, Calm, UNCHANGED <<setting, habits>>, NEW u \in Users, FetchFails(u)
  PROVE  CalmOK'
  <1>1. PageTyped /\ CalmOK
    BY PageTypes, CalmFacts
  <1>2. /\ UNCHANGED <<vars, at, socket, entries, late, frames>>
        /\ \A v \in Users : list'[v].data = list[v].data
    BY <1>1 DEF FetchFails, Failed, PageTyped, ViewerLists
  <1>3. ASSUME NEW v \in Users PROVE CalmPage(v)'
    BY <1>2, PageKeeps DEF vars
  <1>4. QED
    BY <1>1, <1>2, <1>3 DEF CalmOK, CalmPage, vars

\* In order, hearing a frame changes nothing in what a page will show.
LEMMA HearsCalm ==
  ASSUME PageInv, Calm, UNCHANGED <<setting, habits>>, NEW u \in Users, NEW w \in Users, Hears(u, w)
  PROVE  CalmOK'
  <1>1. PageTyped /\ CalmOK /\ habits.ordered
    BY PageTypes, CalmFacts DEF Calm
  <1>2. /\ UNCHANGED <<vars, at, socket, entries, late>> /\ Awaited(u)' = Awaited(u)
        /\ frames[u] # NoFrames
        /\ \A v \in Users \ {u} : list'[v] = list[v] /\ frames'[v] = frames[v]
    BY <1>1, HearsEffect
  <1>3. ASSUME NEW v \in Users \ {u} PROVE CalmPage(v)'
    BY <1>2, PageKeeps DEF vars
  <1>4. CalmPage(u)'
    <2>1. CalmPage(u)
      BY CalmFacts, CalmPages
    <2>2. at[u] \in entries[u] /\ socket[u].session \notin late /\ Shown(u)
      BY <1>2, <2>1 DEF CalmPage, Blank
    <2>3. Shown(u)'
      BY <1>2, <2>2 DEF Shown, vars
    <2>4. QED
      BY <1>2, <2>1, <2>2, <2>3 DEF CalmPage, Connected, vars
  <1>5. QED
    BY <1>1, <1>2, <1>3, <1>4 DEF CalmOK, CalmPage, vars

LEMMA RegisterCalm ==
  ASSUME PageInv, Calm, UNCHANGED <<setting, habits>>, NEW s \in Sessions, Register(s)
  PROVE  CalmOK'
  <1>1. CalmOK
    BY CalmFacts
  <1>2. UNCHANGED <<vars, at, socket, entries, list, frames>> /\ late' = late \ {s}
    BY DEF Register
  <1>3. ASSUME NEW v \in Users PROVE CalmPage(v)'
    BY <1>2, PageKeeps DEF vars
  <1>4. QED
    BY <1>1, <1>2, <1>3 DEF CalmOK, CalmPage, vars

LEMMA NeverCalm ==
  ASSUME PageInv, Calm,
         \/ \E u \in Users : Drop(u) \/ ConnectFails(u)
         \/ \E s \in Sessions : Notice(s)
  PROVE  FALSE
  <1>1. ~habits.drop /\ \A s \in Sessions : session[s] = "open" =>
           user[s] \in Users /\ socket[user[s]].session = s
    BY CalmFacts
  <1>2. ASSUME NEW s \in Sessions, Notice(s) PROVE FALSE
    BY <1>1, <1>2, PageTypes, DisconnectEffect DEF Notice
  <1>3. QED
    BY <1>1, <1>2 DEF Drop, ConnectFails

LEMMA ConnectCalm ==
  ASSUME PageInv, Calm, UNCHANGED <<setting, habits>>, NEW u \in Users, NEW s \in Sessions,
         OnConnect(u, s)
  PROVE  CalmOK'
  <1>1. PageTyped /\ TypeOK /\ CalmOK /\ None \notin Sessions
    BY PageTypes, CalmFacts
  <1>2. /\ session[s] = "new" /\ socket[u] = Connecting /\ at' = at /\ list' = list /\ late' = late
        /\ session'[s] = "open" /\ user'[s] = u /\ subs' = subs /\ frames' = frames
        /\ watchingUsers' = watchingUsers /\ pc' = pc /\ loc' = loc
        /\ \A t \in Sessions \ {s} : session'[t] = session[t] /\ user'[t] = user[t]
    BY <1>1 DEF OnConnect, Connect, TypeOK, handlers
  <1>3. /\ socket'[u] = [state |-> "connected", session |-> s]
        /\ entries'[u] = entries[u] \ {at[u]}
        /\ \A v \in Users \ {u} : socket'[v] = socket[v] /\ entries'[v] = entries[v]
    BY <1>1 DEF OnConnect, PageTyped
  <1>4. pc[s] = "idle" /\ subs[s] = {}
    BY <1>2, PageTypes DEF HandlerOK
  <1>5. entries[u] = {} /\ Blank(u)
    <2>1. entries[u] = {}
      BY <1>2, CalmFacts DEF Connected, Connecting
    <2>2. QED
      BY <1>1, <2>1 DEF CalmOK
  <1>6. CalmPage(u)'
    <2>1. Blank(u)'
      BY <1>2, <1>5 DEF Blank
    <2>2. QED
      BY <1>2, <1>3, <1>4, <1>5, <2>1 DEF CalmPage, Connected
  <1>7. ASSUME NEW v \in Users \ {u} PROVE CalmPage(v)'
    <2>1. CalmPage(v)
      BY CalmFacts, CalmPages
    <2>2. Shown(v) => Shown(v)'
      <3>1. /\ habits' = habits /\ at' = at /\ list' = list /\ pc' = pc /\ loc' = loc
            /\ watchingUsers' = watchingUsers /\ socket'[v] = socket[v]
            /\ \A t \in Sessions : pc[t] # "idle" => user'[t] = user[t]
            /\ Awaited(v)' = Awaited(v)
        BY <1>2, <1>3, <1>4, AwaitedKeeps
      <3>2. QED
        BY <3>1 DEF Shown, Joining
    <2>3. Blank(v)' = Blank(v)
      BY <1>2, AwaitedKeeps
    <2>4. QED
      BY <1>2, <1>3, <2>1, <2>2, <2>3 DEF CalmPage, Connected
  <1>8. ASSUME NEW t \in Sessions, session'[t] = "open" PROVE socket'[user'[t]].session = t
    <2>1. CASE t = s
      BY <1>2, <1>3, <2>1
    <2>2. CASE t # s
      <3>1. user'[t] = user[t] /\ user[t] \in Users /\ socket[user[t]].session = t
        BY <1>2, <1>8, <2>2, CalmFacts
      <3>2. user[t] # u
        BY <1>1, <1>2, <3>1 DEF Connecting
      <3>3. QED
        BY <1>3, <3>1, <3>2
    <2>3. QED
      BY <2>1, <2>2
  <1>9. habits'.prompt => late' = {}
    BY <1>1, <1>2 DEF CalmOK
  <1>10. QED
    BY <1>6, <1>7, <1>8, <1>9 DEF CalmOK, CalmPage

LEMMA CloseTabCalm ==
  ASSUME PageInv, Calm, UNCHANGED <<setting, habits>>, NEW u \in Users, CloseTab(u)
  PROVE  CalmOK'
  <1>1. PageTyped /\ TypeOK /\ CalmOK /\ None \notin Sessions
    BY PageTypes, CalmFacts
  <1>2. /\ socket'[u] = NoSocket /\ entries'[u] = {} /\ list'[u] = Cleared
        /\ late' \subseteq late /\ frames'[u] = NoFrames
        /\ \A v \in Users \ {u} : /\ socket'[v] = socket[v] /\ entries'[v] = entries[v]
                                  /\ at'[v] = at[v] /\ list'[v] = list[v] /\ frames'[v] = frames[v]
    BY <1>1 DEF CloseTab, PageTyped
  <1>3. CalmPage(u)' /\ (habits'.prompt => late' = {})
    BY <1>1, <1>2, ClearedFacts DEF CalmPage, Blank, Connected, NoSocket, CalmOK
  <1>4. CASE ~Connected(u)
    <2>1. UNCHANGED vars
      BY <1>4 DEF CloseTab
    <2>2. ASSUME NEW v \in Users \ {u} PROVE CalmPage(v)'
      BY <1>2, <2>1, PageKeeps DEF vars
    <2>3. socket[u].session = None
      BY <1>4, PageTypes DEF SocketOK
    <2>4. ASSUME NEW t \in Sessions, session'[t] = "open" PROVE socket'[user'[t]].session = t
      <3>1. user'[t] = user[t] /\ user[t] \in Users /\ socket[user[t]].session = t
        BY <2>1, <2>4, CalmFacts DEF vars
      <3>2. QED
        BY <1>1, <1>2, <2>3, <3>1
    <2>5. QED
      BY <1>3, <2>2, <2>4 DEF CalmOK, CalmPage
  <1>5. CASE Connected(u)
    <2> DEFINE s == socket[u].session
    <2>1. s \in Sessions /\ Disconnect(s)
      BY <1>5, SocketFacts DEF CloseTab
    <2>2. /\ \A t \in Sessions : pc[t] = "idle"
          /\ session'[s] = "closed" /\ user' = user /\ watchingUsers' = watchingUsers
          /\ \A t \in Sessions \ {s} : session'[t] = session[t] /\ subs'[t] = subs[t]
      BY <1>1, <2>1, DisconnectEffect, CalmFacts
    <2>3. ASSUME NEW v \in Users \ {u} PROVE CalmPage(v)'
      <3>1. CalmPage(v)
        BY CalmFacts, CalmPages
      <3>2. Connected(v) => subs'[socket[v].session] = subs[socket[v].session]
        BY <1>5, <2>2, SocketFacts
      <3>3. ASSUME at[v] \in entries[v] PROVE Shown(v)'
        <4>1. /\ Awaited(v) \subseteq watchingUsers[at[v]]
              /\ habits.prompt => Awaited(v) = watchingUsers[at[v]]
          BY <2>2, <3>3, IdleShows
        <4>2. Awaited(v)' = Awaited(v)
          BY <1>2, AwaitedKeeps
        <4>3. QED
          BY <1>2, <2>2, <4>1, <4>2, ShowsIdle
      <3>4. Blank(v)' = Blank(v)
        BY <1>2, AwaitedKeeps
      <3>5. QED
        BY <1>2, <3>1, <3>2, <3>3, <3>4 DEF CalmPage, Connected
    <2>4. ASSUME NEW t \in Sessions, session'[t] = "open" PROVE socket'[user'[t]].session = t
      <3>1. t # s /\ user'[t] = user[t] /\ user[t] \in Users /\ socket[user[t]].session = t
        BY <2>1, <2>2, <2>4, CalmFacts
      <3>2. QED
        BY <1>2, <3>1
    <2>5. QED
      BY <1>3, <2>3, <2>4 DEF CalmOK, CalmPage
  <1>6. QED
    BY <1>4, <1>5

\* A user whose page is about to subscribe is not listed yet.
LEMMA NotListedYet ==
  ASSUME PageInv, Calm, \A s \in Sessions : pc[s] = "idle", NEW u \in Users,
         at[u] \in Contents, at[u] \notin entries[u]
  PROVE  u \notin watchingUsers[at[u]]
  <1> SUFFICES ASSUME u \in watchingUsers[at[u]] PROVE FALSE
    OBVIOUS
  <1>1. NoGhost /\ ~setting.unsubscribe /\ ~setting.delete
    BY DEF PageInv, PartyInv, Calm
  <1>2. Attends(u, at[u], Destinations)
    BY <1>1 DEF NoGhost, Leaving
  <1>3. PICK t \in Sessions, d \in Destinations :
          session[t] = "open" /\ user[t] = u /\ <<d, at[u]>> \in subs[t]
    BY <1>2 DEF Attends
  <1>4. socket[u].session = t
    BY <1>3, CalmFacts
  <1>5. entries[u] = {}
    BY CalmFacts
  <1>6. Connected(u)
    BY <1>4, PageTypes DEF SocketOK
  <1>7. subs[t] \subseteq {"watch"} \X entries[u]
    BY <1>4, <1>6, CalmFacts DEF CalmOK
  <1>8. QED
    BY <1>3, <1>5, <1>7

LEMMA SubscribingCalm ==
  ASSUME PageInv, Calm, UNCHANGED <<setting, habits>>, NEW u \in Users, Subscribing(u)
  PROVE  CalmOK'
  <1> DEFINE s == socket[u].session
             c == at[u]
  <1>1. /\ PageTyped /\ TypeOK /\ CalmOK /\ Connected(u) /\ socket' = socket /\ at' = at
        /\ session' = session /\ user' = user /\ list' = list /\ frames' = frames
        /\ c \in Contents /\ c \notin entries[u] /\ entries[u] = {}
    <2>1. c \in Contents /\ c \notin entries[u] /\ entries[u] \subseteq {c}
      BY CalmFacts DEF Subscribing
    <2>2. QED
      BY <2>1, PageTypes, CalmFacts DEF Subscribing, Subscribe
  <1>2. s \in Sessions /\ user[s] = u /\ \A v \in Users \ {u} : socket[v].session # s
    BY <1>1, SocketFacts
  <1>3. \A t \in Sessions : pc[t] = "idle"
    BY CalmFacts DEF Subscribing, Subscribe, MayHandle
  <1>4. u \notin watchingUsers[c]
    BY <1>1, <1>3, NotListedYet
  <1>5. /\ subs'[s] = subs[s] \cup {<<"watch", c>>}
        /\ \A t \in Sessions \ {s} : subs'[t] = subs[t]
        /\ entries'[u] = {c}
        /\ \A v \in Users \ {u} : entries'[v] = entries[v]
    BY <1>1, <1>2 DEF Subscribing, Subscribe, TypeOK, PageTyped
  <1>6. /\ watchingUsers'[c] = watchingUsers[c] \cup {u}
        /\ \A d \in Contents \ {c} : watchingUsers'[d] = watchingUsers[d]
        /\ pc'[s] = "put" /\ loc'[s].content = c
    <2>1. watchingUsers' = [watchingUsers EXCEPT ![c] = @ \cup {u}]
      BY <1>2 DEF Subscribing, Subscribe
    <2>2. Step(s, "put", [NullLocals EXCEPT !.content = c])
      BY <1>2, <1>4 DEF Subscribing, Subscribe
    <2>3. QED
      BY <1>1, <1>2, <2>1, <2>2 DEF Step, NullLocals, TypeOK
  <1>7. late' = late \/ (~habits.prompt /\ late' = late \cup {s})
    BY DEF Subscribing
  <1>8. CalmPage(u)'
    <2>1. CalmPage(u)
      BY CalmFacts, CalmPages
    <2>2. Blank(u)' /\ Awaited(u)' = {}
      <3>1. Blank(u) /\ Awaited(u) = {}
        BY <1>1, <2>1, AwaitedFacts DEF CalmPage
      <3>2. QED
        BY <1>1, <3>1, AwaitedKeeps
    <2>3. Shown(u)'
      BY <1>1, <1>2, <1>6, <2>2 DEF Shown, Joining
    <2>4. subs'[s] \subseteq {"watch"} \X entries'[u]
      BY <1>1, <1>5, <2>1 DEF CalmPage
    <2>5. QED
      BY <1>1, <2>2, <2>3, <2>4 DEF CalmPage, Connected
  <1>9. ASSUME NEW v \in Users \ {u} PROVE CalmPage(v)'
    <2>1. CalmPage(v)
      BY CalmFacts, CalmPages
    <2> HIDE DEF s, c
    <2>6. Awaited(v)' = Awaited(v) /\ Blank(v)' = Blank(v)
      BY <1>1, AwaitedKeeps
    <2>2. ASSUME at[v] \in entries[v] PROVE Shown(v)'
      <3>1. /\ Awaited(v)' \subseteq watchingUsers[at[v]]
            /\ habits.prompt => Awaited(v)' = watchingUsers[at[v]]
            /\ at[v] \in Contents
        BY <1>1, <1>3, <2>2, <2>6, IdleShows, TabFacts
      <3>2. CASE at[v] # c
        <4>1. watchingUsers'[at[v]] = watchingUsers[at[v]]
          BY <1>6, <3>1, <3>2
        <4>2. QED
          BY <1>1, <3>1, <4>1, ShowsIdle
      <3>3. CASE at[v] = c
        <4>1. watchingUsers'[at[v]] = watchingUsers[at[v]] \cup {u}
          BY <1>6, <3>3
        <4>2. pc'[s] = "put" /\ loc'[s].content = at[v] /\ user'[s] = u
          BY <1>1, <1>2, <1>6, <3>3
        <4>3. QED
          BY <1>1, <1>2, <3>1, <4>1, <4>2 DEF Shown, Joining
      <3>4. QED
        BY <3>2, <3>3
    <2>3. Connected(v) => subs'[socket[v].session] = subs[socket[v].session]
      BY <1>2, <1>5, SocketFacts
    <2>4. socket[v].session \in late' => socket[v].session \in late
      BY <1>2, <1>7
    <2>5. QED
      BY <1>1, <1>5, <2>1, <2>2, <2>3, <2>4, <2>6 DEF CalmPage, Connected
  <1>10. QED
    BY <1>1, <1>7, <1>8, <1>9 DEF CalmOK, CalmPage

-----------------------------------------------------------------------------
(* Calm surroundings: a step of a handler.                                  *)

\* Who hears a broadcast about content c: the connected pages of c.
LEMMA Hearing ==
  ASSUME PageInv, Calm, NEW v \in Users, NEW c
  PROVE  Receives(v, c) <=>
             at[v] = c /\ at[v] \in entries[v] /\ socket[v].session \notin late
  <1>1. /\ entries[v] \subseteq {at[v]}
        /\ ~Connected(v) => entries[v] = {}
        /\ Connected(v) => subs[socket[v].session] \subseteq {"watch"} \X entries[v]
    BY CalmFacts DEF CalmOK
  <1>2. Connected(v) => \A d \in entries[v] : <<"watch", d>> \in subs[socket[v].session]
    BY PageTypes, CalmFacts DEF EntriesOK, Calm
  <1>3. QED
    BY <1>1, <1>2 DEF Receives

\* A frame that is sent decides about its viewer, on each page that will hear it.
LEMMA SentHeard ==
  ASSUME PageInv, Calm, UNCHANGED list, NEW c, NEW w \in Users, NEW k \in Kinds, Sent(c, w, k),
         NEW v \in Users
  PROVE  IF at[v] = c /\ at[v] \in entries[v] /\ socket[v].session \notin late
         THEN Awaited(v)' = IF k = "JOIN" THEN Awaited(v) \cup {w} ELSE Awaited(v) \ {w}
         ELSE frames'[v] = frames[v]
  <1> DEFINE f == [frames[v] EXCEPT ![w] = Append(frames[v][w], k)]
  <1>1. frames'[v] = IF Receives(v, c) THEN f ELSE frames[v]
    BY DEF Sent
  <1>2. frames[v] \in [Users -> Seq(Kinds)]
    BY PageTypes, TabFacts
  <1>3. /\ f[w] # <<>> /\ f[w][Len(f[w])] = k
        /\ \A x \in Users \ {w} : f[x] = frames[v][x]
    BY <1>2, SentFacts
  <1> HIDE DEF f
  <1>4. ASSUME Receives(v, c)
        PROVE  Awaited(v)' = IF k = "JOIN" THEN Awaited(v) \cup {w} ELSE Awaited(v) \ {w}
    <2>1. w \in Awaited(v)' <=> k = "JOIN"
      BY <1>1, <1>3, <1>4 DEF Awaited
    <2>2. \A x \in Users \ {w} : x \in Awaited(v)' <=> x \in Awaited(v)
      BY <1>1, <1>3, <1>4 DEF Awaited
    <2>3. Awaited(v)' \subseteq Users /\ Awaited(v) \subseteq Users
      BY DEF Awaited
    <2>4. QED
      BY <2>1, <2>2, <2>3
  <1>5. QED
    BY <1>1, <1>4, Hearing

LEMMA JoinHeard ==
  ASSUME PageInv, Calm, UNCHANGED list, NEW c, NEW w \in Users, Sent(c, w, "JOIN"), NEW v \in Users,
         at[v] \in entries[v], socket[v].session \notin late
  PROVE  Awaited(v)' = IF at[v] = c THEN Awaited(v) \cup {w} ELSE Awaited(v)
  BY SentHeard, AwaitedKeeps DEF Kinds

LEMMA LeaveHeard ==
  ASSUME PageInv, Calm, UNCHANGED list, NEW c, NEW w \in Users, Sent(c, w, "LEAVE"), NEW v \in Users,
         at[v] \in entries[v], socket[v].session \notin late
  PROVE  Awaited(v)' = IF at[v] = c THEN Awaited(v) \ {w} ELSE Awaited(v)
  BY SentHeard, AwaitedKeeps DEF Kinds

\* Shown, when only handler s may run.
ShownBy(v, s) ==
    LET W == watchingUsers[at[v]]
        L == Awaited(v)
    IN  /\ \A w \in L \ W :
               pc[s] = "leaveLookup" /\ loc[s].content = at[v] /\ user[s] = w
        /\ habits.prompt => \A w \in W \ L :
               /\ pc[s] \in Joining /\ loc[s].content = at[v]
               /\ \/ user[s] = w
                  \/ s = socket[v].session /\ (pc[s] = "announce" => w \in loc[s].todo)

LEMMA OnlyOneShows ==
  ASSUME PageInv, Calm, NEW s \in Sessions, pc[s] # "idle",
         NEW v \in Users, at[v] \in entries[v]
  PROVE  ShownBy(v, s)
  <1>1. Shown(v) /\ \A t \in Sessions : pc[t] # "idle" => t = s
    BY CalmFacts DEF CalmOK, OneHandler
  <1>2. QED
    BY <1>1 DEF Shown, ShownBy, Joining

\* What the handler that tells of a content owes the pages.
LEMMA OwesNow ==
  ASSUME PageInv, Calm, NEW s \in Sessions, pc[s] \in Joining \cup {"leaveLookup"}
  PROVE  loc[s].content \in Contents /\ loc[s].content \in exists /\ Owes(s, loc[s].content)
  <1>1. PageTyped /\ TypeOK /\ HandlerOK(s) /\ exists = Contents /\ OneHandler /\ Told
    BY PageTypes, CalmFacts DEF PageInv, PartyInv
  <1>2. loc[s].content \in Contents
    BY <1>1 DEF HandlerOK, TypeOK
  <1>3. Telling(s, loc[s].content)
    BY DEF Telling
  <1>4. PICK t \in Sessions : Telling(t, loc[s].content) /\ Owes(t, loc[s].content)
    BY <1>1, <1>2, <1>3 DEF Told, Calm
  <1>5. t = s
    BY <1>1, <1>4 DEF OneHandler, Telling, Joining
  <1>6. QED
    BY <1>1, <1>2, <1>4, <1>5

\* Steps that tell the pages nothing.
LEMMA QuietShown ==
  ASSUME PageInv, Calm, UNCHANGED <<habits, at, socket, entries, list, frames>>, NEW s \in Sessions,
         Put(s) \/ LookUp(s) \/ LeaveEnds(s), NEW v \in Users, at[v] \in entries[v]
  PROVE  ShownBy(v, s)'
  <1>1. PageTyped /\ TypeOK /\ at[v] \in Contents /\ user' = user /\ Awaited(v)' = Awaited(v)
    BY PageTypes, TabFacts, AwaitedKeeps DEF Put, LookUp, LeaveEnds
  <1>2. ShownBy(v, s)
    BY OnlyOneShows DEF Put, LookUp, LeaveEnds
  <1>3. CASE Put(s)
    <2>1. loc[s].content \in Contents /\ user[s] \in watchingUsers[loc[s].content]
      BY <1>3, OwesNow DEF Put, Owes, Joining
    <2>2. watchingUsers'[at[v]] = watchingUsers[at[v]]
      BY <1>1, <1>3, <2>1 DEF Put, TypeOK
    <2>3. pc[s] = "put" /\ pc'[s] = "lookup" /\ loc'[s] = loc[s]
      BY <1>1, <1>3 DEF Put, Step, TypeOK
    <2>4. QED
      BY <1>1, <1>2, <2>2, <2>3 DEF ShownBy, Joining
  <1>4. CASE LookUp(s)
    <2> DEFINE c == loc[s].content
    <2>1. c \in exists /\ pc[s] = "lookup" /\ watchingUsers' = watchingUsers
      BY <1>4, OwesNow DEF LookUp, Joining
    <2>2. Step(s, "announce", [loc[s] EXCEPT !.count = Cardinality(watchingUsers[c]),
                                             !.todo = watchingUsers[c]])
      BY <1>4, <2>1 DEF LookUp
    <2>3. pc'[s] = "announce" /\ loc'[s].content = c /\ loc'[s].todo = watchingUsers[c]
      BY <1>1, <2>2 DEF Step, TypeOK
    <2>4. QED
      BY <1>1, <1>2, <2>1, <2>3 DEF ShownBy, Joining
  <1>5. CASE LeaveEnds(s)
    <2>1. pc[s] = "leave" /\ watchingUsers' = watchingUsers
      BY <1>5 DEF LeaveEnds
    <2>2. QED
      BY <1>1, <1>2, <2>1 DEF ShownBy, Joining
  <1>6. QED
    BY <1>3, <1>4, <1>5

LEMMA RemoveShown ==
  ASSUME PageInv, Calm, UNCHANGED <<habits, at, socket, entries, list, frames>>, NEW s \in Sessions,
         NEW d \in Contents, Remove(s, d), NEW v \in Users, at[v] \in entries[v]
  PROVE  ShownBy(v, s)'
  <1>1. /\ PageTyped /\ TypeOK /\ at[v] \in Contents /\ user' = user /\ pc[s] = "leave"
        /\ Awaited(v)' = Awaited(v)
        /\ watchingUsers' = [watchingUsers EXCEPT ![d] = watchingUsers[d] \ {user[s]}]
    BY PageTypes, TabFacts, AwaitedKeeps DEF Remove
  <1>2. /\ Awaited(v) \subseteq watchingUsers[at[v]]
        /\ habits.prompt => watchingUsers[at[v]] \subseteq Awaited(v)
    BY <1>1, OnlyOneShows DEF ShownBy, Joining
  <1>3. Step(s, IF user[s] \in watchingUsers[d] THEN "leaveLookup" ELSE "leave",
             [content |-> d, count |-> Cardinality(watchingUsers[d] \ {user[s]}),
              todo |-> loc[s].todo \ {d}])
    BY DEF Remove
  <1>4. loc'[s].content = d /\ (user[s] \in watchingUsers[d] => pc'[s] = "leaveLookup")
    BY <1>1, <1>3 DEF Step, TypeOK
  <1>5. \A e \in Contents : watchingUsers'[e] =
            IF e = d THEN watchingUsers[e] \ {user[s]} ELSE watchingUsers[e]
    BY <1>1 DEF TypeOK
  <1>6. QED
    BY <1>1, <1>2, <1>4, <1>5 DEF ShownBy, Joining

LEMMA JoinShown ==
  ASSUME PageInv, Calm, UNCHANGED <<habits, at, socket, entries, list, late>>, NEW s \in Sessions,
         \/ AnnounceSelf(s) /\ Sent(loc[s].content, user[s], "JOIN")
         \/ \E w \in Users : AnnounceWatcher(s, w) /\ Sent(loc[s].content, w, "JOIN"),
         NEW v \in Users, at[v] \in entries[v], socket[v].session \notin late
  PROVE  ShownBy(v, s)'
  <1> DEFINE c == loc[s].content
  <1>1. /\ PageTyped /\ TypeOK /\ at[v] \in Contents /\ pc[s] = "announce"
        /\ user' = user /\ watchingUsers' = watchingUsers /\ HandlerOK(s)
    BY PageTypes, TabFacts DEF AnnounceSelf, AnnounceWatcher
  <1>2. ShownBy(v, s)
    BY <1>1, OnlyOneShows
  <1>3. Owes(s, c)
    BY <1>1, OwesNow DEF Joining
  <1>4. user[s] \in watchingUsers[c] /\ loc[s].todo \subseteq watchingUsers[c]
    BY <1>1, <1>3 DEF Owes, Joining
  <1>5. Awaited(v) \subseteq watchingUsers[at[v]]
    BY <1>1, <1>2 DEF ShownBy
  <1>6. CASE AnnounceSelf(s) /\ Sent(c, user[s], "JOIN")
    <2>1. user[s] \in Users
      BY <1>1 DEF HandlerOK, TypeOK, Joining
    <2>2. Awaited(v)' = IF at[v] = c THEN Awaited(v) \cup {user[s]} ELSE Awaited(v)
      BY <1>6, <2>1, JoinHeard
    <2>3. loc[s].todo = {}
      BY <1>6 DEF AnnounceSelf
    <2>4. habits.prompt => watchingUsers[at[v]] \subseteq Awaited(v)'
      BY <1>1, <1>2, <2>2, <2>3 DEF ShownBy
    <2>5. Awaited(v)' \subseteq watchingUsers[at[v]]
      BY <1>4, <1>5, <2>2
    <2>6. QED
      BY <1>1, <2>4, <2>5 DEF ShownBy
  <1>7. CASE \E w \in Users : AnnounceWatcher(s, w) /\ Sent(c, w, "JOIN")
    <2>1. PICK w \in Users : AnnounceWatcher(s, w) /\ Sent(c, w, "JOIN")
      BY <1>7
    <2>2. Awaited(v)' = IF at[v] = c THEN Awaited(v) \cup {w} ELSE Awaited(v)
      BY <2>1, JoinHeard
    <2>3. w \in loc[s].todo /\ Step(s, "announce", [loc[s] EXCEPT !.todo = @ \ {w}])
      BY <2>1 DEF AnnounceWatcher
    <2>4. pc'[s] = "announce" /\ loc'[s].content = c /\ loc'[s].todo = loc[s].todo \ {w}
      BY <1>1, <2>3 DEF Step, TypeOK
    <2>5. Awaited(v)' \subseteq watchingUsers[at[v]]
      BY <1>4, <1>5, <2>2, <2>3
    <2>6. QED
      BY <1>1, <1>2, <2>2, <2>4, <2>5 DEF ShownBy, Joining
  <1>8. QED
    BY <1>6, <1>7

LEMMA LeaveShown ==
  ASSUME PageInv, Calm, UNCHANGED <<habits, at, socket, entries, list, late>>, NEW s \in Sessions,
         AnnounceLeave(s), Sent(loc[s].content, user[s], "LEAVE"),
         NEW v \in Users, at[v] \in entries[v], socket[v].session \notin late
  PROVE  ShownBy(v, s)'
  <1> DEFINE c == loc[s].content
  <1>1. /\ PageTyped /\ TypeOK /\ pc[s] = "leaveLookup" /\ user[s] \in Users
        /\ user' = user /\ watchingUsers' = watchingUsers
    BY PageTypes DEF AnnounceLeave, HandlerOK, TypeOK
  <1>2. ShownBy(v, s)
    BY <1>1, OnlyOneShows
  <1>3. user[s] \notin watchingUsers[c]
    BY <1>1, OwesNow DEF Owes
  <1>4. Awaited(v)' = IF at[v] = c THEN Awaited(v) \ {user[s]} ELSE Awaited(v)
    BY <1>1, LeaveHeard
  <1>5. /\ Awaited(v)' \subseteq watchingUsers[at[v]]
        /\ habits.prompt => watchingUsers[at[v]] \subseteq Awaited(v)'
    BY <1>1, <1>2, <1>3, <1>4 DEF ShownBy, Joining
  <1>6. QED
    BY <1>1, <1>5 DEF ShownBy

LEMMA HandlerCalm ==
  ASSUME PageInv, Calm, UNCHANGED <<setting, habits>>, NEW s \in Sessions, HandlerStep(s)
  PROVE  CalmOK'
  <1> DEFINE c == loc[s].content
  <1>1. UNCHANGED <<session, user, subs, at, socket, entries, list, late>>
    BY DEF HandlerStep, Put, LookUp, LeaveEnds, Remove, AnnounceSelf, AnnounceWatcher, AnnounceLeave
  <1>2. PageTyped /\ CalmOK
    BY PageTypes, CalmFacts
  <1>3. AnnounceSelf(s) \/ AnnounceLeave(s) => user[s] \in Users
    BY PageTypes DEF AnnounceSelf, AnnounceLeave, HandlerOK, TypeOK
  <1>4. ASSUME NEW v \in Users, at[v] \notin entries[v] \/ socket[v].session \in late
        PROVE  frames'[v] = frames[v] /\ Awaited(v)' = Awaited(v) /\ Blank(v)' = Blank(v)
    <2>1. ASSUME NEW w \in Users, NEW k \in Kinds, Sent(c, w, k) PROVE frames'[v] = frames[v]
      BY <1>1, <1>4, <2>1, SentHeard
    <2>2. frames'[v] = frames[v]
      BY <1>3, <2>1 DEF HandlerStep, Kinds
    <2>3. QED
      BY <1>1, <2>2, AwaitedKeeps
  <1>5. ASSUME NEW v \in Users, at[v] \in entries[v], socket[v].session \notin late
        PROVE  ShownBy(v, s)'
    <2>1. CASE frames' = frames /\ (Put(s) \/ LookUp(s) \/ LeaveEnds(s))
      BY <1>1, <1>5, <2>1, QuietShown
    <2>2. ASSUME NEW d \in Contents, Remove(s, d), frames' = frames PROVE ShownBy(v, s)'
      BY <1>1, <1>5, <2>2, RemoveShown
    <2>3. CASE \/ AnnounceSelf(s) /\ Sent(c, user[s], "JOIN")
               \/ \E w \in Users : AnnounceWatcher(s, w) /\ Sent(c, w, "JOIN")
      BY <1>1, <1>5, <2>3, JoinShown
    <2>4. CASE AnnounceLeave(s) /\ Sent(c, user[s], "LEAVE")
      BY <1>1, <1>5, <2>4, LeaveShown
    <2>5. QED
      BY <2>1, <2>2, <2>3, <2>4 DEF HandlerStep
  <1>6. ASSUME NEW v \in Users, at[v] \in entries[v], socket[v].session \notin late
        PROVE  Shown(v)'
    BY <1>5, <1>6 DEF ShownBy, Shown
  <1>7. ASSUME NEW v \in Users, socket[v].session \in late
        PROVE  Shown(v)'
    <2>1. ~habits.prompt /\ Blank(v) /\ Awaited(v)' = Awaited(v)
      BY <1>2, <1>4, <1>7 DEF CalmOK
    <2>2. Awaited(v)' = {}
      BY <1>2, <2>1, AwaitedFacts
    <2>3. QED
      BY <2>1, <2>2 DEF Shown
  <1>8. QED
    BY <1>1, <1>2, <1>4, <1>6, <1>7 DEF CalmOK, Connected

-----------------------------------------------------------------------------
(* The invariant of the pages.                                              *)

\* The initial states.
LEMMA PageStarts ==
  ASSUME PageInit
  PROVE  PageInv
  <1>1. PartyInv
    BY PartyInit DEF PageInit
  <1>2. PageTyped
    <2>1. /\ \A u \in Users : at[u] = None /\ socket[u] = NoSocket /\ entries[u] = {}
          /\ list = [u \in Users |-> Cleared] /\ frames = [u \in Users |-> NoFrames]
      BY DEF PageInit
    <2>2. list \in [Users -> ViewerLists] /\ frames \in [Users -> [Users -> Seq(Kinds)]]
      BY <2>1, ClearedFacts, NoFramesTyped
    <2>3. QED
      BY <2>2 DEF PageInit, PageTyped, NoSocket
  <1>3. ASSUME NEW u \in Users PROVE ~Connected(u) /\ socket[u].session = None /\ entries[u] = {}
                                    /\ Blank(u)
    BY ClearedFacts DEF PageInit, Connected, NoSocket, Blank
  <1>4. CalmOK
    BY <1>3 DEF PageInit, Init, CalmOK
  <1>5. QED
    BY <1>1, <1>2, <1>3, <1>4 DEF PageInv, SocketOK, EntriesOK

LEMMA BrowseKeeps ==
  ASSUME PageInv, PartyInv', UNCHANGED <<setting, habits>>, habits # None,
         NEW u \in Users, Browse(u)
  PROVE  PageInv'
  <1>1. PageTyped'
    BY PageTypes, BrowseTyped
  <1>2. Calm' <=> Calm
    BY DEF Calm
  <1>3. HoldsOn' /\ (Calm => CalmOK')
    <2>1. ASSUME NEW c \in Contents \cup {None}, Turn(u, c) PROVE HoldsOn' /\ (Calm => CalmOK')
      BY <2>1, TurnHolds, TurnCalm
    <2>2. ASSUME NEW s \in Sessions, OnConnect(u, s) PROVE HoldsOn' /\ (Calm => CalmOK')
      BY <2>2, ConnectHolds, ConnectCalm
    <2>3. CASE FetchFails(u)
      BY <2>3, SameBehind, FetchFailsCalm DEF FetchFails, vars
    <2>4. CASE Subscribing(u)
      BY <2>4, SubscribingHolds, SubscribingCalm
    <2>5. CASE Drop(u) \/ ConnectFails(u)
      BY <2>5, BreakHolds, NeverCalm
    <2>6. CASE CloseTab(u)
      BY <2>6, CloseTabHolds, CloseTabCalm
    <2>7. ASSUME NEW w \in Users, Hears(u, w) PROVE HoldsOn' /\ (Calm => CalmOK')
      BY <2>7, SameBehind, HearsCalm DEF Hears, vars
    <2>8. QED
      BY <2>1, <2>2, <2>3, <2>4, <2>5, <2>6, <2>7 DEF Browse
  <1>4. QED
    BY <1>1, <1>2, <1>3 DEF PageInv, HoldsOn

LEMMA ServerKeeps ==
  ASSUME PageInv, PartyInv', UNCHANGED <<setting, habits>>, habits # None,
         NEW s \in Sessions, HandlerStep(s) \/ Notice(s) \/ Register(s)
  PROVE  PageInv'
  <1>1. Calm' <=> Calm
    BY DEF Calm
  <1>2. CASE HandlerStep(s)
    <2>1. PageTyped' /\ HoldsOn' /\ (Calm => CalmOK')
      BY <1>2, HandlerTyped, HandlerHolds, HandlerCalm
    <2>2. QED
      BY <1>1, <2>1 DEF PageInv, HoldsOn
  <1>3. CASE Notice(s)
    <2>1. PageTyped'
      BY <1>3, PageTypes DEF Notice, PageTyped
    <2>2. HoldsOn' /\ (Calm => CalmOK')
      BY <1>3, NoticeHolds, NeverCalm
    <2>3. QED
      BY <1>1, <2>1, <2>2 DEF PageInv, HoldsOn
  <1>4. CASE Register(s)
    <2>1. PageTyped'
      BY <1>4, PageTypes DEF Register, PageTyped
    <2>2. HoldsOn' /\ (Calm => CalmOK')
      BY <1>4, SameBehind, RegisterCalm DEF Register, vars
    <2>3. QED
      BY <1>1, <2>1, <2>2 DEF PageInv, HoldsOn
  <1>5. QED
    BY <1>2, <1>3, <1>4

\* Without pages only WatchParty moves.
LEMMA PartyAlone ==
  ASSUME PageInv, PartyInv', UNCHANGED <<habits, tabs>>, habits = None, UNCHANGED setting
  PROVE  PageInv'
  <1>1. PageTyped'
    BY PageTypes DEF tabs, PageTyped
  <1>2. \A u \in Users : SocketOK(u)' /\ EntriesOK(u)'
    BY PageTypes DEF tabs, SocketOK, EntriesOK, Connected
  <1>3. ~Calm'
    BY DEF Calm
  <1>4. QED
    BY <1>1, <1>2, <1>3 DEF PageInv

LEMMA PageStutters ==
  ASSUME PageInv, UNCHANGED pageVars
  PROVE  PageInv'
  <1>1. PartyInv'
    BY PartyNext DEF PageInv, pageVars
  <1>2. PageTyped'
    BY PageTypes DEF pageVars, vars, tabs, PageTyped
  <1>3. HoldsOn'
    BY SameBehind DEF pageVars, vars, tabs
  <1>4. Calm => CalmOK'
    <2> SUFFICES ASSUME Calm PROVE CalmOK'
      OBVIOUS
    <2>1. CalmOK
      BY CalmFacts
    <2>2. \A u \in Users : CalmPage(u)'
      BY PageKeeps DEF pageVars, vars, tabs
    <2>3. QED
      BY <2>1, <2>2 DEF CalmOK, CalmPage, pageVars, vars, tabs
  <1>5. QED
    BY <1>1, <1>2, <1>3, <1>4 DEF PageInv, HoldsOn, Calm, pageVars, vars

LEMMA PageSteps ==
  ASSUME PageInv, [PageNext]_pageVars
  PROVE  PageInv'
  <1>1. [Next]_vars
    BY PageTypes, PageStepIsStep
  <1>2. PartyInv'
    BY <1>1, PartyNext DEF PageInv
  <1>3. CASE UNCHANGED pageVars
    BY <1>3, PageStutters
  <1>4. CASE PageNext
    BY <1>2, <1>4, BrowseKeeps, ServerKeeps, PartyAlone DEF PageNext
  <1>5. QED
    BY <1>3, <1>4

\* Everything the proofs know of the pages and of the server behind them holds
\* in every reachable state.
THEOREM PageInvariant == PageSpec => []PageInv
  <1>1. PageInit => PageInv
    BY PageStarts
  <1>2. PageInv /\ [PageNext]_pageVars => PageInv'
    BY PageSteps
  <1>3. QED
    BY <1>1, <1>2, PTL DEF PageSpec

\* The pages of the web front end are clients of WatchParty: whatever they do,
\* its server sees a behaviour of its own specification, so that every theorem
\* about Spec holds of it.
THEOREM PagesAreClients == PageSpec => Spec
  <1>1. PageInit => Init
    BY DEF PageInit
  <1>2. PageInv /\ [PageNext]_pageVars => [Next]_vars
    BY PageTypes, PageStepIsStep
  <1>3. QED
    BY <1>1, <1>2, PageInvariant, PTL DEF PageSpec, Spec

\* The types of the pages, and nobody stays listed after the last session of
\* his is gone, with the pages in front of the server.
THEOREM PagesLeaveNoGhosts == PageSpec => []WatchInv
  <1>1. PageInv => WatchInv
    <2> SUFFICES ASSUME PageInv PROVE WatchInv
      OBVIOUS
    <2>1. TypeOK /\ NoGhost /\ PageTyped
      BY DEF PageInv, PartyInv
    <2>2. \A u \in Users : Ids(list[u]) \subseteq Users
      BY <2>1, TabFacts
    <2>3. QED
      BY <2>1, <2>2 DEF WatchInv, PageTypeOK, PageTyped, Kinds
  <1>2. QED
    BY <1>1, PageInvariant, PTL

\* With the pages in front of the server too, being listed and watching are the
\* same for a user without a running handler.
THEOREM PagesListWatching == PageSpec => []ListedIffWatching
  BY PagesAreClients, ListedAreWatching, PTL

\* And the broadcasts add up to the map of watchers.
THEOREM PagesHearEnough == PageSpec => []BroadcastsAddUp
  BY PagesAreClients, BroadcastsTell, PTL

\* A page that is connected and holds an entry for its content has a live
\* subscription, if connections break or readers turn pages, but not both.
THEOREM LiveEntries == PageSpec => []EntriesAreLive
  <1>1. PageInv => EntriesAreLive
    <2> SUFFICES ASSUME PageInv PROVE EntriesAreLive
      OBVIOUS
    <2>1. \A u \in Users : EntriesOK(u)
      BY PageTypes
    <2>2. QED
      BY <2>1 DEF EntriesOK, EntriesAreLive
  <1>2. QED
    BY <1>1, PageInvariant, PTL

\* In calm surroundings the page of a content shows exactly the users the
\* server lists, whenever no handler runs and no frame is on its way to it: the
\* frames wait and are heard one by one, in the order of each viewer's.
THEOREM ShownAreWatching == PageSpec => []PageShowsWatchers
  <1>1. PageInv => PageShowsWatchers
    <2> SUFFICES ASSUME PageInv, Calm, NEW u \in Users, Settled(u)
                 PROVE  /\ Ids(list[u]) \subseteq watchingUsers[at[u]]
                        /\ habits.prompt => Ids(list[u]) = watchingUsers[at[u]]
      BY DEF PageShowsWatchers
    <2>1. Awaited(u) = Ids(list[u])
      BY PageTypes, AwaitedFacts DEF Settled
    <2>2. QED
      BY <2>1, IdleShows DEF Settled
  <1>2. QED
    BY <1>1, PageInvariant, PTL
=============================================================================
