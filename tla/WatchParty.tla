----------------------------- MODULE WatchParty -----------------------------
(***************************************************************************)
(* Who is watching which content: WebSocketEventListener keeps a map of    *)
(* watchers and broadcasts JOIN and LEAVE to /sub/contents/{id}/watch when *)
(* a WebSocket session subscribes or disconnects.                          *)
(*                                                                         *)
(* The map is a ConcurrentHashMap of ConcurrentHashMaps: each of its       *)
(* operations is a step, and the handlers of different sessions interleave *)
(* between them. A session's own events are handled one after another.     *)
(***************************************************************************)
EXTENDS FiniteSets, Naturals

CONSTANTS
    Users,
    Sessions,       \* WebSocket sessions
    Contents,       \* ids that occur in a destination
    Settings,       \* the surroundings to explore, see below
    None

\* What surrounds the listener. overlap: handlers of different sessions
\* interleave; tabs: a user opens several sessions at a time; unsubscribe:
\* clients unsubscribe without disconnecting; delete: contents are deleted;
\* to: what clients subscribe to.
AllSettings == [overlap : BOOLEAN, tabs : BOOLEAN, unsubscribe : BOOLEAN,
                delete : BOOLEAN, to : SUBSET {"watch", "chat", "dm"}]

ASSUME WatchAssumption ==
    /\ IsFiniteSet(Users)
    /\ Settings \subseteq AllSettings
    /\ None \notin Users \cup Sessions \cup Contents

VARIABLES
    setting,        \* chosen once
    exists,         \* the contents in the database
    session,        \* state of each session
    user,           \* the principal of each session
    subs,           \* destinations each session is subscribed to
    watchingUsers,  \* WebSocketEventListener.watchingUsers
    announced,      \* whom the broadcasts so far present as watching
    watcherCount,   \* the count in the last broadcast
    pc, loc         \* progress and locals of each session's handler

broadcasts == <<announced, watcherCount>>
handlers   == <<pc, loc>>
vars == <<setting, exists, session, user, subs, watchingUsers, announced,
          watcherCount, pc, loc>>

NullLocals == [content |-> None, count |-> 0, todo |-> {}]

Destinations == {"watch", "chat", "dm"}

TypeOK ==
    /\ setting \in Settings
    /\ exists \subseteq Contents
    /\ session \in [Sessions -> {"new", "open", "closed"}]
    /\ user \in [Sessions -> Users \cup {None}]
    /\ subs \in [Sessions -> SUBSET (Destinations \X Contents)]
    /\ watchingUsers \in [Contents -> SUBSET Users]
    /\ announced \in [Contents -> SUBSET Users]
    /\ watcherCount \in [Contents -> 0..Cardinality(Users)]
    /\ pc \in [Sessions -> {"idle", "put", "lookup", "announce", "leave", "leaveLookup"}]
    /\ loc \in [Sessions -> [content : Contents \cup {None},
                             count : 0..Cardinality(Users),
                             todo : SUBSET (Users \cup Contents)]]

Init ==
    /\ setting \in Settings
    /\ exists = Contents
    /\ session = [s \in Sessions |-> "new"]
    /\ user = [s \in Sessions |-> None]
    /\ subs = [s \in Sessions |-> {}]
    /\ watchingUsers = [c \in Contents |-> {}]
    /\ announced = [c \in Contents |-> {}]
    /\ watcherCount = [c \in Contents |-> 0]
    /\ pc = [s \in Sessions |-> "idle"]
    /\ loc = [s \in Sessions |-> NullLocals]

-----------------------------------------------------------------------------

MayHandle(s) ==
    /\ session[s] = "open" /\ pc[s] = "idle"
    /\ setting.overlap \/ \A t \in Sessions : pc[t] = "idle"

Step(s, step, locals) ==
    /\ pc' = [pc EXCEPT ![s] = step]
    /\ loc' = [loc EXCEPT ![s] = IF step = "idle" THEN NullLocals ELSE locals]

\* A broadcast to the watchers of content c, from handler s.
Broadcast(s, c, who) ==
    /\ announced' = [announced EXCEPT ![c] = who]
    /\ watcherCount' = [watcherCount EXCEPT ![c] = loc[s].count]

\* AuthChannelInterceptor accepts the token of a CONNECT frame.
Connect(s, u) ==
    /\ session[s] = "new"
    /\ setting.tabs \/ \A t \in Sessions :
           user[t] = u => session[t] = "closed" /\ pc[t] = "idle"
    /\ session' = [session EXCEPT ![s] = "open"]
    /\ user' = [user EXCEPT ![s] = u]
    /\ UNCHANGED <<exists, subs, watchingUsers, broadcasts, handlers>>

\* No listener handles an unsubscription.
Unsubscribe(s, d, c) ==
    /\ setting.unsubscribe
    /\ session[s] = "open" /\ <<d, c>> \in subs[s]
    /\ subs' = [subs EXCEPT ![s] = @ \ {<<d, c>>}]
    /\ UNCHANGED <<exists, session, user, watchingUsers, broadcasts, handlers>>

\* ContentService.deleteContent.
DeleteContent(c) ==
    /\ setting.delete
    /\ c \in exists
    /\ exists' = exists \ {c}
    /\ UNCHANGED <<session, user, subs, watchingUsers, broadcasts, handlers>>

-----------------------------------------------------------------------------
(* handleWatchSubscribe.                                                    *)

\* The listener runs for every destination and takes its third part for a
\* content id (extractContentId). putIfAbsent: a listed user ends it here.
Subscribe(s, d, c) ==
    /\ MayHandle(s)
    /\ <<d, c>> \notin subs[s]
    /\ subs' = [subs EXCEPT ![s] = @ \cup {<<d, c>>}]
    /\ watchingUsers' = [watchingUsers EXCEPT ![c] = @ \cup {user[s]}]
    /\ IF user[s] \in watchingUsers[c]
       THEN UNCHANGED handlers
       ELSE Step(s, "put", [NullLocals EXCEPT !.content = c])
    /\ UNCHANGED <<exists, session, user, broadcasts>>

\* Mutation: the session is listed in place of the user.
PutSession(s) ==
    /\ pc[s] = "put"
    /\ watchingUsers' = [watchingUsers EXCEPT ![loc[s].content] = @ \cup {s}]
    /\ Step(s, "lookup", loc[s])
    /\ UNCHANGED <<exists, session, user, subs, broadcasts>>

\* The second put of the same entry.
Put(s) ==
    /\ pc[s] = "put"
    /\ watchingUsers' = [watchingUsers EXCEPT ![loc[s].content] = @ \cup {user[s]}]
    /\ Step(s, "lookup", loc[s])
    /\ UNCHANGED <<exists, session, user, subs, broadcasts>>

\* Mutation: only the newcomer is announced.
LookUpForNewcomer(s) ==
    /\ pc[s] = "lookup"
    /\ LET c == loc[s].content
       IN  IF c \in exists
           THEN Step(s, "announce", [loc[s] EXCEPT
                        !.count = Cardinality(watchingUsers[c]),
                        !.todo = {}])
           ELSE Step(s, "idle", NullLocals)
    /\ UNCHANGED <<exists, session, user, subs, watchingUsers, broadcasts>>

\* getContentById, size, and the start of the iteration. Without the content
\* the handler ends with an exception, after it has listed the user.
LookUp(s) ==
    /\ pc[s] = "lookup"
    /\ LET c == loc[s].content
       IN  IF c \in exists
           THEN Step(s, "announce", [loc[s] EXCEPT
                        !.count = Cardinality(watchingUsers[c]),
                        !.todo = watchingUsers[c]])
           ELSE Step(s, "idle", NullLocals)
    /\ UNCHANGED <<exists, session, user, subs, watchingUsers, broadcasts>>

\* A JOIN for each watcher. The iterator is weakly consistent: it may or may
\* not show a watcher that was removed meanwhile.
AnnounceWatcher(s, w) ==
    /\ pc[s] = "announce" /\ w \in loc[s].todo
    /\ LET c == loc[s].content
       IN  \/ Broadcast(s, c, announced[c] \cup {w})
           \/ w \notin watchingUsers[c] /\ UNCHANGED broadcasts
    /\ Step(s, "announce", [loc[s] EXCEPT !.todo = @ \ {w}])
    /\ UNCHANGED <<exists, session, user, subs, watchingUsers>>

\* And one more for the newcomer.
AnnounceSelf(s) ==
    /\ pc[s] = "announce" /\ loc[s].todo = {}
    /\ Broadcast(s, loc[s].content, announced[loc[s].content] \cup {user[s]})
    /\ Step(s, "idle", NullLocals)
    /\ UNCHANGED <<exists, session, user, subs, watchingUsers>>

-----------------------------------------------------------------------------
(* handleSessionDisconnect: for every content, whatever this session or the *)
(* user's other sessions are subscribed to.                                 *)

Disconnect(s) ==
    /\ MayHandle(s)
    /\ session' = [session EXCEPT ![s] = "closed"]
    /\ subs' = [subs EXCEPT ![s] = {}]
    /\ Step(s, "leave", [NullLocals EXCEPT !.todo = Contents])
    /\ UNCHANGED <<exists, user, watchingUsers, broadcasts>>

\* Mutation: the count is taken before the user is removed.
RemoveCountsFirst(s, c) ==
    /\ pc[s] = "leave" /\ c \in loc[s].todo
    /\ watchingUsers' = [watchingUsers EXCEPT ![c] = @ \ {user[s]}]
    /\ Step(s, IF user[s] \in watchingUsers[c] THEN "leaveLookup" ELSE "leave",
            [content |-> c, count |-> Cardinality(watchingUsers[c]),
             todo |-> loc[s].todo \ {c}])
    /\ UNCHANGED <<exists, session, user, subs, broadcasts>>

Remove(s, c) ==
    /\ pc[s] = "leave" /\ c \in loc[s].todo
    /\ LET rest == watchingUsers[c] \ {user[s]}
       IN  /\ watchingUsers' = [watchingUsers EXCEPT ![c] = rest]
           /\ Step(s, IF user[s] \in watchingUsers[c] THEN "leaveLookup" ELSE "leave",
                   [content |-> c, count |-> Cardinality(rest),
                    todo |-> loc[s].todo \ {c}])
    /\ UNCHANGED <<exists, session, user, subs, broadcasts>>

\* Mutation: the handler returns after the first LEAVE.
AnnounceLeaveReturns(s) ==
    /\ pc[s] = "leaveLookup"
    /\ LET c == loc[s].content
       IN  IF c \in exists THEN Broadcast(s, c, announced[c] \ {user[s]})
                           ELSE UNCHANGED broadcasts
    /\ Step(s, "idle", NullLocals)
    /\ UNCHANGED <<exists, session, user, subs, watchingUsers>>

\* getContentById and the LEAVE. Without the content the exception ends the
\* loop over the contents.
AnnounceLeave(s) ==
    /\ pc[s] = "leaveLookup"
    /\ LET c == loc[s].content
       IN  IF c \in exists
           THEN /\ Broadcast(s, c, announced[c] \ {user[s]})
                /\ Step(s, "leave", loc[s])
           ELSE Step(s, "idle", NullLocals) /\ UNCHANGED broadcasts
    /\ UNCHANGED <<exists, session, user, subs, watchingUsers>>

LeaveEnds(s) ==
    /\ pc[s] = "leave" /\ loc[s].todo = {}
    /\ Step(s, "idle", NullLocals)
    /\ UNCHANGED <<exists, session, user, subs, watchingUsers, broadcasts>>

-----------------------------------------------------------------------------

Client(s) ==
    \/ \E u \in Users : Connect(s, u)
    \/ \E d \in setting.to, c \in Contents : Subscribe(s, d, c) \/ Unsubscribe(s, d, c)
    \/ Disconnect(s)

Handler(s) ==
    \/ Put(s) \/ LookUp(s) \/ AnnounceSelf(s)
    \/ \E w \in Users : AnnounceWatcher(s, w)
    \/ \E c \in Contents : Remove(s, c)
    \/ AnnounceLeave(s) \/ LeaveEnds(s)

Next ==
    /\ \/ \E s \in Sessions : Client(s) \/ Handler(s)
       \/ \E c \in Contents : DeleteContent(c)
    /\ UNCHANGED setting

Spec == Init /\ [][Next]_vars

-----------------------------------------------------------------------------
(* Correctness.                                                             *)

\* User u has an open session that is subscribed to content c.
Attends(u, c, dests) ==
    \E s \in Sessions : /\ session[s] = "open" /\ user[s] = u
                        /\ \E d \in dests : <<d, c>> \in subs[s]

\* A disconnect handler has still to take user u off content c.
Leaving(u, c) ==
    \E s \in Sessions : user[s] = u /\ pc[s] \in {"leave", "leaveLookup"} /\ c \in loc[s].todo

\* No handler runs for user u.
Quiet(u) == \A s \in Sessions : user[s] = u => pc[s] = "idle"

\* Nobody stays listed after the last session is gone, whatever handlers of
\* the user's sessions overlap (putIfAbsent, remove and the second put of one
\* entry): a listed user has a session that is subscribed, or is leaving. (Not
\* so with unsubscriptions, which nobody handles, or when a handler meets a
\* deleted content and breaks off.)
NoGhost ==
    ~setting.unsubscribe /\ ~setting.delete =>
        \A c \in Contents : \A u \in watchingUsers[c] :
            Attends(u, c, Destinations) \/ Leaving(u, c)

\* For a user without a running handler, being listed and watching are the
\* same (README: viewers of a content are shared in real time), if the user
\* has one session at a time, leaves by disconnecting and opens nothing but
\* watch parties.
ListedIffWatching ==
    /\ ~setting.tabs /\ ~setting.unsubscribe /\ ~setting.delete
    /\ setting.to = {"watch"}
    => \A u \in Users, c \in Contents :
           Quiet(u) => (u \in watchingUsers[c] <=> Attends(u, c, {"watch"}))

\* When no handler runs, the JOINs, LEAVEs and counts broadcast so far add up
\* to the map: a page that applied all of them shows the watchers. (Handlers
\* that overlap broadcast out of order.)
BroadcastsAddUp ==
    ~setting.overlap /\ (\A s \in Sessions : pc[s] = "idle") =>
        \A c \in exists : /\ announced[c] = watchingUsers[c]
                          /\ watcherCount[c] = Cardinality(watchingUsers[c])
=============================================================================
