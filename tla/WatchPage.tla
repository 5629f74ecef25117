----------------------------- MODULE WatchPage ------------------------------
(***************************************************************************)
(* The content page of the web front end (eM in the compiled bundle) in    *)
(* front of WatchParty: which content a tab shows, the tab's one WebSocket *)
(* (the store w4 and its map of subscriptions), and the list of viewers    *)
(* the page shows (the store aD).                                          *)
(*                                                                         *)
(* The list is fetched from a URL the server does not have: the fetch      *)
(* empties the list and fails, and only broadcasts fill it. An effect of   *)
(* the page runs with the change that causes it. A frame of the page       *)
(* reaches its listener before the page does anything else; the broker     *)
(* registers the subscription on another thread.                           *)
(*                                                                         *)
(* The broker puts a broadcast into a frame for each subscription before   *)
(* convertAndSend returns, and the threads of its outbound channel write   *)
(* the frames: one session may see them in another order, since nothing    *)
(* sets preservePublishOrder.                                              *)
(***************************************************************************)
EXTENDS WatchParty, Sequences

INSTANCE ListStore

CONSTANT Combinations  \* of settings and habits to explore

\* What the readers do. leave: they leave a content's page without closing the
\* tab; drop: connections break; prompt: the broker registers a subscription
\* before the listener's first broadcast; ordered: the frames about one viewer
\* reach a page in the order they were sent. None: no pages, the clients of
\* WatchParty.
AllHabits == [leave : BOOLEAN, drop : BOOLEAN, prompt : BOOLEAN, ordered : BOOLEAN]

ASSUME CombinationsAssumption ==
    /\ Combinations \subseteq Settings \X (AllHabits \cup {None})
    /\ \A x \in Combinations : x[2] # None => "watch" \in x[1].to
    /\ None \notin AllHabits

VARIABLES
    habits,   \* chosen once
    at,       \* the content whose page each user's tab shows
    socket,   \* the connection of each tab
    entries,  \* w4.subscriptions: the contents whose broadcasts it holds one for
    list,     \* the list of viewers of each tab
    late,     \* sessions whose subscription the broker has yet to register
    frames    \* the frames about each viewer on their way to each tab

tabs == <<at, socket, entries, list, late, frames>>
pageVars == <<vars, habits, tabs>>

NoSocket == [state |-> "off", session |-> None]

Connecting == [state |-> "connecting", session |-> None]

\* Frames about different viewers change different rows: only the order of
\* those about one viewer matters.
NoFrames == [w \in Users |-> <<>>]

PageTypeOK ==
    /\ TypeOK
    /\ <<setting, habits>> \in Combinations
    /\ at \in [Users -> Contents \cup {None}]
    /\ socket \in [Users -> [state : {"off", "connecting", "connected"},
                             session : Sessions \cup {None}]]
    /\ entries \in [Users -> SUBSET Contents]
    /\ \A u \in Users : Ids(list[u]) \subseteq Users
    /\ late \subseteq Sessions
    /\ frames \in [Users -> [Users -> Seq({"JOIN", "LEAVE"})]]

PageInit ==
    /\ Init
    /\ habits \in {h \in AllHabits \cup {None} : <<setting, h>> \in Combinations}
    /\ at = [u \in Users |-> None]
    /\ socket = [u \in Users |-> NoSocket]
    /\ entries = [u \in Users |-> {}]
    /\ list = [u \in Users |-> Cleared]
    /\ late = {}
    /\ frames = [u \in Users |-> NoFrames]

Connected(u) == socket[u].state = "connected"

-----------------------------------------------------------------------------
(* The page and its effects.                                                *)

\* unsubscribe: without a connection the entry stays. A frame of a
\* subscription that is gone has no callback.
Unsubscribes(u, c) ==
    IF Connected(u) /\ c \in entries[u]
    THEN /\ entries' = [entries EXCEPT ![u] = @ \ {c}]
         /\ frames' = [frames EXCEPT ![u] = NoFrames]
         /\ IF <<"watch", c>> \in subs[socket[u].session]
            THEN Unsubscribe(socket[u].session, "watch", c)
            ELSE UNCHANGED vars
    ELSE UNCHANGED <<vars, entries, frames>>

\* The tab turns to the page of content c, or to a page of something else: the
\* effect's cleanup unsubscribes from the content before, then it connects if
\* need be, and the list is fetched. Nothing empties the list of a page that
\* is left.
Turn(u, c) ==
    /\ at[u] # c
    /\ at[u] # None => habits.leave
    /\ Unsubscribes(u, at[u])
    /\ at' = [at EXCEPT ![u] = c]
    /\ socket' = [socket EXCEPT ![u] = IF c # None /\ @ = NoSocket THEN Connecting ELSE @]
    /\ list' = [list EXCEPT ![u] = IF c = None THEN @ ELSE Fetching(@, c)]
    /\ UNCHANGED late

\* The fetch of the list ends with an error.
FetchFails(u) ==
    /\ list[u].loading
    /\ list' = [list EXCEPT ![u] = Failed(@)]
    /\ UNCHANGED <<vars, at, socket, entries, late, frames>>

\* Mutation: what a former connection held is remembered.
OnConnectKeepsEntries(u, s) ==
    /\ socket[u] = Connecting
    /\ Connect(s, u)
    /\ socket' = [socket EXCEPT ![u] = [state |-> "connected", session |-> s]]
    /\ UNCHANGED <<at, entries, list, late, frames>>

\* onConnect: the effect runs anew, its cleanup unsubscribes from the content
\* of the page; what a former connection held is forgotten with it.
OnConnect(u, s) ==
    /\ socket[u] = Connecting
    /\ Connect(s, u)
    /\ socket' = [socket EXCEPT ![u] = [state |-> "connected", session |-> s]]
    /\ entries' = [entries EXCEPT ![u] = @ \ {at[u]}]
    /\ UNCHANGED <<at, list, late, frames>>

\* The effect subscribes, unless an entry says it has; the listener runs, and
\* the broker may be later.
Subscribing(u) ==
    /\ Connected(u) /\ at[u] \in Contents \ entries[u]
    /\ Subscribe(socket[u].session, "watch", at[u])
    /\ entries' = [entries EXCEPT ![u] = @ \cup {at[u]}]
    /\ \/ UNCHANGED late
       \/ ~habits.prompt /\ late' = late \cup {socket[u].session}
    /\ UNCHANGED <<at, socket, list, frames>>

Register(s) ==
    /\ s \in late
    /\ late' = late \ {s}
    /\ UNCHANGED <<vars, at, socket, entries, list, frames>>

\* onWebSocketClose of an open connection: the effect runs anew and connects.
\* Entries and viewers stay, what was on its way is lost. The server knows the
\* session is gone later.
Drop(u) ==
    /\ habits.drop /\ Connected(u)
    /\ socket' = [socket EXCEPT ![u] = IF at[u] = None THEN NoSocket ELSE Connecting]
    /\ frames' = [frames EXCEPT ![u] = NoFrames]
    /\ UNCHANGED <<vars, at, entries, list, late>>

\* onWebSocketClose of a connection that never opened: isConnected stays as it
\* is, no effect runs.
ConnectFails(u) ==
    /\ habits.drop /\ socket[u] = Connecting
    /\ socket' = [socket EXCEPT ![u] = NoSocket]
    /\ UNCHANGED <<vars, at, entries, list, late, frames>>

\* The server notices that a dropped session is gone.
Notice(s) ==
    /\ \A u \in Users : socket[u].session # s
    /\ Disconnect(s)
    /\ late' = late \ {s}
    /\ UNCHANGED <<at, socket, entries, list, frames>>

\* The tab is closed or reloaded.
CloseTab(u) ==
    /\ at[u] # None \/ Connected(u)
    /\ IF Connected(u) THEN Disconnect(socket[u].session) ELSE UNCHANGED vars
    /\ at' = [at EXCEPT ![u] = None]
    /\ socket' = [socket EXCEPT ![u] = NoSocket]
    /\ entries' = [entries EXCEPT ![u] = {}]
    /\ list' = [list EXCEPT ![u] = Cleared]
    /\ late' = late \ {socket[u].session}
    /\ frames' = [frames EXCEPT ![u] = NoFrames]

-----------------------------------------------------------------------------
(* Broadcasts reach the pages.                                              *)

Receives(u, c) ==
    /\ Connected(u) /\ socket[u].session \notin late
    /\ <<"watch", c>> \in subs[socket[u].session]

\* convertAndSend: every subscription the broker knows gets a frame.
Sent(c, w, kind) ==
    frames' = [u \in Users |-> IF Receives(u, c)
                               THEN [frames[u] EXCEPT ![w] = Append(@, kind)]
                               ELSE frames[u]]

HandlerStep(s) ==
    /\ LET c == loc[s].content
       IN  \/ /\ Put(s) \/ LookUp(s) \/ LeaveEnds(s) \/ \E d \in Contents : Remove(s, d)
              /\ UNCHANGED frames
           \/ AnnounceSelf(s) /\ Sent(c, user[s], "JOIN")
           \/ \E w \in Users : AnnounceWatcher(s, w) /\ Sent(c, w, "JOIN")
           \/ AnnounceLeave(s) /\ Sent(c, user[s], "LEAVE")
    /\ UNCHANGED <<at, socket, entries, list, late>>

\* A thread of the outbound channel has written a frame, and the callback of
\* the subscription runs. Where a new row stands does not matter here.
Hears(u, w) ==
    \E i \in 1..Len(frames[u][w]) :
        /\ habits.ordered => i = 1
        /\ list' = [list EXCEPT ![u] =
                       IF frames[u][w][i] = "JOIN"
                       THEN Add(@, [id |-> w], Append(@.data, [id |-> w]))
                       ELSE Delete(@, w)]
        /\ frames' = [frames EXCEPT ![u][w] =
                         SubSeq(@, 1, i - 1) \o SubSeq(@, i + 1, Len(@))]
        /\ UNCHANGED <<vars, at, socket, entries, late>>

-----------------------------------------------------------------------------

Browse(u) ==
    \/ \E c \in Contents \cup {None} : Turn(u, c)
    \/ \E s \in Sessions : OnConnect(u, s)
    \/ \E w \in Users : Hears(u, w)
    \/ FetchFails(u) \/ Subscribing(u) \/ Drop(u) \/ ConnectFails(u) \/ CloseTab(u)

PageNext ==
    /\ \/ habits = None /\ Next /\ UNCHANGED tabs
       \/ habits # None /\ \/ \E u \in Users : Browse(u)
                           \/ \E s \in Sessions : HandlerStep(s) \/ Notice(s) \/ Register(s)
    /\ UNCHANGED <<setting, habits>>

PageSpec == PageInit /\ [][PageNext]_pageVars

-----------------------------------------------------------------------------
(* Correctness.                                                             *)

WatchInv == PageTypeOK /\ NoGhost

\* No handler runs, no page is about to subscribe, and nothing is on its way.
Settled(u) == /\ Connected(u) /\ at[u] \in entries[u] /\ frames[u] = NoFrames
              /\ \A s \in Sessions : pc[s] = "idle"

Calm == /\ habits # None /\ ~habits.leave /\ ~habits.drop /\ habits.ordered
        /\ ~setting.overlap /\ ~setting.unsubscribe /\ ~setting.delete

\* The page of a content shows exactly the users the server lists as watching
\* it, when nothing is under way, if tabs only ever show one content, no
\* connection breaks, no content is deleted, the handlers run one after
\* another and the frames about one viewer arrive in order. When the broker is
\* late, some may be missing, but nobody is shown who has left. (The code does
\* not see to the order: a LEAVE that overtakes the JOIN of the same viewer
\* leaves him on the page, and a JOIN that overtakes the LEAVE before it keeps
\* him off. A reader who leaves the page and comes back is still listed, gets
\* no JOINs, and sees an empty list.)
PageShowsWatchers ==
    Calm =>
        \A u \in Users : Settled(u) =>
            /\ Ids(list[u]) \subseteq watchingUsers[at[u]]
            /\ habits.prompt => Ids(list[u]) = watchingUsers[at[u]]

\* A page that is connected and holds an entry for its content has a live
\* subscription behind it, whether connections break or readers turn from page
\* to page. (When both happen, an entry outlives its connection, and the page
\* never hears anything.)
EntriesAreLive ==
    habits # None /\ ~(habits.leave /\ habits.drop) =>
        \A u \in Users : Connected(u) /\ at[u] \in entries[u] =>
            <<"watch", at[u]>> \in subs[socket[u].session]
=============================================================================
