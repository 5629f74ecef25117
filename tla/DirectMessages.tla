--------------------------- MODULE DirectMessages ---------------------------
(***************************************************************************)
(* The messages of one conversation: saving them (a database transaction   *)
(* with a push and a Redis cache write inside it), relaying them over      *)
(* Redis pub/sub, marking them as read, and the page that shows them: its  *)
(* list store, the requests of its pages on their way, and the messages    *)
(* relayed to it in between.                                               *)
(*                                                                         *)
(* Message m stands for its row and for the request that sends it. Ids     *)
(* come from an AUTO_INCREMENT counter when the row is inserted.           *)
(***************************************************************************)
EXTENDS FiniteSets, Integers, ListStore, SequencesExt

CONSTANTS
    Users,         \* the two participants
    MaxMessages,   \* how many messages are ever sent
    Limit,         \* page size a client asks for
    CacheSize,     \* messages the cache keeps (100)
    MaxAsked,      \* requests of one page under way
    Patience       \* the values of patient to explore, see below

Messages == 1..MaxMessages

\* The conversations a page can be open on: this one, and another that holds
\* one message, which nobody else sees.
Conversations == {"this", "other"}

Rows == [id : Messages \cup {0}, isRead : BOOLEAN]

OtherRows == <<[id |-> 0, isRead |-> TRUE]>>

Cursors == Messages \cup {0, None}

\* The page that answers a request.
Answers == [rows : Seq(Rows), more : BOOLEAN, cursor : Cursors]

ASSUME MessagesAssumption ==
    /\ Cardinality(Users) = 2
    /\ MaxMessages \in Nat
    /\ Limit \in Nat \ {0} /\ CacheSize \in Nat \ {0}
    /\ MaxAsked \in Nat \ {0} /\ Patience \subseteq BOOLEAN
    /\ None \notin Users \cup Messages \cup {0} /\ None \notin Conversations
    /\ None \notin Answers /\ \A S \in SUBSET Messages : S # None

VARIABLES
    stage,      \* progress of each message's request
    sender,     \* dm_message.user_id
    isRead,     \* dm_message.is_read
    cache,      \* dm:cache:{dmId}: what saveMessage added, oldest first
    channel,    \* messages on their way through the pub/sub channel
    page,       \* each participant's message store
    asked,      \* the requests of each participant's page under way
    due,        \* what each page owes its reader, see below
    patient     \* nobody leaves a conversation while a request is under way

server == <<stage, sender, isRead, cache, channel>>
client == <<page, asked, due>>
vars == <<server, client, patient>>

Stages == {"none", "inserted", "cached", "trimmed", "committed", "rolledBack"}

Lists == [data : Seq(Rows), more : BOOLEAN, cursor : Cursors, loading : BOOLEAN,
          params : Conversations \cup {None}]

\* answer: the page, once the server has made it. read: the messages that were
\* read when the page was asked for; start: those stored when the first page
\* was made.
Requests == [params : Conversations, base : Seq(Rows), cursor : Cursors,
             answer : {None} \cup Answers, start : SUBSET Messages, read : SUBSET Messages]

\* start: the messages stored when the first page shown was made (None before);
\* live: the messages relayed to the page while no request was under way.
Dues == [start : {None} \cup SUBSET Messages, live : SUBSET Messages]

NothingDue == [start |-> None, live |-> {}]

TypeOK ==
    /\ stage \in [Messages -> Stages]
    /\ sender \in [Messages -> Users \cup {None}]
    /\ isRead \in [Messages -> BOOLEAN]
    /\ cache \in Seq([id : Messages, isRead : BOOLEAN])
    /\ channel \subseteq Messages
    /\ page \in [Users -> Lists]
    /\ asked \in [Users -> Seq(Requests)]
    /\ due \in [Users -> Dues]
    /\ patient \in Patience

Init ==
    /\ stage = [m \in Messages |-> "none"]
    /\ sender = [m \in Messages |-> None]
    /\ isRead = [m \in Messages |-> FALSE]
    /\ cache = <<>>
    /\ channel = {}
    /\ page = [u \in Users |-> Cleared]
    /\ asked = [u \in Users |-> <<>>]
    /\ due = [u \in Users |-> NothingDue]
    /\ patient \in Patience

Stored == {m \in Messages : stage[m] = "committed"}

-----------------------------------------------------------------------------
(* DmService.saveMessage and DmMessageController.sendMessage.               *)

Moves(m, from, to) == stage[m] = from /\ stage' = [stage EXCEPT ![m] = to]

\* messageRepository.save; then the receiver is pushed the message and a
\* notification (see NotificationDelivery), nothing of which is kept here.
Insert(m, u) ==
    /\ \A k \in Messages : k < m => stage[k] # "none"
    /\ Moves(m, "none", "inserted")
    /\ sender' = [sender EXCEPT ![m] = u]
    /\ UNCHANGED <<isRead, cache, channel, client, patient>>

\* ZADD of the response, as it was when the message was saved.
AddToCache(m) ==
    /\ Moves(m, "inserted", "cached")
    /\ cache' = Append(cache, [id |-> m, isRead |-> FALSE])
    /\ UNCHANGED <<sender, isRead, channel, client, patient>>

\* ZREMRANGEBYRANK 0 -101: everything but the newest CacheSize entries.
Trim(m) ==
    /\ Moves(m, "cached", "trimmed")
    /\ cache' = IF Len(cache) > CacheSize
                THEN SubSeq(cache, Len(cache) - CacheSize + 1, Len(cache))
                ELSE cache
    /\ UNCHANGED <<sender, isRead, channel, client, patient>>

\* The commit, then convertAndSend to the dm channel; a failure of the latter
\* is the loss of the message there.
Commit(m) ==
    /\ Moves(m, "trimmed", "committed")
    /\ channel' = channel \cup {m}
    /\ UNCHANGED <<sender, isRead, cache, client, patient>>

\* A push, a Redis command or the commit fails; the cache keeps what it has.
Rollback(m) ==
    /\ stage[m] \in {"inserted", "cached", "trimmed"}
    /\ stage' = [stage EXCEPT ![m] = "rolledBack"]
    /\ UNCHANGED <<sender, isRead, cache, channel, client, patient>>

\* The order of the page: createdAt, descending.
Newer(r, s) == r.id > s.id

\* The rows in that order; sorting is stable.
Sorted(rows) ==
    LET Before(i, j) == \/ Newer(rows[i], rows[j])
                        \/ rows[i].id = rows[j].id /\ i < j
        Place(j) == Cardinality({i \in DOMAIN rows : Before(i, j)}) + 1
    IN  [n \in DOMAIN rows |-> rows[CHOOSE j \in DOMAIN rows : Place(j) = n]]

WithRelayed(list, m) ==
    LET row == [id |-> m, isRead |-> FALSE]
    IN  Add(list, row, Sorted(Append(list.data, row)))

\* Mutation: the subscription of a conversation outlives its page.
RelayToAny(m, present) ==
    /\ m \in channel
    /\ channel' = channel \ {m}
    /\ \A u \in present : page[u].params # None
    /\ page' = [u \in Users |->
                   IF u \in present THEN WithRelayed(page[u], m) ELSE page[u]]
    /\ due' = [u \in Users |->
                  IF u \in present /\ asked[u] = <<>>
                  THEN [due[u] EXCEPT !.live = @ \cup {m}] ELSE due[u]]
    /\ UNCHANGED <<stage, sender, isRead, cache, asked, patient>>

\* RedisSubscriber.onMessage relays to the room; the page of a participant who
\* has it open adds the message as it was saved, unread.
Relay(m, present) ==
    /\ m \in channel
    /\ channel' = channel \ {m}
    /\ \A u \in present : page[u].params = "this"
    /\ page' = [u \in Users |->
                   IF u \in present THEN WithRelayed(page[u], m) ELSE page[u]]
    /\ due' = [u \in Users |->
                  IF u \in present /\ asked[u] = <<>>
                  THEN [due[u] EXCEPT !.live = @ \cup {m}] ELSE due[u]]
    /\ UNCHANGED <<stage, sender, isRead, cache, asked, patient>>

\* Pub/sub delivers at most once.
Lose(m) ==
    /\ m \in channel
    /\ channel' = channel \ {m}
    /\ UNCHANGED <<stage, sender, isRead, cache, client, patient>>

-----------------------------------------------------------------------------

\* DmService.markAllAsRead: the page asks for it when it opens and for each
\* message it is relayed; any time, as seen from here.
MarkAllAsRead(u) ==
    /\ isRead' = [m \in Messages |-> isRead[m] \/ (m \in Stored /\ sender[m] # u)]
    /\ UNCHANGED <<stage, sender, cache, channel, client, patient>>

-----------------------------------------------------------------------------
(* DmService.getMessages.                                                   *)

\* The greatest k elements of a set of ids (ORDER BY id DESC LIMIT k).
Newest(S, k) == {m \in S : Cardinality({n \in S : n > m}) < k}

Least(S) == CHOOSE m \in S : \A n \in S : m <= n

\* Mutation: asks for the rows of the page only.
FetchPageOnly(cursor) ==
    Newest({m \in Stored : cursor # None => m < cursor}, Limit)

\* findMessagesByCursor asks for one row more than the page.
Fetch(cursor) ==
    Newest({m \in Stored : cursor # None => m < cursor}, Limit + 1)

\* Mutation: a serializer that restores the response.
CastWorks(entry) == entry

\* Entries come back from the untyped JSON serializer as maps: the cast to
\* MessageResponse throws, and the catch turns to the database.
Cast(entry) == None

Cached == SubSeq(cache, IF Len(cache) > Limit THEN Len(cache) - Limit + 1 ELSE 1,
                 Len(cache))

CacheServes == Cached # <<>> /\ \A i \in 1..Len(Cached) : Cast(Cached[i]) # None

\* The rows S in the order of a page, those in read flagged as read.
PageOf(S, read, more) ==
    LET rows == {[id |-> m, isRead |-> m \in read] : m \in S}
    IN  [rows |-> Sorted(SetToSeq(rows)), more |-> more, cursor |-> IF S = {} THEN None ELSE Least(S)]

\* The first page, from the cache: there is more when the page is full.
CachePage ==
    LET entries == {Cached[i] : i \in 1..Len(Cached)}
    IN  PageOf({e.id : e \in entries}, {e.id : e \in {f \in entries : f.isRead}},
               Len(Cached) >= Limit)

\* A page from the database: the extra row tells whether there are more.
DbPage(cursor) ==
    LET rows == Fetch(cursor)
        S    == Newest(rows, Limit)
    IN  PageOf(S, {m \in S : isRead[m]}, rows # S)

\* getMessages.
GetMessages(cursor) ==
    IF cursor = None /\ CacheServes THEN CachePage ELSE DbPage(cursor)

OtherPage == [rows |-> OtherRows, more |-> FALSE, cursor |-> 0]

-----------------------------------------------------------------------------
(* The conversation page: its requests, and what becomes of their answers.  *)

Ask(u, request) ==
    asked' = [asked EXCEPT ![u] = Append(@,
                 [params |-> request.params, base |-> request.base,
                  cursor |-> request.cursor, answer |-> None, start |-> {},
                  read |-> {m \in Messages : isRead[m]}])]

MayLeave(u) == patient => asked[u] = <<>>

\* The page is opened, or turned to the other conversation after a cleanup:
\* updateParams, which fetches. (Until the page opens, the store may hold what
\* a late answer has left there.)
Open(u, c) ==
    /\ page[u].params # c
    /\ MayLeave(u) /\ Len(asked[u]) < MaxAsked
    /\ page' = [page EXCEPT ![u] =
                   Fetching(IF page[u].params = None THEN page[u] ELSE Cleared, c)]
    /\ Ask(u, FetchRequest(page'[u]))
    /\ due' = [due EXCEPT ![u] = NothingDue]
    /\ UNCHANGED <<server, patient>>

\* The page is left: clearData.
Leave(u) ==
    /\ page[u].params # None
    /\ MayLeave(u)
    /\ page' = [page EXCEPT ![u] = Cleared]
    /\ due' = [due EXCEPT ![u] = NothingDue]
    /\ UNCHANGED <<server, asked, patient>>

\* The reader scrolls up to the oldest message shown: fetchMore.
Scroll(u) ==
    /\ page[u].params # None /\ MayFetchMore(page[u])
    /\ Len(asked[u]) < MaxAsked
    /\ page' = [page EXCEPT ![u].loading = TRUE]
    /\ Ask(u, MoreRequest(page[u]))
    /\ UNCHANGED <<server, due, patient>>

\* The server answers a request; the answer is on its way.
Serve(u, i) ==
    /\ asked[u][i].answer = None
    /\ LET q == asked[u][i]
       IN  asked' = [asked EXCEPT ![u][i] =
               [q EXCEPT !.answer = IF q.params = "other" THEN OtherPage
                                                         ELSE GetMessages(q.cursor),
                         !.start = IF q.params = "this" THEN Stored ELSE {}]]
    /\ UNCHANGED <<server, page, due, patient>>

Settled(u, i) == asked' = [asked EXCEPT ![u] = RemoveAt(@, i)]

\* The answer arrives, whatever the page shows by now.
Arrive(u, i) ==
    /\ asked[u][i].answer # None
    /\ LET q == asked[u][i]
       IN  /\ page' = [page EXCEPT ![u] = Answered(@, q, q.answer)]
           /\ due' = [due EXCEPT ![u].start = IF q.cursor = None THEN q.start ELSE @]
    /\ Settled(u, i)
    /\ UNCHANGED <<server, patient>>

\* The request fails or its answer is lost.
FailToArrive(u, i) ==
    /\ page' = [page EXCEPT ![u] = Failed(@)]
    /\ Settled(u, i)
    /\ UNCHANGED <<server, due, patient>>

-----------------------------------------------------------------------------

Send(m) ==
    \/ \E u \in Users : Insert(m, u)
    \/ AddToCache(m) \/ Trim(m) \/ Commit(m) \/ Rollback(m)

Browse(u) ==
    \/ \E c \in Conversations : Open(u, c)
    \/ Leave(u) \/ Scroll(u)
    \/ \E i \in 1..Len(asked[u]) : Serve(u, i) \/ Arrive(u, i) \/ FailToArrive(u, i)

Next ==
    \/ \E m \in Messages : \/ Send(m) \/ Lose(m)
                           \/ \E present \in SUBSET Users : Relay(m, present)
    \/ \E u \in Users : MarkAllAsRead(u) \/ Browse(u)

Spec == Init /\ [][Next]_vars

-----------------------------------------------------------------------------
(* Correctness.                                                             *)

\* The page of participant u is open, and no request of it is under way.
AtRest(u) == page[u].params # None /\ asked[u] = <<>>

\* A message a participant is shown, in a page or by a relay, is stored: no
\* failed request leaves one behind on a screen.
NothingShownVanishes ==
    \A u \in Users : Ids(page[u]) \subseteq Stored \cup {0}

MessagesInv == TypeOK /\ NothingShownVanishes

\* A message that was read when its page was asked for is shown as read.
ReadStaysRead ==
    \A u \in Users : \A i \in 1..Len(asked[u]) :
        LET q == asked[u][i]
        IN  q.answer # None => \A k \in 1..Len(q.answer.rows) :
                LET row == q.answer.rows[k] IN row.id \in q.read => row.isRead

\* A page that has no more to fetch shows every message that was stored when
\* its first page was made, whatever is committed, rolled back or relayed
\* between the pages, if nobody leaves it while a request is under way.
WalkIsComplete ==
    \A u \in Users :
        patient /\ AtRest(u) /\ due[u].start # None /\ ~page[u].more
            => due[u].start \subseteq Ids(page[u])

\* A message that was relayed to the page while no request was under way stays
\* there until the reader leaves: no answer that is put together from older
\* rows takes it away.
LiveKept ==
    \A u \in Users : patient => due[u].live \subseteq Ids(page[u])

\* A page at rest shows messages of its own conversation only, if nobody
\* leaves a conversation while a request of it is under way. (Otherwise the
\* answer still lands, in whatever conversation is open by then.)
OwnRows ==
    \A u \in Users :
        patient /\ AtRest(u) => Ids(page[u]) \subseteq
            (IF page[u].params = "other" THEN {0} ELSE Messages)
=============================================================================
