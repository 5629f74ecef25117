# A TLA+ model of Mopl

Specifications, model-checking configurations and proofs for Mopl, a site where
people review films, series and matches, keep playlists, follow each other,
watch together and write to each other: its Spring Boot backend in
`src/src/main/java/team6/finalproject` (called `B/` below), and what its web
front end does with it. Of the front end there is only the compiled bundle,
`src/src/main/resources/static/assets/index-DfEnD8Gr.js` (`JS` below), whose
identifiers (`la`, `Vy`, `t5`, `w4`, ...) the modules quote.

`tlc -config X.cfg M` checks one run, `tlapm M.tla` one module's proofs.
`PROJECT.json` maps every definition to the lines it translates, lists the
runs, the mutations each property was tried against, the findings, the hazards
and the theorems.

## 1. The system

| Component | Where | State | Operations | What makes it hard |
|---|---|---|---|---|
| Log-in sessions | `B/global/security/jwt`, `B/domain/user/service`, `B/global/security/handler` | Redis: `jwt:refresh:user:{id}`, `jwt:access:by_refresh:{refresh}`, `jwt:access:active:{access}`; claims inside the tokens; `users.role`, `users.locked` | log-in (form, OAuth2), refresh, logout, role change, lock, filter check | one logical update is up to seven Redis commands; requests overlap, break off, and straddle database commits |
| Temporary passwords | `TempPasswordAuthenticationProvider`, `AuthService.resetPassword` | Redis `pw:temp:{email}` with a time to live | issue, log in with it, expire | expiry racing a log-in; two passwords valid at once |
| Notification delivery | `B/domain/notification`, `B/domain/sse` | `notifications` rows, SSE emitters in memory, a thread pool | publish, hand over after commit, push, connect, replay, heartbeat | registration racing commit; ids follow inserts, not commits; bounded pool; restart |
| Watch party | `WebSocketEventListener`, `AuthChannelInterceptor` | `watchingUsers`, a map of maps in memory | subscribe, disconnect, broadcast | handlers of different sessions interleave between map operations; broadcasts reorder |
| Presence | `PresenceManager`, `HeartbeatController`, `WatchingCleanupScheduler` | Redis keys; a map nothing fills | heartbeat, sweep | nothing reads what it writes |
| Direct messages | `B/domain/dm`, `RedisSubscriber` | `dm_message`, `conversation`, participants; Redis sorted set of the last hundred; pub/sub channel | open a room, send, relay, mark as read, page | cache written inside a transaction; pub/sub loses messages |
| Playlists | `B/domain/playlist` | playlists, their contents, subscriptions, a counter | create, edit, delete, add and remove contents, subscribe, unsubscribe | check-then-insert, read-modify-write of a whole row, rows left behind |
| Reviews | `B/domain/review`, `Content` | reviews; `total_rating`, `total_reviews` of the content | create, edit, delete | running average kept by read-modify-write |
| Follows | `B/domain/follow` | `follows` rows | follow, unfollow, count | check-then-insert |
| Contents and tags | `B/domain/content` | contents, tags, their relation | create, edit, delete, list | no transaction around create; tag names are unique |
| Import jobs | `B/domain/content/batch` | reader position, chunk, contents | read, process, write, schedule | failed calls, chunk rollback, stops half way, users and administrators on the same rows |
| Cursor paging | `*QueryRepositoryImpl`, `ContentRepositoryImpl`, `ReviewRepository` | none (queries) | one page after a cursor | ties, direction, page boundary, rows that change between pages |
| API client | `JS`:65 | access token in memory, refresh token in a cookie, queue of refused requests | send, refresh once, resend, sign in, sign out, restore | requests refused at the same time; sign-out against refresh; lost answers, reloads, other tabs |
| Event stream | `JS`:70-71, 180 | the stream, the store's flags and subscriptions | connect, retry, subscribe, unsubscribe | retries carry the old token; handlers outlive what the store knows |
| List stores | `JS`:65 | rows, cursor, loading flag of each list | fetch, fetch more, add, delete, clear | answers that arrive after the list has changed or been put to another use |
| Content and conversation page | `JS`:190, 198 | which page is open, one WebSocket, its subscriptions | turn, subscribe, unsubscribe, receive | subscriptions that outlive the connection; broadcasts before the broker listens |
| Accounts | `UserService`, `CustomOauth2UserService` | `users` | sign up, edit, find-or-create | unique e-mail against two requests at once |

How they interact: publishers (playlists, follows, direct messages) insert
notification rows inside their own transactions, and notification delivery
pushes them; a role change or lock calls the session registry; a WebSocket
connection is let in by the token filter's rules; a subscription to a
conversation marks its messages as read; the watch party looks contents up that
administrators delete. In the browser every page sends its requests through the
API client; its token opens the event stream and the WebSocket, and what these
push is added to the list stores that requests fill.

What makes each component correct:

- *Sessions*: a locked account or changed role ends the session at once; one
  concurrent log-in; a spent or revoked token never comes back.
- *Notifications*: what is committed reaches every open stream or comes with
  the next replay; nothing is pushed that rolls back; streams do not leak.
- *Watch party*: the list is exactly who watches, and the broadcasts add up to it.
- *Direct messages*: a walk through the pages is complete, nothing shown
  vanishes, read stays read; one room per pair of users.
- *Playlists*: one subscription per user and playlist, the counter counts
  them, only the owner edits, contents belong to a playlist that exists.
- *Reviews*: one review per user and content; the average is that of the reviews.
- *Follows*: one row per pair.
- *Contents*: tags and reviews belong to contents that exist.
- *Import*: every item of the source ends up stored once, without touching what
  users and administrators do to the same contents.
- *Browser*: tokens that expire never show; a sign-out is final; whoever is signed
  in hears what is pushed; a list shows what the server has, of one conversation
  or content, and no answer takes away what was pushed before.
- *Paging*: following the cursors shows each row once, in order, whatever
  happens to other rows meanwhile.

## 2. Plan

Order of work, most important behaviour first. *Done* is on disk and checked.

| | Modules | Abstract specification | State |
|---|---|---|---|
| A | `JwtSessions`, `SessionProperties` | `TokenLifecycle`, `SessionStore` | done |
| B | `SessionProofs` | refinement of `TokenLifecycle` and, for requests one by one, of `SessionStore` | done, all safety properties proved |
| C | `NotificationDelivery`, `DeliveryProofs` | | done, all its invariants proved |
| D | `WatchParty`, `WatchPage` in front of it, and `WatchProofs` | a map from contents to sets of watchers; `WatchPage` implements `WatchParty` | done, all its properties proved |
| E | `DirectMessages` with its page, over `ListStore`, and `MessageProofs`; opening a conversation is in `Relations` | | done, all its properties proved |
| F | `Playlists`; `ListProofs`, shared with J | | done, all its properties proved |
| G | `Catalog`: contents, tags and reviews | | done, all its properties proved with H |
| H | `ContentImport`, composed with `Catalog` on the contents rows; `CatalogProofs` | | done, all its properties proved |
| I | `Relations`: follow, unfollow, open a conversation | | done, its invariant proved with K |
| J | `CursorPaging`, `ListProofs` | the sorted sequence of rows cut in pages, as `Restart` and `PagesInOrder` state it | done, all its properties proved |
| K | `Accounts`: temporary passwords with log-in, sign-up and find-or-create races, password change, lock; `AccountProofs` | | done, all its properties proved |
| L | `ApiClient`, `EventStream` on top of it, `BrowserProofs` | one session of `JwtSessions` | done, all its invariants proved |

Composition: C takes the publishers of E, F and I as kinds of notification
(`Kinds`), because of a publisher only the moment of its push matters there. K
ends where a log-in is let in or refused and A begins there: A keeps of an
account its role and lock, K its address, password and lock. `ContentImport`
extends `Catalog`, `Relations` extends `Accounts`: their steps are transactions on
the same variables. `WatchPage` extends `WatchParty`: a page's steps take the
sessions' steps with them. `DirectMessages` and `WatchPage` both use `ListStore`.
`EventStream` extends `ApiClient`, whose server is A as one tab sees it: a pair is
registered, exchanged or gone. The other modules share no variables, as the components share
no tables beyond that.

## 3. Modules

Throughout: one action per step another actor can observe or interrupt (a Redis
command, a map operation, a database statement whose effect others see, a
commit), and nothing smaller. A database transaction works on the row as it
read it and writes the whole row at commit, because the entities have neither a
version column nor dynamic updates. Where a module defines an operator under a
comment `Mutation:`, nothing in the specification uses it: it is a plausible
wrong version of the definition that follows, and `PROJECT.json` says which
property notices when it takes that definition's place.

### JwtSessions

A pair is an access token and the refresh token generated with it; its claims
are the user, role and lock flag at that time. `refreshByUser`,
`accessByRefresh` and `accessActive` are the three key families of
`RedisRegistry`; `account` is the committed row; `pc` and `loc` are the request
threads. `Login`, `Arrive` (refresh, logout, role, lock, profile) start
requests, `Continue` executes their next Redis command or their commit, `Break`
ends one half way (a Redis error, a dead server), `Time` lets tokens run out.
Form and OAuth2 log-in register the same way and are one action. With
`Exclusive` requests about one account do not overlap.

`TokenLifecycle` says what holds under any overlap: each token is honoured
during one stretch of time. `SessionStore` says what users are promised: at most
one open session, opened with the present role of an unlocked account, and
account changes only while no session is open. `SessionProperties` states both
refinements and the invariants.

### NotificationDelivery

A note is a row and the transaction that inserts it; ids follow inserts. The
publisher's kind decides when the push happens: `event` after the commit through
`notiExecutor` (core threads, queue, extra threads, refusal, as
`ThreadPoolExecutor` does), `dm` inside the transaction, `subscription` never
(the published object is not the event type the listener takes). A stream is
registered, then reads what its client missed, then writes it; the client reads
what was written, leaves, comes back with the id of the last event it read.
`Write` to a client that has left fails and runs the emitter's callbacks.

### WatchParty

`watchingUsers` is the listener's map; each `ConcurrentHashMap` operation is a
step of the handler of one session (`Subscribe`, `Put`, `LookUp`,
`AnnounceWatcher`, `AnnounceSelf`; `Disconnect`, `Remove`, `AnnounceLeave`,
`LeaveEnds`). `announced` and `watcherCount` are what a page that has been open
all along makes of the broadcasts. `Unsubscribe` has no handler in the code and
changes only the session. `DeleteContent` makes the content lookup of a handler
throw. `setting`, chosen once, says what the environment does: handlers one by
one or overlapping, one session per user or several, whether pages are left
without disconnecting and contents deleted. Each invariant names in its premise
the settings under which the code provides it.

### ListStore

The store every list of the front end is an instance of (`la`), as operators on
its state: `Add` leaves a row alone that is there, `Fetching` empties the list
before it asks, `Answered` puts an answer together from the rows the request was
made with. A request is a record of what the store held then. `Delete` is the
filter of the code, said by the places of the rows that remain, because the
prover cannot look into `SelectSeq`; `DeleteIsFilter` in `MCWatch` has TLC compare
the two on every list of up to four rows.

### WatchPage

In front of each user's session is a tab: the page it is `at`, its one `socket`,
the `entries` of the store `w4` and the `list` of viewers. `Turn` is the effect of
the page with its cleanup, `OnConnect` and `Drop` the store's callbacks,
`Subscribing` the effect once there is a connection, `Register` the broker, which
takes a subscription on another thread than the listener's. The list's fetch asks
for a URL the server does not have, so it always fails (`FetchFails`). A broadcast
does not reach a page with the handler's step: the broker makes a frame of it for
each subscription it knows (`Sent`), and a thread of its outbound channel writes it
later, when the page `Hears` it. `frames` holds what is on its way to each tab, by the
viewer it is about, since frames about different viewers change different rows;
what is on its way when the subscription or the connection ends is lost. The
channel has many threads and `WebSocketConfig` does not set `preservePublishOrder`,
so frames may overtake one another. `habits` says whether readers
leave pages, connections drop, the broker is prompt and the frames about one viewer
stay in order (`ordered`, which the code does not see to); with `None` there are no
pages and the run is about `WatchParty` alone. `Calm` says when nothing of the
kind happens, frames are `ordered` and the handlers come one by one.

### DirectMessages

A message is its row and the request that sends it: inserted, added to the
cache, trimmed, committed and published, or rolled back at any of these points.
`Relay` and `Lose` are the pub/sub channel. `GetMessages` tries the cache for a
first page and falls back to the database (`CachePage`, `DbPage`). `page` is the
list store of each participant's conversation page, `asked` its requests under
way (`Lists` and `Requests` say what these hold): `Open`, `Leave` and `Scroll`
are the reader, `Serve` the server, `Arrive` the answer, which is taken whatever
the page shows by then. A second conversation with one message of its own is
there to turn to. `due` records what the page owes its reader, and decides
nothing; a `patient` reader does not leave while a request is under way. `Cast`
is the cast of a cache entry to `MessageResponse`, which always throws with the
serializer that `RedisConfig` installs: the cache is written and never served.
What that saves the program from is the point of the mutation `CastWorks`:
served entries would show rolled-back messages and take read marks back.
`Sorted` is the stable sort of the store, by the place of each row: the prover
cannot look into `SortSeq`, and `SortedIsSort` in `MCMessages` has TLC compare
the two on lists of up to four rows.

### Playlists

A request is a transaction of two steps. The first is all its reads: under
repeatable read they see one snapshot, that of the first statement (`Begin`).
The second is the commit (`Commit...`), where the changed `Playlist` is written
back as a whole row (`WriteBack`) and a row that is gone makes the flush fail.
Foreign keys keep a mapping's playlist; subscriptions have none. `setting` says
whether transactions overlap, and whether the table has the unique constraint of
the entity: a table generated by Hibernate has it, one made by `schema.sql` does not.
(The repository does not say which of the two is in use. Nothing in the configuration
runs `schema.sql`; production validates the tables it finds against the entities,
which those of `schema.sql` would not pass as they stand, by `users.locked` and
`reviews.rating_id` for example; `application-dev.yml` lets Hibernate generate them.
So both are modelled.) `AddContent` to a playlist with
subscribers fails as the code does: `findUserIdsByPlaylistId` selects entities
where ids are expected.

### CursorPaging

`Lists` names the five lists with a cursor, three of them in the variants that
order differently (contents by date, by number of reviews, by rate). A row is what a query can compare: its id, the value it is
sorted by (`key`), and `updated_at` of a playlist. Where the order ties rows, the
database may put them in any order. For each list `...OrderBy` is the
query's order and `...After` its cursor condition, both with the sort column and
direction of the request (`query`); `NextPage` takes one row more than the page,
as every service does, and sets the cursor to the last row shown. `Printed` is the way
of a rate through its cursor: the value of a `FLOAT` column is written as text, parsed,
and compared with the column as the decimal it is. `Grain` is how many values of
the column share a text. `Insert`,
`Delete` and `Edit` change the rows between pages; `steady` holds those that have
stayed as they were since the first page. `Reliable` lists
where cursor condition and order agree, for rates only where they print exactly
(`RatesPrintExactly`); where they do not, the properties say
nothing and section 4 says what happens.

### Catalog

Works like `Playlists`: the first step of a request is all its reads, the second
its commit. `CommitReview` writes the content back as the row that was read, with
the rating added. The average is kept as the sum it stands for (average times
number), so the rounding of floats is left out. `CommitPatch` replaces the
mappings by those of the request (`syncTags`), `CommitDeleteContent` is stopped by
foreign keys. `createContent` has no transaction; its steps are `SaveContent`,
`FindTag`, `SaveTag`, `SaveMapping` and `Created`, each of which commits, and
`Fail` may end it between any two. `setting` chooses overlap, tables generated by
Hibernate or those of `schema.sql` (which has no foreign key on reviews, but a unique key
on external ids), and which operations there are. `CommitImport` is the writer
of the import: one transaction for a chunk, upserts by external id, missing tags
and mappings.

### ContentImport

The scheduler's day (`NextDay`) runs the job three times (`Types`), each run
three steps (`Steps`); `reader` is the step's reader, `chunk` what was read and not
written. `FetchPage` and `FetchTeam` ask the source, whose answers are given per
day in `Sources`; `CallFails` is a call without a usable answer, which ends the
step like the last page does; `ChunkFails` rolls one chunk back and ends the run;
`Crash` ends the day. Every run has new parameters, so none of them resumes
another. `Processed` drops what the TMDB steps read in a run for matches. `Plain`
says of a day that no page of it is empty, which would end the reading, and that no
number stands for two different items.

### ApiClient

Pairs of tokens are numbered. `Send`, `Answer`, `Refused`, `Refreshed` and
`RefreshFails` follow one request of a page through the interceptors, with the
refresh it may make; `refreshing` is the flag (`Ec`), a request that is `waiting`
sits in the queue (`Jc`), one that is `stranded` was dropped from it. `auth` is the
auth store's own call, of which there is one at a time; `Restore` is the route
guard's. The server is `registered`, the pair the registry holds: `Exchange`
replaces it, a sign-out ends it only if the access token it carries is genuine
and has not expired. `other` is what another tab, which shares the cookie, has under
way: it asks with the cookie of that moment (`OtherTabAsks`), the server exchanges the
pair (`AnswerOtherTab`), and the browser sets the cookie when the answer arrives
(`OtherTabAnswered`), each a step that this tab's sign-out may come between.
`EndElsewhere`, `OtherTab`, `Reload` and lost answers only
happen where the tab is not `alone`. `out` and `tangled` record what the user did
and decide nothing. A sign-out counts as `out` unless a session is still under way
(`SessionUnderWay`): the server was not told, so that its registry still holds a
pair, and a refresh of this tab, or anything of another, has an answer to come.

### EventStream

`stream` is the store `t5` with its one `EventSource`. An effect of React is a
function on it, applied with the change that causes it (`Effect`, `Turns`). The
polyfill opens a stream (`Opens`), closes it for good on any refusal
(`IsRefused`), and asks again after a loss (`IsLost`, `Retries`) with the headers
it was made with, so that its token can be dead by then. `Unsubscribe` forgets a
handler it cannot detach while the stream is lost (`orphan`: such a handler goes
on handling, beside the one that is attached when the stream is back).

### Accounts

Transactions are two steps as in `Catalog`; finding and saving an OAuth2 user are
two transactions, a Redis command and the hand-over of a mail are steps of their
own. An account has the name of the request that created it. `Spelled` is an
address as somebody writes it: the database compares addresses without regard to
case (`Owners`, `Unique`), Redis keys do not. `SignIn` and `TryTemp` are
`TempPasswordAuthenticationProvider` up to and after its Redis command;
`TryPassword` is the `DaoAuthenticationProvider` that asks
`CustomUserDetailsService` next. A wrong temporary password lets the next provider
try, a locked account does not. `CommitEdit` writes the whole row back. `right` and
`ever` watch the log-ins under way: whose password has been right at every moment
since it started, whose at some moment (`Judge`). They decide nothing.

### Relations

Follows and rooms, looked up first and inserted afterwards. `FindRooms` is
`findDmIdByParticipants`, which throws when it finds two; `Shown` is
`findDmDetailById`, without whose answer a new room is rolled back.

## 4. Runs

### Passing

| Run | Question | Instance |
|---|---|---|
| `sessions_serial` | If the requests about an account do not overlap and none breaks off, is the registry the session store users are promised? | 2 users, 2 roles, 2 pairs, 2 threads, 1 expiry |
| `sessions_overlap` | What is left when they do overlap and one breaks off? Keys never mix sessions; tokens die once. | 2 users, 2 pairs, 2 threads, 1 failure, 1 expiry |
| `sessions_lock` | Does a lock that raced other requests take effect in the end? | 1 user who logs in and refreshes for ever, 2 pairs that are recycled |
| `delivery` | Do replay and push leave a gap, push too early, or repeat? | 2 users, 2 streams, pool 1-2 without queue; 2 notes with 1 restart, 3 notes for one user |
| `delivery_ends` | Is every event pushed or refused, read by a connected browser, and a dead stream dropped? | 1 user, 1 stream, 3 notes, pool of one thread and one waiting place |
| `watch` | Do the broadcasts add up to the map; is the list exact with one session per user; does anyone stay listed after leaving? Does the page show that list, over a live subscription? | 2 users, 2 contents, 3 sessions; handlers one by one with several tabs, handlers interleaved, one session per user; pages that hear frames later: whose readers stay, with a slow broker, with connections that drop and frames in any order, with readers who leave |
| `messages` | Are pages complete and monotone while messages are sent, fail, are relayed and read; does the page keep what was relayed to it, and show its own conversation only? | 3 messages, pages and cache of 1, one participant's page at a time, up to 2 requests of it under way; readers who wait for answers and readers who do not |
| `browser` | Do tokens expire unnoticed, does a sign-out hold, does anyone wait for ever, and does the tab hear its notifications? | 1 tab, 2 requests, 3 pairs; alone, or with other tabs, other devices, reloads and lost answers |
| `lists` | Is a deleted playlist gone, a user subscribed once, the counter exact, the title the owner's? And does a walk through a list show every row that stays, once and in order? | *Playlists*: 2 users, 1 playlist, 1 content, 2 titles, 5 requests; overlapping or one by one, with and without the constraint. *Paging*: pages of 2; every list and direction; the four sets of rows of `SomeWorlds`: tied keys, edits that move a row to the other end, five rows in one order and in two opposite orders. A behaviour is one of either (`MCLists`) |
| `catalog` | Do reviews, averages, tags and the import fit together? | 2 users, 3 requests at a time or one by one; two days of 4 and 5 items, with a team without matches on the first, new titles and a film that moved and is offered twice on the second; one fault; one request next to the import |
| `accounts` | Has an address one account, does a log-in decide rightly while everything it reads changes, and does opening a conversation find the room of the two? | 3 addresses, 1 OAuth2 identity, 2 passwords, 2 temporary ones, one account at first and 4 requests; four settings |

### Violations

Each of these checks one property that a document, comment or message of the
repository states, and TLC finds it violated by what the code does. The findings
in `PROJECT.json` quote the line.

| Run | What it shows |
|---|---|
| `late_login` | a log-in between invalidation and commit of a role change or lock survives it ("forced logout") |

What else the models showed where a premise of a property was left out; no run
records these:

- Two overlapping log-ins of a user both invalidate before either writes, and
  leave two active sessions, though `SecurityConfig` allows one at a time.
- A subscriber's transaction that read a playlist before the owner's edit writes
  the old title back with its counter; so do reviews, edits and imports that
  overlap on one content, with title and totals.
- A log-in that breaks off between two Redis commands leaves an active access
  token no key leads to: a later lock or role change does not end it.
- A direct message's notification is pushed inside the transaction, so a stream
  that registers and replays between push and commit misses it.
- Closing one of two tabs takes a viewer off the list; leaving the page without
  disconnecting keeps one on it, since there is no handler for unsubscribing.
- Opening conversation 7 lists the user as watching content 7: the listener takes
  the number of any destination.
- With overlapping handlers a repeated JOIN may follow the LEAVE of a user.
- A deleted content ends the loop of a disconnect and keeps the user listed
  under the contents not yet visited.
- The notification of a subscription is stored and never pushed:
  `subscribePlaylist` publishes a bare `NotificationDto`, for which there is no
  listener, although the repository's README promises subscriptions in real time.
- The first page of messages never comes from Redis (`Cast`).
- A temporary password asked for with capitals in the address is filed under
  that spelling and looked up in lower case, so it never lets anybody in.
  `SignInDecides` therefore speaks of lower case where it says who gets in.
- A temporary password works beside the ordinary one until it expires, and a
  change of password does not withdraw it.
- An overlapping lock, profile or role change writes the old password back.
- A person who comes through Google or Kakao with the address of an account that
  has a password is refused by the unique index at every attempt.
- Two overlapping follow requests leave two rows. Two overlapping openings of a
  conversation leave two rooms, and every later opening throws.
- Without the unique constraint two overlapping requests subscribe a user twice,
  and every later lookup of the pair throws. Two overlapping reviews of a user
  for one content are never stopped.
- The subscriptions of a deleted playlist stay, and unsubscribing from it fails.
- Editing or deleting a review leaves the content's totals as they were.
- A `createContent` that fails leaves a content with some of its tags.
- In tables of `schema.sql` reviews outlive their content.
- A team without matches ends the sports step, though the comment in
  `SportsDbItemReader` says that all teams are visited. Films and series share
  external ids, so a series may overwrite a film with the same number.
- Lists whose cursor does not continue their order: contents by rating or
  watcher count (no tie-break in the order; a rate that does not print exactly
  matches its own cursor again and comes twice, or hides others that print alike), playlists (the cursor compares
  `updatedAt` downwards for every sort key and direction, so that rows tied with the
  last one are skipped), reviews (sorted by `createdAt`, which no auditing
  listener sets, while the cursor compares ids), users (without a direction the
  order ascends and the cursor descends, and the front end's `ASCENDING` is not
  the `ASC` the query asks for). The list of conversations never announces a
  second page.
- *In the browser.* A refresh that fails drops the queue: the promises of the
  requests that waited never settle. A refresh under way when the user signs out
  sets a new cookie if the access token had expired, since the registry was not
  told, and so does the answer another tab was waiting for; a request refused after the user has signed in again may sign the new
  session out; a reload between the server's answer and its arrival leaves the
  cookie with a spent token.
- A stream that was lost comes back with the token it was made with. If that has
  expired, the server's 401 closes it for good, and the tab is without
  notifications until its auth data changes. A handler that could not be detached
  stays attached beside the new one, and outlives a sign-out. The conversation
  page subscribes to the stream once and not again after it was replaced.
- An answer to a page of a conversation that was left lands in the one opened
  meanwhile, and a message relayed while an answer is under way is overwritten.
- Two frames about one viewer that overtake each other leave a page's list wrong for
  good: a LEAVE before the JOIN it follows keeps him on it, a JOIN before the LEAVE
  it follows keeps him off, even with handlers one by one.
- A reader who leaves a content's page and comes back is still listed, so nobody
  is told of the return, and the page shows an empty list. One who turns pages
  while the connection is down finds an entry for a subscription that is gone. A
  first WebSocket connection that fails is not tried again.

### Bounds, and why they are enough

- Two requests, sessions or streams at a time meet in every interesting race:
  each hazard is between two actors on one record. Three sessions in
  `watch` let one user have two while another joins. Five requests in
  `lists` allow two that overlap after two that built the state and one more; they
  are numbered as they begin (`CONSTRAINT InTurn`), since nothing tells them apart.
- The paging part of `lists` walks through up to five rows in pages of two, so that there is a
  first, a middle and a last page; `Grain` is three, the least with a text below and
  one above what it was printed from, and one world holds rates that print exactly; the proofs need none of these bounds.
- `catalog` has four settings in `SomeModes`: requests that overlap without an
  import; one by one, with an administrator, without edits of reviews; the import
  and one user's request one by one; the import with an overlapping request.
  `MaxContents` leaves room for what the days bring and one content by
  hand, `MaxChunks` for every chunk of both days (no behaviour needs a fourteenth).
  `TagLists` has no, one and both tags. `MaxFaults` is one, since a fault ends a
  step, a run or a day and the next day starts from any of these.
- Two token pairs let a session be replaced; tokens are never reused within a
  run except in `sessions_lock`, where `Recycle` (in `MCSessions`) returns a pair
  nothing refers to any more, so that a finite set stands for endless log-ins
  and the liveness property is not met by running out of tokens.
- `MaxExpiries`, `MaxFailures`, `MaxCrashes`, `MaxNotes`, `MaxMessages` bound
  events of the environment. One failure at any point of any request gives every
  half-finished state; one restart every loss of memory.
- The pool has 4 to 8 threads and 1000 places in production, the cache 100
  entries, a replay 100 rows: the model takes the smallest values that reach
  each limit (no place, one place; one entry; one or two rows).
- `CONSTRAINT ThreeForOne` in `delivery`: a page of one row overflows with the
  third row at the earliest (one to resume from, two missed), so three rows are
  explored where that can happen: events of one user, one thread, no restart.
- `CONSTRAINT OneReader` in `messages` explores one participant's walk at a time;
  pages only read, so two of them cannot influence each other. `FewForImpatient`
  leaves the third message and read marks to patient readers, of whose pages the
  properties speak.
- Three pairs in `browser` are a session, the one a refresh makes of it, and a third
  for another tab, a second refresh or the next sign-in. In company the third is issued
  and goes no further (`CONSTRAINT FewerInCompany`): a session and what one refresh, of
  this tab or another, makes of it are the two that a sign-out can come between. Two requests are the one
  that refreshes and one that waits, is late, or is refused afterwards.
- `watch` explores pages in `Explored`: habits one at a time, with handlers one by
  one. Three sessions are one each and one that replaces a dropped one.
- Deadlock is not checked where these supplies run out: when every token, note
  or message is used up the model has nothing left to do, while the server waits
  for the next request.

Symmetry is used in the runs that check safety only.

- `accounts` has four settings in `SomeModes`: sign-ups, password changes, locks and
  log-ins that overlap; sign-ups and OAuth2 in both spellings; relations that
  overlap; relations one by one. Four requests are a second account, a room and
  two that race, or a reset, a mail's log-in, a lock and a password change.
  Two addresses are in use; where relations come one by one there are three, as
  without a third account the room of two others could not be mistaken for one's own.

### Fairness

- `sessions_lock`: a request that started takes its next step (weak fairness of
  each request thread: the servlet container runs it), and time passes, so
  tokens expire (weak fairness of expiry). Nothing forces a user to act.
- `delivery_ends`: a thread of the pool that has a task runs it, a connect
  request goes on, the heartbeat is scheduled every interval, the container calls
  back for a failed emitter, and a connected browser reads what arrives.
  Publishing, committing, connecting and leaving are free.
- `browser`: the polyfill's retry timer runs (weak fairness of `Retries`), and a
  stream that keeps trying is answered at some time before its connection breaks
  again (strong fairness of `Opens \/ IsRefused`: weak fairness would let every
  attempt be lost, which is a network that is down). Nothing forces a user to
  act, tokens to expire or a request to be answered.
- No other run assumes fairness, and no safety property depends on it.

## 5. Proofs

`SessionProofs` proves, for any sets of users, roles, pairs and threads and any
number of failures and expiries, with the assumption `SessionAssumption` of
`JwtSessions` alone:

- `RegistryInvariant`: `Spec => []RegistryInv`, which contains type correctness;
- `KeysAlwaysMatch`: `Spec => []KeysMatchTokens`, the part of it that says no key
  leads to another user's or another pair's token;
- `RegistryKeepsLifecycle`: the registry implements `TokenLifecycle`.

`KeysMatchTokens` alone is not inductive: a request writes keys from locals it
read several commands before. `RegistryInv` adds what the position of a request
says about its locals (`RequestOK`: which are set, that the pair it registers
belongs to its user) and who may write the keys of a pair that is being
registered (`RegistrationOK`: one request, in order, none of them written
before). The proof has one lemma per action, and lemmas that a step of one
request leaves the others' clauses alone. The refinement uses the same invariant:
each step deletes or writes at most one key and so moves at most one token's
stage; breaking off abandons the pair under registration.

Under the hypotheses `Exclusive` and `MaxFailures = 0`, those of the run
`sessions_serial`, it proves what is promised when requests about one account come
one by one and none breaks off (without either, the run `late_login` and section 4
show that it is not so):

- `SerialInvariant`: `Spec => []SerialInv`, and from it `OneSessionEach`,
  `LogoutIsForced` and `LockStays`;
- `RegistryImplementsStore`: the registry implements `SessionStore`.

Between any two Redis commands keys and account disagree, and `SerialInv` says by how
much: a live access token can be found from its user unless a request
is about to delete it (`Filed`), and tells the role and lock of the row
(`Agrees`); a request that will open a session or commit a change has no live token
of its user left (`Cleared`), knows which tokens can be left (`KnowsSession`)
and still holds the row as it is (`KnowsRow`). In the refinement `SetActive` opens the
store's session, the first of deletion and expiry closes it, `Commit` changes the
account, and every other command stutters.

`DeliveryProofs` proves, for any users, streams, rows, pool and queue sizes, page
of the replay and number of restarts, with the assumption of
`NotificationDelivery` alone, every invariant of the run `delivery`:

- `DeliveryIsSound`: types, nothing pushed before its commit, and at most two copies of a
  row on a stream;
- `ReplayMeetsPush`: `NoGap`.

For one stream and one row the push and the replay are two writers that do not
know of each other. `IInv` counts them: `PushAhead` and `ReplayAhead` say
which of them may still write, and `Counted` that what is written and what may be
written are two copies at most. `NoGap` needs that whoever is responsible has
written or still will: `Pushed` for a row committed after the registration (the
task that looks the streams up comes after the commit and finds the stream) and
`Replayed` for one committed before (the query comes after the registration and sees
the row). That a row a page could not hold stays excused rests on `Ahead`
never shrinking.

`WatchProofs` proves, for any sessions and contents, finitely many users and every
setting, with the assumptions of `WatchParty` and `WatchPage` alone, every
property of the run `watch`:

- `PartyInvariant` and `NobodyStaysListed` about the listeners alone;
- `PagesAreClients`: the specification with pages implements the one without, so
  what holds of the listeners holds behind any page. That gives
  `PagesLeaveNoGhosts`, `PagesListWatching` and `PagesHearEnough`;
- `LiveEntries` and `ShownAreWatching` about what the pages hold and show.

`PartyInv` adds to the types where a session stands when its handler runs
(`HandlerOK`). A listed user has a session that is subscribed or a handler on its
way to remove him (`NoGhost`), and with one session at a time (`OneTab`) whoever
subscribed is listed (`Listed`). In the middle of the one handler that runs the
broadcasts lag behind the map by what it has still to tell (`Told`, `Owes`). `PageInv` says of a page which session its socket belongs to
(`SocketOK`), what an entry stands for (`EntriesOK`), and, in calm settings, that a
viewer too many on a page is about to be taken off by a LEAVE and one that is missing
is still to be announced (`CalmOK`, `Shown`). These speak of what a page will show once it
has heard the frames under way (`Awaited`: the last frame about a viewer decides, and
without one the list), which sending a frame changes and hearing the first does not;
without frames it is the list. `Users` is finite because the code counts them;
`Combinations` pairs habits of pages only with settings in which sessions open watch
parties.

`AccountProofs` proves, for any requests, spellings, identities and passwords and
every setting, with the assumption of `Accounts` alone, every property of the run
`accounts`:

- `AccountIsOne`, `LogInDecides`, `RelationsHold`, from `Inductive`.

`IInv` says what an open transaction has read and may rely on (`Transactions`):
without the one-by-one settings next to nothing, and `OneAccount` rests on the unique
indexes that the commits check; with them (`OneByOne`) what it read is still so,
which gives `RoomOfTheTwo`. `LogInDecides` is about history: `Deciding` relates
the place of a log-in between the two providers to `right` and `ever`, whose own
connection `Books` keeps. It rests on two facts about the random temporary passwords:
none equals an ordinary one (`AccountsAssumption`), and none is issued twice (`SetTemp`).

`CatalogProofs` proves, for any users, contents, names, keys and requests, any sources,
chunk size and number of faults and every setting, with the assumptions of `Catalog` and
`ContentImport` alone, every property of the run `catalog`:

- `CatalogHolds` and `TotalsHold`, from `Inductive`;
- `ImportStoresAll`, from `NothingLost`.

`IInv` says what an open transaction may rely on (`TxOK`): the content it has read is
still the one it will write back, since ids are handed out once, and without overlap
the row has not changed (`Holds`); a key that a chunk did not find is still not
there, because nobody but the import stores keys and there is one chunk at a time
(`ImportOK`). `TotalsMatch` is about a sum over a set, a fold, which the prover
cannot unfold by induction: what one review adds (`TotalsOK`) comes from a least
counterexample among the finite sets of reviews (`LeastSubset`). `Covered` follows
an item of an undisturbed day from the source on: it is on a page not yet asked for
(`Fetched`, `Knows`), in the reader's buffer or the chunk, in the transaction
that writes it (`Sent`), or stored (`Done` for the steps that are over). What the
day needs is in `ImportComplete`: no fault, no empty page (which ends the reading), no
number with two different items.

`BrowserProofs` proves, for any number of requests, pairs and any solitude, every invariant
of the run `browser`:

- `BrowserInvariant`: types and one refresh at a time (`OneRefresh`);
- `AlwaysListens`: the handler is attached whenever there is a token and a
  connection (`StreamInv`);
- `SignOutAlwaysHolds`: after a sign-out the cookie and whatever is under way, here or in
  another tab, carry only pairs that are `Spent`: the registry does not hold them, so
  that no exchange makes a new pair of them (`OutInv`; a new pair takes a sign-in, which
  ends `out`);
- `AlwaysKeptSignedIn`: undisturbed, the registered pair is the one the tab has, presents
  or is about to get (`KeptInv`).

`MessageProofs` proves, for any number of messages, any page and cache size, any number
of requests of a page under way, and patient and impatient readers, with the assumption of
`DirectMessages` alone, every property of the run `messages`:

- `Shown` and `MarksStay` for every reader;
- `Complete`, `RelayedStay` and `RowsOfItsOwn` for the patient ones these properties are
  about, all from `Inductive`.

`IInv` follows a row from the database to the screen. `ShownStored` says of the rows a
page shows, of those a request was made with and of those in an answer on its way that
they are stored; what is relayed is too, since only a commit publishes (`channel`).
`MarksKept` compares answers with the marks at the time of the request, which are never
taken back. For a patient reader `PatientOK` ties the store to the one request that may be
under way (`RequestOK`): the page has every row of its walk down to its cursor
(`Passed`), the rows the request was made with are no fewer, and its answer has
those from there down to the next cursor (`Owed`). The last is a fact about the query:
`PageCovers` shows that the newest `Limit` of the newest `Limit + 1` rows leave out none
above their least one, and none at all if no row more came. `WalkIsComplete` alone
would not be inductive: it says nothing of a walk before its end.

`ListProofs` is about the two modules of the run `lists`.

Of `Playlists` it proves, for any users, playlists, contents and requests, every property
of the run about playlists (`PlaylistInvariant`, `ContentsAlwaysHavePlaylist`,
`SubscribedOnce`, `CountAlwaysMatches`, and the action properties
`DeletedAlwaysStaysDeleted` and `OwnerAloneEdits`). `PlaylistInv` is inductive
by what it says of rows and of open transactions (`RowsOK`, `OpenOK`): they are about
playlists that were created, and, one by one, the row a transaction will write back is
the present one and no other transaction is open. Counting subscriptions needs them
finite, which an invariant says and not an assumption.

Of `CursorPaging` it proves, for any page size and any rows and changes between the pages,
every property of the run about paging (`WalksAreComplete`,
`PagesStayInOrder`). The invariant is that between two pages the cursor separates what
was shown from what is to come (`CursorAlwaysSeparates`), wherever cursor
condition and order agree (`Reliable`).

Only model-checked: the liveness properties (`LockEventuallyBites`, `DeliveredInTheEnd`,
`GoneIsForgotten`, `StreamComesBack`), because the proof system has no rules for fairness
here, and the violation of section 4. Every invariant and every action
property that a passing run checks is a theorem. Nothing is assumed beyond the `ASSUME`s of
the modules, which TLC evaluates on every run; two of them, `DeleteIsFilter` and
`SortedIsSort`, stand in `MC` modules, compare operators on short lists, and are used by no
proof.

## 6. Not modelled

- *File uploads* (`S3Service`), mail transport, OAuth attribute mapping, DTOs and
  controllers without logic: input and output only.
- *Routing, CSRF and CORS rules* (`SecurityConfig`): configuration of a framework.
- *`InMemoryJwtRegistry`*: not instantiated; `RedisRegistry` is the one in use.
- *Presence*: the heartbeat writes Redis keys nobody reads and the cleanup
  scheduler sweeps a map nobody fills; no state of the program depends on it.
- *The rest of the web front end*: rendering, forms, routing beyond the guard, and
  the inside of the libraries in the bundle. The bundle has 198 lines, most of
  them licence headers, style strings, React, axios and icons; the application's
  own code is in lines 65, 71, 180, 183, 189, 190 and 198 (a line has up to 100,000
  characters) with the event stream polyfill (69-71) and the STOMP client
  (190-197) around it. The definitions above map to the lines among these that
  hold what they translate; the others hold nothing with a state to model.
- *Build, containers, CI*: no run-time behaviour.
- Signing and parsing of tokens, JSON and wording of messages are abstracted to
  the values they carry.
