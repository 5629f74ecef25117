------------------------------ MODULE Playlists ------------------------------
(***************************************************************************)
(* Playlists, their contents and their subscriptions: PlaylistService.     *)
(*                                                                         *)
(* A request is one transaction. Its first statement fixes what it sees    *)
(* (repeatable read), so all its reads are one step; the changed entities  *)
(* are flushed when it commits, which is the other step. An entity that    *)
(* was changed is written back as a whole row; a row that is no longer     *)
(* there makes the flush fail and the transaction roll back.               *)
(***************************************************************************)
EXTENDS FiniteSets, Integers

CONSTANTS
    Users, Playlists, Contents, Titles,
    Requests,     \* the transactions that are ever run
    None

ASSUME PlaylistAssumption ==
    None \notin Titles \cup Contents \cup [owner : Users, title : Titles, total : Nat]

VARIABLES
    setting,       \* chosen once
    list,          \* committed row of each playlist
    used,          \* ids handed out so far
    subscription,  \* rows of playlists_subscription
    mapping,       \* rows of playlists_contents
    pc, tx         \* progress of each request; what it does and what it has read

rows == <<list, used, subscription, mapping>>
vars == <<setting, list, used, subscription, mapping, pc, tx>>

Ops == {"subscribe", "unsubscribe", "update", "delete", "add", "remove"}

\* overlap: transactions run at the same time; unique: the table has the
\* unique constraint that the entity PlaylistSubscription declares (generated
\* tables have it, schema.sql does not).
Settings == [overlap : BOOLEAN, unique : BOOLEAN]

Rows          == [owner : Users, title : Titles, total : Nat]
Subscriptions == [id : Requests, user : Users, playlist : Playlists]
Mappings      == [id : Requests, playlist : Playlists, content : Contents]

\* row: the playlist as it was read; mine: the row to delete; held: the
\* contents of a playlist that is deleted with it.
Transactions == [op : Ops, user : Users, playlist : Playlists, row : Rows,
                 arg : Titles \cup Contents \cup {None},
                 mine : Subscriptions \cup Mappings \cup {None},
                 held : SUBSET Mappings]

TypeOK ==
    /\ setting \in Settings
    /\ list \in [Playlists -> Rows \cup {None}]
    /\ used \subseteq Playlists
    /\ subscription \subseteq Subscriptions
    /\ mapping \subseteq Mappings
    /\ pc \in [Requests -> {"new", "open", "done"}]
    /\ tx \in [Requests -> Transactions \cup {None}]

Init ==
    /\ setting \in Settings
    /\ list = [p \in Playlists |-> None]
    /\ used = {}
    /\ subscription = {} /\ mapping = {}
    /\ pc = [r \in Requests |-> "new"]
    /\ tx = [r \in Requests |-> None]

SubscriptionsOf(u, p) == {s \in subscription : s.user = u /\ s.playlist = p}
SubscribersOf(p)      == {s \in subscription : s.playlist = p}
MappingsOf(p)         == {m \in mapping : m.playlist = p}
MappingsTo(p, c)      == {m \in MappingsOf(p) : m.content = c}

-----------------------------------------------------------------------------
(* The reads of a transaction.                                              *)

\* Request r has read what it needs (goes), or returns or throws at once.
Begin(r, goes, t) ==
    /\ pc[r] = "new"
    /\ setting.overlap \/ \A q \in Requests : pc[q] # "open"
    /\ pc' = [pc EXCEPT ![r] = IF goes THEN "open" ELSE "done"]
    /\ tx' = IF goes THEN [tx EXCEPT ![r] = t] ELSE tx
    /\ UNCHANGED rows

Transaction(op, u, p, arg, mine, held) ==
    [op |-> op, user |-> u, playlist |-> p, row |-> list[p], arg |-> arg,
     mine |-> mine, held |-> held]

TheOnly(S) == CHOOSE s \in S : TRUE

\* Already subscribed: return (or, with two rows, throw). No playlist: throw.
Subscribe(r, u, p) ==
    Begin(r, SubscriptionsOf(u, p) = {} /\ list[p] # None,
          Transaction("subscribe", u, p, None, None, {}))

\* An orphaned subscription throws, a doubled one too.
Unsubscribe(r, u, p) ==
    Begin(r, Cardinality(SubscriptionsOf(u, p)) = 1 /\ list[p] # None,
          Transaction("unsubscribe", u, p, None, TheOnly(SubscriptionsOf(u, p)), {}))

\* Mutation: any user may go on.
Exists(u, p) == list[p] # None

\* Only the owner may go on.
Owns(u, p) == list[p] # None /\ list[p].owner = u

UpdatePlaylist(r, u, p, title) ==
    Begin(r, Owns(u, p), Transaction("update", u, p, title, None, {}))

DeletePlaylist(r, u, p) ==
    Begin(r, Owns(u, p), Transaction("delete", u, p, None, None, MappingsOf(p)))

\* findUserIdsByPlaylistId selects entities where ids are expected: with a
\* subscriber to notify, the request fails (see Fail for one without).
AddContent(r, u, p, c) ==
    Begin(r, MappingsTo(p, c) = {} /\ list[p] # None /\ SubscribersOf(p) = {},
          Transaction("add", u, p, c, None, {}))

RemoveContent(r, u, p, c) ==
    Begin(r, Owns(u, p) /\ Cardinality(MappingsTo(p, c)) = 1,
          Transaction("remove", u, p, c, TheOnly(MappingsTo(p, c)), {}))

\* createPlaylist has nothing to read that matters here.
CreatePlaylist(u, p, title) ==
    /\ p \notin used
    /\ list' = [list EXCEPT ![p] = [owner |-> u, title |-> title, total |-> 0]]
    /\ used' = used \cup {p}
    /\ UNCHANGED <<subscription, mapping, pc, tx>>

-----------------------------------------------------------------------------
(* The commit of a transaction.                                             *)

End(r) ==
    /\ pc[r] = "open"
    /\ pc' = [pc EXCEPT ![r] = "done"]
    /\ tx' = [tx EXCEPT ![r] = None]

Doing(r, op) == pc[r] = "open" /\ tx[r].op = op

Max0(n) == IF n < 0 THEN 0 ELSE n

\* Mutation: the row is inserted again where it is gone.
Upsert(r, row) ==
    list' = IF row = tx[r].row THEN list ELSE [list EXCEPT ![tx[r].playlist] = row]

\* The row of request r's playlist is written back as row; an entity that did
\* not change is not written, and without the row the flush fails.
WriteBack(r, row) ==
    LET p == tx[r].playlist
    IN  /\ row # tx[r].row => list[p] # None
        /\ list' = IF row = tx[r].row THEN list ELSE [list EXCEPT ![p] = row]

\* Mutation: the constraint is on something else.
Unconstrained(s) == TRUE

\* The constraint of the entity, where the table has it.
MayInsert(s) == setting.unique => SubscriptionsOf(s.user, s.playlist) = {}

CommitSubscribe(r) ==
    LET s == [id |-> r, user |-> tx[r].user, playlist |-> tx[r].playlist]
    IN  /\ Doing(r, "subscribe")
        /\ MayInsert(s)
        /\ WriteBack(r, [tx[r].row EXCEPT !.total = @ + 1])
        /\ subscription' = subscription \cup {s}
        /\ End(r)
        /\ UNCHANGED <<used, mapping>>

\* Mutation: the subscription goes, the counter stays.
CommitWithoutCounting(r) ==
    /\ Doing(r, "unsubscribe")
    /\ tx[r].mine \in subscription
    /\ subscription' = subscription \ {tx[r].mine}
    /\ End(r)
    /\ UNCHANGED <<list, used, mapping>>

CommitUnsubscribe(r) ==
    /\ Doing(r, "unsubscribe")
    /\ tx[r].mine \in subscription
    /\ WriteBack(r, [tx[r].row EXCEPT !.total = Max0(@ - 1)])
    /\ subscription' = subscription \ {tx[r].mine}
    /\ End(r)
    /\ UNCHANGED <<used, mapping>>

CommitUpdate(r) ==
    /\ Doing(r, "update")
    /\ WriteBack(r, [tx[r].row EXCEPT !.title = tx[r].arg])
    /\ End(r)
    /\ UNCHANGED <<used, subscription, mapping>>

\* The contents read go with the playlist; a foreign key keeps it if there
\* are others. Subscriptions stay.
CommitDelete(r) ==
    LET p == tx[r].playlist
    IN  /\ Doing(r, "delete")
        /\ list[p] # None
        /\ MappingsOf(p) = tx[r].held
        /\ list' = [list EXCEPT ![p] = None]
        /\ mapping' = mapping \ tx[r].held
        /\ End(r)
        /\ UNCHANGED <<used, subscription>>

\* Mutation: no foreign key.
CommitAddAnyway(r) ==
    /\ Doing(r, "add")
    /\ mapping' = mapping \cup
           {[id |-> r, playlist |-> tx[r].playlist, content |-> tx[r].arg]}
    /\ End(r)
    /\ UNCHANGED <<list, used, subscription>>

\* The foreign key needs the playlist.
CommitAdd(r) ==
    /\ Doing(r, "add")
    /\ list[tx[r].playlist] # None
    /\ mapping' = mapping \cup
           {[id |-> r, playlist |-> tx[r].playlist, content |-> tx[r].arg]}
    /\ End(r)
    /\ UNCHANGED <<list, used, subscription>>

CommitRemove(r) ==
    /\ Doing(r, "remove")
    /\ tx[r].mine \in mapping
    /\ mapping' = mapping \ {tx[r].mine}
    /\ End(r)
    /\ UNCHANGED <<list, used, subscription>>

\* The transaction rolls back: its flush failed, or anything else did.
Fail(r) ==
    /\ End(r)
    /\ UNCHANGED rows

-----------------------------------------------------------------------------

Start(r) ==
    \E u \in Users, p \in used :
        \/ Subscribe(r, u, p)
        \/ Unsubscribe(r, u, p)
        \/ \E title \in Titles : UpdatePlaylist(r, u, p, title)
        \/ DeletePlaylist(r, u, p)
        \/ \E c \in Contents : AddContent(r, u, p, c) \/ RemoveContent(r, u, p, c)

Finish(r) ==
    \/ CommitSubscribe(r) \/ CommitUnsubscribe(r)
    \/ CommitUpdate(r) \/ CommitDelete(r)
    \/ CommitAdd(r) \/ CommitRemove(r)
    \/ Fail(r)

Next ==
    /\ \/ \E u \in Users, p \in Playlists, title \in Titles : CreatePlaylist(u, p, title)
       \/ \E r \in Requests : Start(r) \/ Finish(r)
    /\ UNCHANGED setting

Spec == Init /\ [][Next]_vars

-----------------------------------------------------------------------------
(* With overlapping transactions.                                           *)

\* Contents are in playlists that exist, though a playlist may be deleted
\* while somebody adds to it.
ContentsHavePlaylist == \A m \in mapping : list[m.playlist] # None

\* A deleted playlist is not brought back by a transaction that had read it.
DeletedStaysDeleted ==
    [][\A p \in used : list[p] = None => list'[p] = None]_vars

\* A user is subscribed to a playlist once, if transactions do not overlap or
\* the constraint is there.
OneSubscription ==
    ~setting.overlap \/ setting.unique =>
        \A s, t \in subscription :
            s.user = t.user /\ s.playlist = t.playlist => s = t

-----------------------------------------------------------------------------
(* With one transaction at a time.                                          *)

\* total_subscription counts the subscriptions.
CountMatches ==
    ~setting.overlap =>
        \A p \in Playlists :
            list[p] # None => list[p].total = Cardinality(SubscribersOf(p))

\* A content is in a playlist once.
OneMapping ==
    ~setting.overlap =>
        \A m, n \in mapping :
            m.playlist = n.playlist /\ m.content = n.content => m = n

\* A title only changes when an update by the owner commits.
TitleChangesByOwner ==
    \A p \in Playlists :
        list[p] # None /\ list'[p] # None /\ list'[p].title # list[p].title =>
            \E r \in Requests : /\ Doing(r, "update") /\ pc'[r] = "done"
                                 /\ tx[r].playlist = p /\ tx[r].user = list[p].owner

OwnerEditsAlone == [][~setting.overlap => TitleChangesByOwner]_vars

-----------------------------------------------------------------------------
(* The invariant that implies the others.                                   *)

\* What a transaction has read is still so.
Current(t) ==
    /\ list[t.playlist] = t.row
    /\ t.op = "subscribe" => SubscriptionsOf(t.user, t.playlist) = {}
    /\ t.op = "unsubscribe" => t.mine \in SubscriptionsOf(t.user, t.playlist)
    /\ t.op = "add" => MappingsTo(t.playlist, t.arg) = {}
    /\ t.op = "update" => t.row.owner = t.user

\* An open transaction has read a playlist; without overlap it is the only
\* one, and what it has read still holds when it commits.
OpenOK(r) ==
    /\ tx[r] \in Transactions
    /\ tx[r].playlist \in used
    /\ tx[r].op = "update" => tx[r].arg \in Titles
    /\ tx[r].op = "add" => tx[r].arg \in Contents
    /\ ~setting.overlap =>
           Current(tx[r]) /\ \A q \in Requests : pc[q] = "open" => q = r

\* A row's id is that of a request that is over, its playlist has been created.
RowsOK ==
    /\ IsFiniteSet(subscription)
    /\ \A p \in Playlists : list[p] # None => p \in used
    /\ \A s \in subscription : pc[s.id] = "done" /\ s.playlist \in used

\* Rows and open transactions fit each other: what one request leaves behind
\* for the next ones, whatever is open in between.
PlaylistInv ==
    /\ TypeOK
    /\ RowsOK
    /\ \A r \in Requests : pc[r] = "open" => OpenOK(r)
    /\ ContentsHavePlaylist
    /\ OneSubscription
    /\ CountMatches
    /\ OneMapping

=============================================================================
