----------------------------- MODULE ListProofs -----------------------------
(***************************************************************************)
(* Theorems about the two modules that MCLists puts together.              *)
(*                                                                         *)
(* Playlists: for any users, playlists, contents, titles and number of     *)
(* requests, in all four settings. CursorPaging: for any page size, any    *)
(* rows and any changes between the pages, the walks that are reliable     *)
(* show every row once.                                                    *)
(***************************************************************************)
EXTENDS Playlists, CursorPaging, FiniteSetTheorems, TLAPS

-----------------------------------------------------------------------------
(* Playlists.                                                               *)

\* How a step moves request r on, and that the others stay where they are.
Moves(r, step) ==
    /\ pc' = [pc EXCEPT ![r] = step]
    /\ \A q \in Requests \ {r} : tx'[q] = tx[q]

LEMMA EndMoves ==
  ASSUME TypeOK, NEW r \in Requests, End(r)
  PROVE  /\ Moves(r, "done")
         /\ pc' \in [Requests -> {"new", "open", "done"}]
         /\ tx' \in [Requests -> Transactions \cup {None}]
  BY DEF TypeOK, End, Moves

\* A playlist's row changes as a whole and neither appears nor vanishes.
LEMMA WriteBackEffect ==
  ASSUME TypeOK, NEW r \in Requests, tx[r] \in Transactions,
         NEW row \in Rows, WriteBack(r, row)
  PROVE  /\ list' \in [Playlists -> Rows \cup {None}]
         /\ \A p \in Playlists : list'[p] = None <=> list[p] = None
         /\ \A p \in Playlists \ {tx[r].playlist} : list'[p] = list[p]
         /\ list[tx[r].playlist] = tx[r].row => list'[tx[r].playlist] = row
  BY PlaylistAssumption DEF TypeOK, WriteBack, Transactions, Rows

LEMMA InvInit == Init => PlaylistInv
  <1> SUFFICES ASSUME Init PROVE PlaylistInv
    OBVIOUS
  <1>1. TypeOK
    BY DEF Init, TypeOK
  <1>2. RowsOK
    BY FS_EmptySet DEF Init, RowsOK
  <1>3. \A r \in Requests : pc[r] # "open"
    BY DEF Init
  <1>4. ContentsHavePlaylist /\ OneSubscription /\ CountMatches /\ OneMapping
    BY DEF Init, ContentsHavePlaylist, OneSubscription, CountMatches, OneMapping
  <1>5. QED
    BY <1>1, <1>2, <1>3, <1>4 DEF PlaylistInv

-----------------------------------------------------------------------------
(* The reads.                                                               *)

\* A transaction that goes on after its reads fits the rows it has read.
LEMMA BeginKeeps ==
  ASSUME PlaylistInv, UNCHANGED setting,
         NEW r \in Requests, NEW goes \in BOOLEAN, NEW t, Begin(r, goes, t),
         goes => /\ t \in Transactions
                 /\ t.playlist \in used
                 /\ t.op = "update" => t.arg \in Titles
                 /\ t.op = "add" => t.arg \in Contents
                 /\ Current(t)
  PROVE  PlaylistInv'
  <1>1. TypeOK'
    BY DEF PlaylistInv, TypeOK, Begin, rows
  <1>2. \A q \in Requests : pc[q] = "done" => pc'[q] = "done"
    BY DEF PlaylistInv, TypeOK, Begin
  <1>3. RowsOK'
    BY <1>2 DEF PlaylistInv, RowsOK, Begin, rows, TypeOK, Subscriptions
  <1>4. ASSUME NEW q \in Requests, pc'[q] = "open" PROVE OpenOK(q)'
    <2>1. CASE q = r
      <3>1. goes /\ tx'[q] = t
        BY <1>4, <2>1 DEF PlaylistInv, TypeOK, Begin
      <3>2. Current(t)'
        BY <3>1 DEF Begin, rows, Current, SubscriptionsOf, MappingsTo, MappingsOf
      <3>3. ~setting'.overlap => \A x \in Requests : pc'[x] = "open" => x = q
        BY <2>1 DEF PlaylistInv, TypeOK, Begin
      <3>4. QED
        BY <3>1, <3>2, <3>3 DEF OpenOK, Begin, rows, Current, SubscriptionsOf,
           MappingsTo, MappingsOf
    <2>2. CASE q # r
      <3>1. pc[q] = "open" /\ tx'[q] = tx[q]
        BY <1>4, <2>2 DEF PlaylistInv, TypeOK, Begin
      <3>2. setting.overlap
        BY <3>1 DEF Begin
      <3>3. QED
        BY <3>1, <3>2 DEF PlaylistInv, OpenOK, Begin, rows
    <2>3. QED
      BY <2>1, <2>2
  <1>5. (ContentsHavePlaylist /\ OneSubscription /\ CountMatches /\ OneMapping)'
    BY DEF PlaylistInv, Begin, rows, ContentsHavePlaylist, OneSubscription,
       CountMatches, OneMapping, SubscribersOf
  <1>6. QED
    BY <1>1, <1>3, <1>4, <1>5 DEF PlaylistInv

\* The one row that was found is among those looked for.
LEMMA TheOnlyIsIn ==
  ASSUME NEW S, Cardinality(S) = 1
  PROVE  TheOnly(S) \in S
  <1>1. S # {}
    BY FS_EmptySet
  <1>2. QED
    BY <1>1 DEF TheOnly

LEMMA StartKeeps ==
  ASSUME PlaylistInv, UNCHANGED setting, NEW r \in Requests, Start(r)
  PROVE  PlaylistInv'
  <1>1. PICK u \in Users, p \in used :
            \/ Subscribe(r, u, p)
            \/ Unsubscribe(r, u, p)
            \/ \E title \in Titles : UpdatePlaylist(r, u, p, title)
            \/ DeletePlaylist(r, u, p)
            \/ \E c \in Contents : AddContent(r, u, p, c) \/ RemoveContent(r, u, p, c)
    BY DEF Start
  <1> USE DEF Ops
  <1>2. /\ p \in Playlists
        /\ list[p] # None => list[p] \in Rows
        /\ \A S \in SUBSET subscription : S \subseteq Subscriptions
        /\ \A S \in SUBSET mapping : S \subseteq Mappings
    BY DEF PlaylistInv, TypeOK
  <1>3. CASE Subscribe(r, u, p)
    <2> DEFINE t == Transaction("subscribe", u, p, None, None, {})
               goes == SubscriptionsOf(u, p) = {} /\ list[p] # None
    <2>1. goes => t \in Transactions /\ t.op = "subscribe" /\ t.playlist = p /\ Current(t)
      BY <1>2 DEF Transaction, Transactions, Current
    <2>2. Begin(r, goes, t)
      BY <1>3 DEF Subscribe
    <2> HIDE DEF t
    <2>3. QED
      BY <2>1, <2>2, BeginKeeps
  <1>4. CASE Unsubscribe(r, u, p)
    <2> DEFINE mine == TheOnly(SubscriptionsOf(u, p))
               t == Transaction("unsubscribe", u, p, None, mine, {})
               goes == Cardinality(SubscriptionsOf(u, p)) = 1 /\ list[p] # None
    <2>1. goes => mine \in SubscriptionsOf(u, p)
      BY TheOnlyIsIn
    <2>2. goes => mine \in Subscriptions
      BY <2>1, <1>2 DEF SubscriptionsOf
    <2> HIDE DEF mine
    <2>3. goes => t \in Transactions /\ t.op = "unsubscribe" /\ t.playlist = p /\ Current(t)
      BY <1>2, <2>1, <2>2 DEF Transaction, Transactions, Current
    <2>4. Begin(r, goes, t)
      BY <1>4 DEF Unsubscribe, mine
    <2> HIDE DEF t
    <2>5. QED
      BY <2>3, <2>4, BeginKeeps
  <1>5. ASSUME NEW title \in Titles, UpdatePlaylist(r, u, p, title) PROVE PlaylistInv'
    <2> DEFINE t == Transaction("update", u, p, title, None, {})
    <2>1. Owns(u, p) => /\ t \in Transactions /\ t.op = "update" /\ t.playlist = p
                        /\ t.arg = title /\ Current(t)
      BY <1>2 DEF Transaction, Transactions, Current, Owns
    <2>2. Begin(r, Owns(u, p), t)
      BY <1>5 DEF UpdatePlaylist
    <2>3. Owns(u, p) \in BOOLEAN
      BY DEF Owns
    <2> HIDE DEF t
    <2>4. QED
      BY <2>1, <2>2, <2>3, BeginKeeps
  <1>6. CASE DeletePlaylist(r, u, p)
    <2> DEFINE t == Transaction("delete", u, p, None, None, MappingsOf(p))
    <2>1. MappingsOf(p) \subseteq Mappings
      BY <1>2 DEF MappingsOf
    <2>2. Owns(u, p) => t \in Transactions /\ t.op = "delete" /\ t.playlist = p /\ Current(t)
      BY <1>2, <2>1 DEF Transaction, Transactions, Current, Owns
    <2>3. Begin(r, Owns(u, p), t)
      BY <1>6 DEF DeletePlaylist
    <2>4. Owns(u, p) \in BOOLEAN
      BY DEF Owns
    <2> HIDE DEF t
    <2>5. QED
      BY <2>2, <2>3, <2>4, BeginKeeps
  <1>7. ASSUME NEW c \in Contents, AddContent(r, u, p, c) PROVE PlaylistInv'
    <2> DEFINE t == Transaction("add", u, p, c, None, {})
               goes == MappingsTo(p, c) = {} /\ list[p] # None /\ SubscribersOf(p) = {}
    <2>1. goes => /\ t \in Transactions /\ t.op = "add" /\ t.playlist = p
                  /\ t.arg = c /\ Current(t)
      BY <1>2 DEF Transaction, Transactions, Current
    <2>2. Begin(r, goes, t)
      BY <1>7 DEF AddContent
    <2> HIDE DEF t
    <2>3. QED
      BY <2>1, <2>2, BeginKeeps
  <1>8. ASSUME NEW c \in Contents, RemoveContent(r, u, p, c) PROVE PlaylistInv'
    <2> DEFINE mine == TheOnly(MappingsTo(p, c))
               t == Transaction("remove", u, p, c, mine, {})
               goes == Owns(u, p) /\ Cardinality(MappingsTo(p, c)) = 1
    <2>1. goes => mine \in Mappings
      BY TheOnlyIsIn, <1>2 DEF MappingsTo, MappingsOf
    <2> HIDE DEF mine
    <2>2. goes => t \in Transactions /\ t.op = "remove" /\ t.playlist = p /\ Current(t)
      BY <1>2, <2>1 DEF Transaction, Transactions, Current, Owns
    <2>3. Begin(r, goes, t)
      BY <1>8 DEF RemoveContent, mine
    <2> HIDE DEF t
    <2>4. QED
      BY <2>2, <2>3, BeginKeeps DEF Owns
  <1>9. QED
    BY <1>1, <1>3, <1>4, <1>5, <1>6, <1>7, <1>8

-----------------------------------------------------------------------------
(* The commits.                                                             *)

\* Without overlap no other request is open while r ends.
LEMMA NoOtherOpen ==
  ASSUME PlaylistInv, NEW r \in Requests, pc[r] = "open", Moves(r, "done"),
         UNCHANGED setting, ~setting.overlap
  PROVE  \A q \in Requests : pc'[q] # "open"
  BY DEF PlaylistInv, TypeOK, OpenOK, Moves

\* With overlap the others only need what they have read to be well-formed.
LEMMA OthersOpenOK ==
  ASSUME PlaylistInv, NEW r \in Requests, pc[r] = "open", Moves(r, "done"),
         UNCHANGED <<setting, used>>
  PROVE  \A q \in Requests : pc'[q] = "open" => OpenOK(q)'
  <1> SUFFICES ASSUME NEW q \in Requests, pc'[q] = "open" PROVE OpenOK(q)'
    OBVIOUS
  <1>1. q # r /\ pc[q] = "open" /\ tx'[q] = tx[q]
    BY DEF PlaylistInv, TypeOK, Moves
  <1>2. setting.overlap
    BY NoOtherOpen
  <1>3. QED
    BY <1>1, <1>2 DEF PlaylistInv, OpenOK

\* A step that ends r without touching rows keeps everything.
LEMMA FailKeeps ==
  ASSUME PlaylistInv, UNCHANGED setting, NEW r \in Requests, Fail(r)
  PROVE  PlaylistInv'
  <1>1. pc[r] = "open" /\ UNCHANGED <<list, used, subscription, mapping>>
    BY DEF Fail, End, rows
  <1>2. Moves(r, "done") /\ TypeOK'
    BY <1>1, EndMoves DEF Fail, PlaylistInv, TypeOK
  <1>3. RowsOK'
    BY <1>1, <1>2 DEF PlaylistInv, TypeOK, RowsOK, Moves, Subscriptions
  <1>4. \A q \in Requests : pc'[q] = "open" => OpenOK(q)'
    BY <1>1, <1>2, OthersOpenOK
  <1>5. (ContentsHavePlaylist /\ OneSubscription /\ CountMatches /\ OneMapping)'
    BY <1>1 DEF PlaylistInv, ContentsHavePlaylist, OneSubscription,
       CountMatches, OneMapping, SubscribersOf
  <1>6. QED
    BY <1>2, <1>3, <1>4, <1>5 DEF PlaylistInv

LEMMA SubscribersFinite ==
  ASSUME RowsOK, NEW p
  PROVE  IsFiniteSet(SubscribersOf(p)) /\ Cardinality(SubscribersOf(p)) \in Nat
  <1>1. IsFiniteSet(SubscribersOf(p))
    BY FS_Subset DEF RowsOK, SubscribersOf
  <1>2. QED
    BY <1>1, FS_CardinalityType

LEMMA SubscribeKeeps ==
  ASSUME PlaylistInv, UNCHANGED setting, NEW r \in Requests, CommitSubscribe(r)
  PROVE  PlaylistInv'
  <1> DEFINE p == tx[r].playlist
             u == tx[r].user
             s == [id |-> r, user |-> u, playlist |-> p]
             row == [tx[r].row EXCEPT !.total = @ + 1]
  <1>1. pc[r] = "open" /\ tx[r].op = "subscribe" /\ OpenOK(r)
    BY DEF CommitSubscribe, Doing, PlaylistInv
  <1>2. tx[r] \in Transactions /\ p \in Playlists /\ p \in used
    BY <1>1 DEF OpenOK, Transactions
  <1>3. row \in Rows /\ s \in Subscriptions /\ row.total = tx[r].row.total + 1
    BY <1>2 DEF Transactions, Rows, Subscriptions
  <1>4. TypeOK
    BY DEF PlaylistInv
  <1>5. /\ list' \in [Playlists -> Rows \cup {None}]
        /\ \A q \in Playlists : list'[q] = None <=> list[q] = None
        /\ \A q \in Playlists \ {p} : list'[q] = list[q]
        /\ list[p] = tx[r].row => list'[p] = row
    <2>1. WriteBack(r, row)
      BY DEF CommitSubscribe
    <2> HIDE DEF row
    <2>2. QED
      BY <1>2, <1>3, <1>4, <2>1, WriteBackEffect
  <1>6. Moves(r, "done") /\ TypeOK'
    BY <1>3, <1>4, <1>5, EndMoves DEF CommitSubscribe, TypeOK
  <1>7. subscription' = subscription \cup {s} /\ UNCHANGED <<used, mapping>>
    BY DEF CommitSubscribe
  <1>8. s \notin subscription
    BY <1>1 DEF PlaylistInv, RowsOK
  <1>9. RowsOK'
    <2>1. IsFiniteSet(subscription')
      BY <1>7, FS_AddElement DEF PlaylistInv, RowsOK
    <2>2. \A x \in subscription' : pc'[x.id] = "done" /\ x.playlist \in used'
      BY <1>2, <1>4, <1>6, <1>7 DEF PlaylistInv, RowsOK, Moves, TypeOK, Subscriptions
    <2>3. QED
      BY <1>5, <1>7, <2>1, <2>2 DEF PlaylistInv, RowsOK
  <1>10. \A q \in Requests : pc'[q] = "open" => OpenOK(q)'
    BY <1>1, <1>6, <1>7, OthersOpenOK
  <1>11. ContentsHavePlaylist'
    BY <1>4, <1>5, <1>7 DEF PlaylistInv, ContentsHavePlaylist, TypeOK, Mappings
  <1>12. OneSubscription'
    <2>1. ~setting.overlap \/ setting.unique => SubscriptionsOf(u, p) = {}
      BY <1>1 DEF CommitSubscribe, MayInsert, OpenOK, Current
    <2>2. QED
      BY <1>7, <2>1 DEF PlaylistInv, OneSubscription, SubscriptionsOf
  <1>13. CountMatches'
    <2> SUFFICES ASSUME ~setting.overlap, NEW q \in Playlists, list'[q] # None
                 PROVE  list'[q].total = Cardinality(SubscribersOf(q)')
      BY DEF CountMatches
    <2>1. list[q] # None /\ list[q].total = Cardinality(SubscribersOf(q))
      BY <1>5 DEF PlaylistInv, CountMatches
    <2>2. CASE q = p
      <3>1. list[p] = tx[r].row
        BY <1>1 DEF OpenOK, Current
      <3>2. SubscribersOf(q)' = SubscribersOf(q) \cup {s} /\ s \notin SubscribersOf(q)
        BY <1>7, <1>8, <2>2 DEF SubscribersOf
      <3>3. IsFiniteSet(SubscribersOf(q))
        BY SubscribersFinite DEF PlaylistInv
      <3>4. Cardinality(SubscribersOf(q)') = Cardinality(SubscribersOf(q)) + 1
        BY <3>2, <3>3, FS_AddElement
      <3>5. QED
        BY <1>3, <1>5, <2>1, <2>2, <3>1, <3>4
    <2>3. CASE q # p
      <3>1. SubscribersOf(q)' = SubscribersOf(q)
        BY <1>7, <2>3 DEF SubscribersOf
      <3>2. QED
        BY <1>5, <2>1, <2>3, <3>1
    <2>4. QED
      BY <2>2, <2>3
  <1>14. OneMapping'
    BY <1>7 DEF PlaylistInv, OneMapping
  <1>15. QED
    BY <1>6, <1>9, <1>10, <1>11, <1>12, <1>13, <1>14 DEF PlaylistInv

LEMMA UnsubscribeKeeps ==
  ASSUME PlaylistInv, UNCHANGED setting, NEW r \in Requests, CommitUnsubscribe(r)
  PROVE  PlaylistInv'
  <1> DEFINE p == tx[r].playlist
             mine == tx[r].mine
             row == [tx[r].row EXCEPT !.total = Max0(@ - 1)]
  <1>1. pc[r] = "open" /\ tx[r].op = "unsubscribe" /\ OpenOK(r)
    BY DEF CommitUnsubscribe, Doing, PlaylistInv
  <1>2. tx[r] \in Transactions /\ p \in Playlists
    BY <1>1 DEF OpenOK, Transactions
  <1>3. row \in Rows /\ row.total = Max0(tx[r].row.total - 1)
    BY <1>2 DEF Transactions, Rows, Max0
  <1>4. TypeOK
    BY DEF PlaylistInv
  <1>5. /\ list' \in [Playlists -> Rows \cup {None}]
        /\ \A q \in Playlists : list'[q] = None <=> list[q] = None
        /\ \A q \in Playlists \ {p} : list'[q] = list[q]
        /\ list[p] = tx[r].row => list'[p] = row
    <2>1. WriteBack(r, row)
      BY DEF CommitUnsubscribe
    <2> HIDE DEF row
    <2>2. QED
      BY <1>2, <1>3, <1>4, <2>1, WriteBackEffect
  <1>6. subscription' = subscription \ {mine} /\ UNCHANGED <<used, mapping>>
    BY DEF CommitUnsubscribe
  <1>7. Moves(r, "done") /\ TypeOK'
    BY <1>4, <1>5, <1>6, EndMoves DEF CommitUnsubscribe, TypeOK
  <1>8. RowsOK'
    <2>1. IsFiniteSet(subscription')
      BY <1>6, FS_RemoveElement DEF PlaylistInv, RowsOK
    <2>2. \A x \in subscription' : pc'[x.id] = "done" /\ x.playlist \in used'
      BY <1>4, <1>6, <1>7 DEF PlaylistInv, RowsOK, Moves, TypeOK, Subscriptions
    <2>3. QED
      BY <1>5, <1>6, <2>1, <2>2 DEF PlaylistInv, RowsOK
  <1>9. \A q \in Requests : pc'[q] = "open" => OpenOK(q)'
    BY <1>1, <1>6, <1>7, OthersOpenOK
  <1>10. ContentsHavePlaylist'
    BY <1>4, <1>5, <1>6 DEF PlaylistInv, ContentsHavePlaylist, TypeOK, Mappings
  <1>11. OneSubscription' /\ OneMapping'
    BY <1>6 DEF PlaylistInv, OneSubscription, OneMapping
  <1>12. CountMatches'
    <2> SUFFICES ASSUME ~setting.overlap, NEW q \in Playlists, list'[q] # None
                 PROVE  list'[q].total = Cardinality(SubscribersOf(q)')
      BY DEF CountMatches
    <2>1. list[q] # None /\ list[q].total = Cardinality(SubscribersOf(q))
      BY <1>5 DEF PlaylistInv, CountMatches
    <2>2. list[p] = tx[r].row /\ mine \in SubscribersOf(p)
      BY <1>1 DEF OpenOK, Current, SubscriptionsOf, SubscribersOf
    <2>3. CASE q = p
      <3>1. SubscribersOf(q)' = SubscribersOf(q) \ {mine}
        BY <1>6 DEF SubscribersOf
      <3>2. /\ IsFiniteSet(SubscribersOf(q))
            /\ Cardinality(SubscribersOf(q)) \in Nat
            /\ Cardinality(SubscribersOf(q)) # 0
        BY <2>2, <2>3, SubscribersFinite, FS_EmptySet DEF PlaylistInv
      <3>3. mine \in SubscribersOf(q)
        BY <2>2, <2>3
      <3> HIDE DEF mine
      <3>4. Cardinality(SubscribersOf(q)') = Cardinality(SubscribersOf(q)) - 1
        BY <3>1, <3>2, <3>3, FS_RemoveElement
      <3>5. tx[r].row.total = Cardinality(SubscribersOf(q))
        BY <2>1, <2>2, <2>3
      <3>6. row.total = Cardinality(SubscribersOf(q)) - 1
        BY <1>3, <3>2, <3>5 DEF Max0
      <3>7. list'[q] = row
        BY <1>5, <2>2, <2>3
      <3>8. QED
        BY <3>4, <3>6, <3>7
    <2>4. CASE q # p
      <3>1. SubscribersOf(q)' = SubscribersOf(q)
        BY <1>6, <2>2, <2>4 DEF SubscribersOf
      <3>2. QED
        BY <1>5, <2>1, <2>4, <3>1
    <2>5. QED
      BY <2>3, <2>4
  <1>13. QED
    BY <1>7, <1>8, <1>9, <1>10, <1>11, <1>12 DEF PlaylistInv

LEMMA UpdateKeeps ==
  ASSUME PlaylistInv, UNCHANGED setting, NEW r \in Requests, CommitUpdate(r)
  PROVE  PlaylistInv'
  <1> DEFINE p == tx[r].playlist
             row == [tx[r].row EXCEPT !.title = tx[r].arg]
  <1>1. pc[r] = "open" /\ tx[r].op = "update" /\ OpenOK(r)
    BY DEF CommitUpdate, Doing, PlaylistInv
  <1>2. tx[r] \in Transactions /\ p \in Playlists
    BY <1>1 DEF OpenOK, Transactions
  <1>3. row \in Rows /\ row.total = tx[r].row.total
    BY <1>1, <1>2 DEF Transactions, Rows, OpenOK
  <1>4. TypeOK
    BY DEF PlaylistInv
  <1>5. /\ list' \in [Playlists -> Rows \cup {None}]
        /\ \A q \in Playlists : list'[q] = None <=> list[q] = None
        /\ \A q \in Playlists \ {p} : list'[q] = list[q]
        /\ list[p] = tx[r].row => list'[p] = row
    <2>1. WriteBack(r, row)
      BY DEF CommitUpdate
    <2> HIDE DEF row
    <2>2. QED
      BY <1>2, <1>3, <1>4, <2>1, WriteBackEffect
  <1>6. UNCHANGED <<used, subscription, mapping>>
    BY DEF CommitUpdate
  <1>7. Moves(r, "done") /\ TypeOK'
    BY <1>4, <1>5, <1>6, EndMoves DEF CommitUpdate, TypeOK
  <1>8. RowsOK'
    BY <1>4, <1>5, <1>6, <1>7 DEF PlaylistInv, RowsOK, Moves, TypeOK, Subscriptions
  <1>9. \A q \in Requests : pc'[q] = "open" => OpenOK(q)'
    BY <1>1, <1>6, <1>7, OthersOpenOK
  <1>10. ContentsHavePlaylist'
    BY <1>4, <1>5, <1>6 DEF PlaylistInv, ContentsHavePlaylist, TypeOK, Mappings
  <1>11. OneSubscription' /\ OneMapping'
    BY <1>6 DEF PlaylistInv, OneSubscription, OneMapping
  <1>12. CountMatches'
    <2> SUFFICES ASSUME ~setting.overlap, NEW q \in Playlists, list'[q] # None
                 PROVE  list'[q].total = Cardinality(SubscribersOf(q)')
      BY DEF CountMatches
    <2>1. list[q] # None /\ list[q].total = Cardinality(SubscribersOf(q))
      BY <1>5 DEF PlaylistInv, CountMatches
    <2>2. list[p] = tx[r].row
      BY <1>1 DEF OpenOK, Current
    <2>3. list'[q].total = list[q].total
      BY <1>3, <1>5, <2>2
    <2>4. SubscribersOf(q)' = SubscribersOf(q)
      BY <1>6 DEF SubscribersOf
    <2>5. QED
      BY <2>1, <2>3, <2>4
  <1>13. QED
    BY <1>7, <1>8, <1>9, <1>10, <1>11, <1>12 DEF PlaylistInv

LEMMA DeleteKeeps ==
  ASSUME PlaylistInv, UNCHANGED setting, NEW r \in Requests, CommitDelete(r)
  PROVE  PlaylistInv'
  <1> DEFINE p == tx[r].playlist
  <1>1. /\ pc[r] = "open"
        /\ MappingsOf(p) = tx[r].held
        /\ list' = [list EXCEPT ![p] = None]
        /\ mapping' = mapping \ MappingsOf(p)
        /\ UNCHANGED <<used, subscription>>
    BY DEF CommitDelete, Doing
  <1>2. TypeOK
    BY DEF PlaylistInv
  <1>3. Moves(r, "done") /\ TypeOK'
    BY <1>1, <1>2, EndMoves DEF CommitDelete, TypeOK
  <1>4. RowsOK'
    BY <1>1, <1>2, <1>3 DEF PlaylistInv, RowsOK, Moves, TypeOK, Subscriptions
  <1>5. \A q \in Requests : pc'[q] = "open" => OpenOK(q)'
    BY <1>1, <1>3, OthersOpenOK
  <1>6. ContentsHavePlaylist'
    BY <1>1, <1>2 DEF PlaylistInv, ContentsHavePlaylist, TypeOK, Mappings, MappingsOf
  <1>7. OneSubscription' /\ OneMapping'
    BY <1>1 DEF PlaylistInv, OneSubscription, OneMapping
  <1>8. CountMatches'
    BY <1>1, <1>2 DEF PlaylistInv, CountMatches, SubscribersOf, TypeOK
  <1>9. QED
    BY <1>3, <1>4, <1>5, <1>6, <1>7, <1>8 DEF PlaylistInv

LEMMA AddKeeps ==
  ASSUME PlaylistInv, UNCHANGED setting, NEW r \in Requests, CommitAdd(r)
  PROVE  PlaylistInv'
  <1> DEFINE p == tx[r].playlist
             m == [id |-> r, playlist |-> p, content |-> tx[r].arg]
  <1>1. /\ pc[r] = "open" /\ tx[r].op = "add" /\ list[p] # None
        /\ mapping' = mapping \cup {m}
        /\ UNCHANGED <<list, used, subscription>>
    BY DEF CommitAdd, Doing
  <1>2. TypeOK /\ OpenOK(r)
    BY <1>1 DEF PlaylistInv
  <1>3. m \in Mappings
    BY <1>1, <1>2 DEF OpenOK, Transactions, Mappings
  <1>4. Moves(r, "done") /\ TypeOK'
    BY <1>1, <1>2, <1>3, EndMoves DEF CommitAdd, TypeOK
  <1>5. RowsOK'
    BY <1>1, <1>2, <1>4 DEF PlaylistInv, RowsOK, Moves, TypeOK, Subscriptions
  <1>6. \A q \in Requests : pc'[q] = "open" => OpenOK(q)'
    BY <1>1, <1>4, OthersOpenOK
  <1>7. ContentsHavePlaylist'
    BY <1>1 DEF PlaylistInv, ContentsHavePlaylist
  <1>8. OneSubscription' /\ CountMatches'
    BY <1>1 DEF PlaylistInv, OneSubscription, CountMatches, SubscribersOf
  <1>9. OneMapping'
    <2>1. ~setting.overlap => MappingsTo(p, tx[r].arg) = {}
      BY <1>1, <1>2 DEF OpenOK, Current
    <2>2. QED
      BY <1>1, <2>1 DEF PlaylistInv, OneMapping, MappingsTo, MappingsOf
  <1>10. QED
    BY <1>4, <1>5, <1>6, <1>7, <1>8, <1>9 DEF PlaylistInv

LEMMA RemoveKeeps ==
  ASSUME PlaylistInv, UNCHANGED setting, NEW r \in Requests, CommitRemove(r)
  PROVE  PlaylistInv'
  <1>1. /\ pc[r] = "open"
        /\ mapping' \subseteq mapping
        /\ UNCHANGED <<list, used, subscription>>
    BY DEF CommitRemove, Doing
  <1>2. TypeOK
    BY DEF PlaylistInv
  <1>3. Moves(r, "done") /\ TypeOK'
    BY <1>1, <1>2, EndMoves DEF CommitRemove, TypeOK
  <1>4. RowsOK'
    BY <1>1, <1>2, <1>3 DEF PlaylistInv, RowsOK, Moves, TypeOK, Subscriptions
  <1>5. \A q \in Requests : pc'[q] = "open" => OpenOK(q)'
    BY <1>1, <1>3, OthersOpenOK
  <1>6. (ContentsHavePlaylist /\ OneSubscription /\ CountMatches /\ OneMapping)'
    BY <1>1 DEF PlaylistInv, ContentsHavePlaylist, OneSubscription, CountMatches,
       OneMapping, SubscribersOf
  <1>7. QED
    BY <1>3, <1>4, <1>5, <1>6 DEF PlaylistInv

\* A playlist nobody could know of disturbs no open transaction.
LEMMA CreateKeeps ==
  ASSUME PlaylistInv, UNCHANGED setting,
         NEW u \in Users, NEW p \in Playlists, NEW title \in Titles,
         CreatePlaylist(u, p, title)
  PROVE  PlaylistInv'
  <1> DEFINE row == [owner |-> u, title |-> title, total |-> 0]
  <1>1. /\ p \notin used /\ used' = used \cup {p}
        /\ list' = [list EXCEPT ![p] = row]
        /\ UNCHANGED <<subscription, mapping, pc, tx>>
    BY DEF CreatePlaylist
  <1>2. TypeOK /\ row \in Rows
    BY DEF PlaylistInv, Rows
  <1>3. TypeOK'
    BY <1>1, <1>2 DEF TypeOK
  <1>4. RowsOK'
    BY <1>1, <1>2 DEF PlaylistInv, RowsOK, TypeOK
  <1>5. ASSUME NEW q \in Requests, pc'[q] = "open" PROVE OpenOK(q)'
    <2>1. OpenOK(q) /\ tx'[q] = tx[q]
      BY <1>1, <1>5 DEF PlaylistInv
    <2>2. list'[tx[q].playlist] = list[tx[q].playlist]
      BY <1>1, <1>2, <2>1 DEF OpenOK, TypeOK, Transactions
    <2>3. Current(tx[q]) => Current(tx[q])'
      BY <1>1, <2>1, <2>2 DEF Current, SubscriptionsOf, MappingsTo, MappingsOf
    <2>4. QED
      BY <1>1, <2>1, <2>3 DEF OpenOK
  <1>6. ContentsHavePlaylist'
    BY <1>1, <1>2, PlaylistAssumption
       DEF PlaylistInv, ContentsHavePlaylist, TypeOK, Mappings, Rows
  <1>7. OneSubscription' /\ OneMapping'
    BY <1>1 DEF PlaylistInv, OneSubscription, OneMapping
  <1>8. CountMatches'
    <2>1. SubscribersOf(p) = {}
      BY <1>1 DEF PlaylistInv, RowsOK, SubscribersOf
    <2>2. \A q \in Playlists : SubscribersOf(q)' = SubscribersOf(q)
      BY <1>1 DEF SubscribersOf
    <2>3. QED
      BY <1>1, <1>2, <2>1, <2>2, FS_EmptySet DEF PlaylistInv, CountMatches, TypeOK
  <1>9. QED
    BY <1>3, <1>4, <1>5, <1>6, <1>7, <1>8 DEF PlaylistInv

-----------------------------------------------------------------------------

LEMMA InvStep == PlaylistInv /\ [Next]_vars => PlaylistInv'
  <1> SUFFICES ASSUME PlaylistInv, [Next]_vars PROVE PlaylistInv'
    OBVIOUS
  <1>1. CASE UNCHANGED vars
    <2>1. UNCHANGED <<setting, list, used, subscription, mapping, pc, tx>>
      BY <1>1 DEF vars
    <2>2. TypeOK' /\ RowsOK'
      BY <2>1 DEF PlaylistInv, TypeOK, RowsOK
    <2>3. \A r \in Requests : pc'[r] = "open" => OpenOK(r)'
      BY <2>1 DEF PlaylistInv, OpenOK, Current, SubscriptionsOf, MappingsTo, MappingsOf
    <2>4. (ContentsHavePlaylist /\ OneSubscription /\ CountMatches /\ OneMapping)'
      BY <2>1 DEF PlaylistInv, ContentsHavePlaylist, OneSubscription, CountMatches,
         OneMapping, SubscribersOf
    <2>5. QED
      BY <2>2, <2>3, <2>4 DEF PlaylistInv
  <1>2. CASE Next
    <2>1. UNCHANGED setting
      BY <1>2 DEF Next
    <2>2. ASSUME NEW r \in Requests, Finish(r) PROVE PlaylistInv'
      BY <2>1, <2>2, SubscribeKeeps, UnsubscribeKeeps, UpdateKeeps, DeleteKeeps,
         AddKeeps, RemoveKeeps, FailKeeps DEF Finish
    <2>3. QED
      BY <1>2, <2>1, <2>2, StartKeeps, CreateKeeps DEF Next
  <1>3. QED
    BY <1>1, <1>2

\* The rows and the open transactions always fit each other.
THEOREM PlaylistInvariant == Spec => []PlaylistInv
  <1>1. QED
    BY InvInit, InvStep, PTL DEF Spec

\* Contents never outlive their playlist, whatever overlaps its deletion.
THEOREM ContentsAlwaysHavePlaylist == Spec => []ContentsHavePlaylist
  <1>1. PlaylistInv => ContentsHavePlaylist
    BY DEF PlaylistInv
  <1>2. QED
    BY <1>1, PlaylistInvariant, PTL

\* The declared constraint, or requests one by one, keep subscriptions single.
THEOREM SubscribedOnce == Spec => []OneSubscription
  <1>1. PlaylistInv => OneSubscription
    BY DEF PlaylistInv
  <1>2. QED
    BY <1>1, PlaylistInvariant, PTL

\* With requests one by one the counter is exact.
THEOREM CountAlwaysMatches == Spec => []CountMatches
  <1>1. PlaylistInv => CountMatches
    BY DEF PlaylistInv
  <1>2. QED
    BY <1>1, PlaylistInvariant, PTL

-----------------------------------------------------------------------------
(* What a step may never do.                                                *)

LEMMA StartLeavesRows ==
  ASSUME NEW r \in Requests, Start(r)
  PROVE  UNCHANGED rows
  BY DEF Start, Subscribe, Unsubscribe, UpdatePlaylist, DeletePlaylist,
     AddContent, RemoveContent, Begin

\* A commit writes the row of its own playlist only, and only where one is.
LEMMA FinishWrites ==
  ASSUME PlaylistInv, NEW r \in Requests, Finish(r)
  PROVE  \/ UNCHANGED list
         \/ /\ list[tx[r].playlist] # None
            /\ \A p \in Playlists \ {tx[r].playlist} : list'[p] = list[p]
  BY DEF Finish, CommitSubscribe, CommitUnsubscribe, CommitUpdate, CommitDelete,
     CommitAdd, CommitRemove, Fail, rows, WriteBack, PlaylistInv, TypeOK

\* No transaction brings a deleted playlist back.
THEOREM DeletedAlwaysStaysDeleted == Spec => DeletedStaysDeleted
  <1>1. ASSUME PlaylistInv, Next, NEW p \in used, list[p] = None
        PROVE  list'[p] = None
    <2>1. p \in Playlists
      BY <1>1 DEF PlaylistInv, TypeOK
    <2>2. ASSUME NEW r \in Requests, Start(r) PROVE list'[p] = None
      BY <1>1, <2>2, StartLeavesRows DEF rows
    <2>3. ASSUME NEW r \in Requests, Finish(r) PROVE list'[p] = None
      BY <1>1, <2>1, <2>3, FinishWrites
    <2>4. ASSUME NEW u \in Users, NEW q \in Playlists, NEW title \in Titles,
                 CreatePlaylist(u, q, title)
          PROVE  list'[p] = None
      BY <1>1, <2>1, <2>4 DEF CreatePlaylist, PlaylistInv, TypeOK
    <2>5. QED
      BY <1>1, <2>2, <2>3, <2>4 DEF Next
  <1>2. PlaylistInv /\ [Next]_vars
            => [\A p \in used : list[p] = None => list'[p] = None]_vars
    BY <1>1
  <1>3. QED
    BY <1>2, PlaylistInvariant, PTL DEF Spec, DeletedStaysDeleted

\* A commit that only counts leaves the title that it has read.
LEMMA CountingKeepsTitle ==
  ASSUME PlaylistInv, ~setting.overlap, NEW r \in Requests,
         CommitSubscribe(r) \/ CommitUnsubscribe(r), NEW p \in Playlists
  PROVE  list[p] # None => list'[p].title = list[p].title
  <1>1. pc[r] = "open" /\ OpenOK(r) /\ TypeOK
    BY DEF CommitSubscribe, CommitUnsubscribe, Doing, PlaylistInv
  <1>2. list[tx[r].playlist] = tx[r].row /\ tx[r].row \in Rows
    BY <1>1 DEF OpenOK, Current, Transactions
  <1>3. PICK n : WriteBack(r, [tx[r].row EXCEPT !.total = n])
    BY DEF CommitSubscribe, CommitUnsubscribe
  <1>4. [tx[r].row EXCEPT !.total = n].title = tx[r].row.title
    BY <1>2 DEF Rows
  <1>5. QED
    BY <1>1, <1>2, <1>3, <1>4 DEF WriteBack, TypeOK

\* With requests one by one only the owner's update changes a title.
THEOREM OwnerAloneEdits == Spec => OwnerEditsAlone
  <1>1. ASSUME PlaylistInv, Next, ~setting.overlap, NEW p \in Playlists,
               list[p] # None, list'[p] # None, list'[p].title # list[p].title
        PROVE  \E r \in Requests : /\ Doing(r, "update") /\ pc'[r] = "done"
                                    /\ tx[r].playlist = p /\ tx[r].user = list[p].owner
    <2>1. TypeOK /\ p \in used
      BY <1>1 DEF PlaylistInv, RowsOK
    <2>2. \A u \in Users, q \in Playlists, title \in Titles : ~CreatePlaylist(u, q, title)
      BY <1>1, <2>1 DEF CreatePlaylist, TypeOK
    <2>3. PICK r \in Requests : Finish(r)
      BY <1>1, <2>2, StartLeavesRows DEF Next, rows
    <2>4. tx[r].playlist = p
      BY <1>1, <2>3, FinishWrites
    <2>5. CommitUpdate(r)
      <3>1. ~CommitSubscribe(r) /\ ~CommitUnsubscribe(r)
        BY <1>1, CountingKeepsTitle
      <3>2. ~CommitDelete(r)
        BY <1>1, <2>1, <2>4 DEF CommitDelete, TypeOK
      <3>3. ~CommitAdd(r) /\ ~CommitRemove(r) /\ ~Fail(r)
        BY <1>1 DEF CommitAdd, CommitRemove, Fail, rows
      <3>4. QED
        BY <2>3, <3>1, <3>2, <3>3 DEF Finish
    <2>6. Doing(r, "update") /\ OpenOK(r)
      BY <1>1, <2>5 DEF CommitUpdate, Doing, PlaylistInv
    <2>7. pc'[r] = "done"
      BY <2>1, <2>5 DEF CommitUpdate, End, TypeOK
    <2>8. tx[r].user = list[p].owner
      BY <1>1, <2>4, <2>6 DEF OpenOK, Current, Doing
    <2>9. QED
      BY <2>4, <2>6, <2>7, <2>8
  <1>2. PlaylistInv /\ [Next]_vars => [~setting.overlap => TitleChangesByOwner]_vars
    BY <1>1 DEF TitleChangesByOwner
  <1>3. QED
    BY <1>2, PlaylistInvariant, PTL DEF Spec, OwnerEditsAlone

-----------------------------------------------------------------------------
(* CursorPaging.                                                            *)

USE PagingAssumption

-----------------------------------------------------------------------------
(* The queries.                                                             *)

\* Where a list is reliable, its cursor condition means: later in the order,
\* and the order tells rows apart.
LEMMA ReliableContinues ==
    ASSUME PagingTypeOK, Reliable
    PROVE  Continues
<1> USE DEF ContentLists
<1> SUFFICES ASSUME NEW a \in world, NEW b \in world
             PROVE  /\ After(b, a) <=> OrderBy(a, b)
                    /\ a.id # b.id => OrderBy(a, b) \/ OrderBy(b, a)
  BY DEF Continues
<1>1. a \in Row /\ b \in Row /\ query \in Queries
  BY DEF PagingTypeOK
<1>2. /\ a.id \in Nat /\ b.id \in Nat /\ a.key \in Nat /\ b.key \in Nat
      /\ a.updated \in Nat /\ b.updated \in Nat
  BY <1>1 DEF Row
<1>3. query.list \in Lists /\ query.dir \in Directions
  BY <1>1 DEF Queries
<1>4. CASE query.list = "users"
  BY <1>2, <1>3, <1>4 DEF Reliable, After, OrderBy, UsersAfter, UsersOrderBy, Sorted,
     Directions
<1>5. CASE query.list = "notifications"
  BY <1>2, <1>3, <1>5 DEF After, OrderBy, NotificationsAfter, NotificationsOrderBy, Sorted
<1>6. CASE query.list \in ContentLists
  <2>1. /\ After(b, a) <=> ContentsAfter(b, a)
        /\ OrderBy(a, b) <=> ContentsOrderBy(a, b)
        /\ OrderBy(b, a) <=> ContentsOrderBy(b, a)
    BY <1>6 DEF After, OrderBy
  <2>2. CASE query.list = "contents"
    BY <1>2, <2>1, <2>2 DEF ContentsAfter, ContentsOrderBy, Sorted
  <2>3. CASE query.list = "contentsDefault"
    <3>1. ~Ascending
      BY <2>3 DEF Reliable
    <3> QED BY <1>2, <2>1, <2>3, <3>1 DEF ContentsAfter, ContentsOrderBy, Sorted
  <2>4. CASE query.list = "contentsByCount"
    <3>1. a.id # b.id => a.key # b.key
      BY <2>4 DEF Reliable, Distinct, Key
    <3> QED BY <1>2, <2>1, <2>4, <3>1 DEF ContentsAfter, ContentsOrderBy, Sorted
  <2>5. CASE query.list = "contentsByRate"
    <3>1. (a.id # b.id => a.key # b.key) /\ Printed(a.key) = a.key
      BY <2>5 DEF Reliable, Distinct, Key, RatesPrintExactly
    <3> QED BY <1>2, <2>1, <2>5, <3>1 DEF ContentsAfter, ContentsOrderBy, Sorted
  <2> QED BY <1>6, <2>2, <2>3, <2>4, <2>5
<1>7. CASE query.list \in {"playlists", "playlistsByCount"}
  <2>1. /\ After(b, a) <=> PlaylistsAfter(b, a)
        /\ OrderBy(a, b) <=> PlaylistsOrderBy(a, b)
        /\ OrderBy(b, a) <=> PlaylistsOrderBy(b, a)
    BY <1>7 DEF After, OrderBy
  <2>2. CASE query.list = "playlists"
    <3>1. ~Ascending /\ (a.id # b.id => a.updated # b.updated)
      BY <2>2 DEF Reliable, Distinct, Updated
    <3> QED BY <1>2, <2>1, <2>2, <3>1 DEF PlaylistsAfter, PlaylistsOrderBy, Sorted
  <2>3. CASE query.list = "playlistsByCount"
    <3>1. ~Ascending /\ (a.id # b.id => a.key # b.key)
      BY <2>3 DEF Reliable, Distinct, Key
    <3>2. (a.key < b.key <=> a.updated < b.updated) /\ (b.key < a.key <=> b.updated < a.updated)
      BY <2>3 DEF Reliable, SameOrder, Key, Updated
    <3> QED BY <1>2, <2>1, <2>3, <3>1, <3>2 DEF PlaylistsAfter, PlaylistsOrderBy, Sorted
  <2> QED BY <1>7, <2>2, <2>3
<1>8. CASE query.list = "reviews"
  BY <1>2, <1>3, <1>8 DEF Reliable, SameOrder, Key, Id, After, OrderBy, ReviewsAfter,
     ReviewsOrderBy, Sorted
<1> QED BY <1>3, <1>4, <1>5, <1>6, <1>7, <1>8 DEF Lists

\* Every ORDER BY is transitive, and puts no row before itself.
LEMMA OrderStrict ==
    ASSUME PagingTypeOK
    PROVE  /\ \A a, b, c \in world : OrderBy(a, b) /\ OrderBy(b, c) => OrderBy(a, c)
           /\ \A a \in world : ~OrderBy(a, a)
<1> USE DEF ContentLists
<1> SUFFICES ASSUME NEW a \in world, NEW b \in world, NEW c \in world
             PROVE  /\ OrderBy(a, b) /\ OrderBy(b, c) => OrderBy(a, c)
                    /\ ~OrderBy(a, a)
  OBVIOUS
<1>1. a \in Row /\ b \in Row /\ c \in Row /\ query \in Queries
  BY DEF PagingTypeOK
<1>2. /\ a.id \in Nat /\ b.id \in Nat /\ c.id \in Nat
      /\ a.key \in Nat /\ b.key \in Nat /\ c.key \in Nat
      /\ a.updated \in Nat /\ b.updated \in Nat /\ c.updated \in Nat
  BY <1>1 DEF Row
<1>3. query.list \in Lists
  BY <1>1 DEF Queries
<1>4. CASE query.list = "users"
  BY <1>2, <1>4 DEF OrderBy, UsersOrderBy, Sorted
<1>5. CASE query.list = "notifications"
  BY <1>2, <1>5 DEF OrderBy, NotificationsOrderBy, Sorted
<1>6. CASE query.list \in ContentLists
  <2>1. \A x, y : OrderBy(x, y) <=> ContentsOrderBy(x, y)
    BY <1>6 DEF OrderBy
  <2>2. CASE query.list = "contents"
    BY <1>2, <2>1, <2>2 DEF ContentsOrderBy, Sorted
  <2>3. CASE query.list = "contentsDefault"
    BY <1>2, <2>1, <2>3 DEF ContentsOrderBy
  <2>4. CASE query.list = "contentsByCount"
    BY <1>2, <2>1, <2>4 DEF ContentsOrderBy, Sorted
  <2>5. CASE query.list = "contentsByRate"
    BY <1>2, <2>1, <2>5 DEF ContentsOrderBy, Sorted
  <2> QED BY <1>6, <2>2, <2>3, <2>4, <2>5
<1>7. CASE query.list \in {"playlists", "playlistsByCount"}
  <2>1. \A x, y : OrderBy(x, y) <=> PlaylistsOrderBy(x, y)
    BY <1>7 DEF OrderBy
  <2>2. CASE query.list = "playlists"
    BY <1>2, <2>1, <2>2 DEF PlaylistsOrderBy, Sorted
  <2>3. CASE query.list = "playlistsByCount"
    BY <1>2, <2>1, <2>3 DEF PlaylistsOrderBy, Sorted
  <2> QED BY <1>7, <2>2, <2>3
<1>8. CASE query.list = "reviews"
  BY <1>2, <1>8 DEF OrderBy, ReviewsOrderBy, Sorted
<1> QED BY <1>3, <1>4, <1>5, <1>6, <1>7, <1>8 DEF Lists

\* The tests that a query is made of do not change, for the query does not.
LEMMA OrderFixed ==
    ASSUME query' = query, world' = world
    PROVE  /\ \A a, b : OrderBy(a, b)' <=> OrderBy(a, b)
           /\ \A a, b : After(a, b)' <=> After(a, b)
           /\ Reliable' <=> Reliable
BY DEF OrderBy, UsersOrderBy, NotificationsOrderBy, ContentsOrderBy, PlaylistsOrderBy,
   ReviewsOrderBy, After, UsersAfter, NotificationsAfter, ContentsAfter, PlaylistsAfter,
   ReviewsAfter, Sorted, Ascending, Reliable, Distinct, SameOrder, RatesPrintExactly

-----------------------------------------------------------------------------
(* Pages.                                                                   *)

\* A page is made of rows that match; without a next page, of all of them.
LEMMA PageRows ==
    ASSUME PagingTypeOK, NEW K \in Pages
    PROVE  /\ K \subseteq Matching /\ Matching \subseteq stored
           /\ ~HasNext => K = Matching
BY DEF Pages, Matching

LEMMA TypeInvariant == PagingSpec => []PagingTypeOK
<1>1. PagingInit => PagingTypeOK
  <2> SUFFICES ASSUME PagingInit PROVE PagingTypeOK
    OBVIOUS
  <2>1. IsFiniteSet({})
    BY FS_EmptySet
  <2> QED BY <2>1 DEF PagingInit, PagingTypeOK
<1>2. PagingTypeOK /\ [PagingNext]_pagingVars => PagingTypeOK'
  <2> SUFFICES ASSUME PagingTypeOK, [PagingNext]_pagingVars PROVE PagingTypeOK'
    OBVIOUS
  <2>1. CASE NextPage
    <3>1. page' \subseteq stored
      BY <2>1, PageRows DEF NextPage
    <3>2. cursor' \in world \cup {NoCursor}
      BY <2>1, <3>1 DEF NextPage, Last, PagingTypeOK
    <3> QED BY <2>1, <3>1, <3>2 DEF NextPage, PagingTypeOK, table
  <2>2. CASE Restart
    BY <2>2 DEF Restart, PagingTypeOK, table
  <2>3. ASSUME NEW r \in world, Insert(r) PROVE PagingTypeOK'
    <3>1. IsFiniteSet(stored \cup {r})
      BY FS_AddElement DEF PagingTypeOK
    <3> QED BY <2>3, <3>1 DEF Insert, NewId, PagingTypeOK, walk
  <2>4. ASSUME NEW r \in stored, Delete(r) PROVE PagingTypeOK'
    <3>1. IsFiniteSet(stored \ {r})
      BY FS_RemoveElement DEF PagingTypeOK
    <3> QED BY <2>4, <3>1 DEF Delete, PagingTypeOK, walk
  <2>5. ASSUME NEW r \in stored, NEW s \in world, Edit(r, s) PROVE PagingTypeOK'
    <3>1. IsFiniteSet((stored \ {r}) \cup {s})
      BY FS_RemoveElement, FS_AddElement DEF PagingTypeOK
    <3> QED BY <2>5, <3>1 DEF Edit, PagingTypeOK, walk
  <2>6. CASE UNCHANGED pagingVars
    BY <2>6 DEF pagingVars, table, walk, PagingTypeOK
  <2> QED BY <2>1, <2>2, <2>3, <2>4, <2>5, <2>6 DEF PagingNext
<1> QED BY <1>1, <1>2, PTL DEF PagingSpec

-----------------------------------------------------------------------------
(* The invariant of a walk.                                                 *)

\* Without a cursor there has been no page, or one that was the last.
Begun ==
    /\ cursor = NoCursor /\ ~over => before = {} /\ page = {}
    /\ cursor = NoCursor => before = {}

WalkInv == Begun /\ PagesInOrder /\ WalkComplete /\ CursorSeparates

\* A page taken in order keeps the walk sorted, and its last row separates it
\* from what is left.
LEMMA NextPageKeeps ==
    ASSUME PagingTypeOK, PagingTypeOK', WalkInv, NextPage
    PROVE  WalkInv'
<1> DEFINE K == page'
<1>0. query' = query /\ world' = world /\ stored' = stored /\ K \in Pages /\ ~over
  BY DEF NextPage, table
<1>1. before' = before \cup page /\ over' = ~HasNext
  BY DEF NextPage
<1>2. steady' = IF cursor = NoCursor THEN stored ELSE steady
  BY DEF NextPage
<1>3. K \subseteq Matching /\ Matching \subseteq stored /\ (~HasNext => K = Matching)
  BY <1>0, PageRows
<1>4. HasNext => cursor' \in K /\ \A b \in K : ~OrderBy(cursor', b)
  BY DEF NextPage, Last
<1>5. ~HasNext => cursor' = cursor
  BY DEF NextPage
<1>6. Begun'
  <2>1. HasNext => cursor' # NoCursor
    BY <1>3, <1>4 DEF PagingTypeOK
  <2>2. ~HasNext => over' /\ cursor' = cursor
    BY <1>1, <1>5
  <2>3. cursor = NoCursor => before = {} /\ page = {}
    BY <1>0 DEF WalkInv, Begun
  <2> QED BY <1>1, <2>1, <2>2, <2>3 DEF Begun
<1>7. ASSUME Reliable
      PROVE  PagesInOrder' /\ WalkComplete' /\ CursorSeparates'
  <2>1. \A a, b \in world : /\ After(b, a) <=> OrderBy(a, b)
                            /\ a.id # b.id => OrderBy(a, b) \/ OrderBy(b, a)
    BY <1>7, ReliableContinues DEF Continues
  <2>2. /\ \A a, b, c \in world : OrderBy(a, b) /\ OrderBy(b, c) => OrderBy(a, c)
        /\ \A a \in world : ~OrderBy(a, a)
    BY OrderStrict
  <2>3. \A a, b \in stored : a # b => OrderBy(a, b) \/ OrderBy(b, a)
    BY <2>1 DEF PagingTypeOK
  <2>4. cursor # NoCursor => /\ cursor \in world
                             /\ \A a \in before \cup page : a = cursor \/ OrderBy(a, cursor)
                             /\ \A a \in steady : a \in before \cup page \/ After(a, cursor)
    BY <1>0, <1>7 DEF WalkInv, CursorSeparates, PagingTypeOK
  <2>5. cursor = NoCursor => before \cup page = {}
    BY <1>0 DEF WalkInv, Begun
  <2>6. ASSUME NEW a \in before \cup page, NEW b \in K
        PROVE  OrderBy(a, b)
    <3>1. cursor # NoCursor /\ a \in world /\ b \in world
      BY <1>3, <2>5 DEF PagingTypeOK
    <3>2. OrderBy(cursor, b)
      BY <1>3, <2>1, <2>4, <3>1 DEF Matching
    <3> QED BY <2>2, <2>4, <3>1, <3>2
  <2>7. PagesInOrder'
    BY <1>0, <1>1, <2>6, OrderFixed DEF PagesInOrder
  <2>8. \A a \in steady' : a \in stored /\ (a \in before \cup page \/ a \in Matching)
    BY <1>2, <2>4 DEF Matching, PagingTypeOK
  <2>9. WalkComplete'
    BY <1>1, <1>3, <2>8 DEF WalkComplete
  <2>10. CASE HasNext
    <3>1. cursor' \in K /\ cursor' \in stored /\ cursor' \in world
      BY <1>3, <1>4, <2>10 DEF PagingTypeOK
    <3>2. ASSUME NEW a \in before' \cup K
          PROVE  a = cursor' \/ OrderBy(a, cursor')
      <4>1. CASE a \in K
        <5>1. ~OrderBy(cursor', a)
          BY <1>4, <2>10, <4>1
        <5>2. a \in stored
          BY <1>3, <4>1
        <5> QED BY <2>3, <3>1, <5>1, <5>2
      <4>2. CASE a \in before \cup page
        BY <2>6, <3>1, <4>2
      <4> QED BY <1>1, <4>1, <4>2
    <3>3. ASSUME NEW a \in steady', a \notin before' \cup K
          PROVE  After(a, cursor')
      <4>1. a \in Matching \ K /\ a \in stored
        BY <1>1, <2>8, <3>3
      <4>2. ~OrderBy(a, cursor')
        BY <1>0, <2>10, <3>1, <4>1 DEF Pages
      <4>3. OrderBy(cursor', a)
        BY <2>3, <3>1, <4>1, <4>2
      <4> QED BY <2>1, <3>1, <4>1, <4>3 DEF PagingTypeOK
    <3> QED BY <1>0, <2>7, <2>9, <3>2, <3>3, OrderFixed DEF CursorSeparates
  <2>11. CASE ~HasNext
    BY <1>1, <2>7, <2>9, <2>11 DEF CursorSeparates
  <2> QED BY <2>7, <2>9, <2>10, <2>11
<1>8. CASE ~Reliable
  BY <1>0, <1>6, <1>8, OrderFixed DEF WalkInv, PagesInOrder, WalkComplete, CursorSeparates
<1> QED BY <1>6, <1>7, <1>8 DEF WalkInv

\* What others do to the table leaves the walk as it is and can only make
\* fewer rows steady.
LEMMA OthersKeep ==
    ASSUME WalkInv, query' = query, world' = world, UNCHANGED walk, steady' \subseteq steady
    PROVE  WalkInv'
<1>1. cursor' = cursor /\ over' = over /\ before' = before /\ page' = page
  BY DEF walk
<1>2. Begun'
  BY <1>1 DEF WalkInv, Begun
<1>3. PagesInOrder'
  BY <1>1, OrderFixed DEF WalkInv, PagesInOrder
<1>4. WalkComplete'
  BY <1>1, OrderFixed DEF WalkInv, WalkComplete
<1>5. CursorSeparates'
  BY <1>1, OrderFixed DEF WalkInv, CursorSeparates
<1> QED BY <1>2, <1>3, <1>4, <1>5 DEF WalkInv

\* A walk with a reliable cursor shows its rows in order, each one once, and
\* ends only when nothing that was there all along is left: the cursor
\* predicates of the repositories, read together with their ORDER BYs.
THEOREM WalkInvariant == PagingSpec => [](PagingTypeOK /\ WalkInv)
<1>1. PagingInit => WalkInv
  BY DEF PagingInit, WalkInv, Begun, PagesInOrder, WalkComplete, CursorSeparates
<1>2. PagingTypeOK /\ PagingTypeOK' /\ WalkInv /\ [PagingNext]_pagingVars => WalkInv'
  <2> SUFFICES ASSUME PagingTypeOK, PagingTypeOK', WalkInv, [PagingNext]_pagingVars
               PROVE  WalkInv'
    OBVIOUS
  <2>1. CASE NextPage
    BY <2>1, NextPageKeeps
  <2>2. CASE Restart
    BY <2>2 DEF Restart, WalkInv, Begun, PagesInOrder, WalkComplete, CursorSeparates
  <2>3. ASSUME NEW r \in world, Insert(r) PROVE WalkInv'
    BY <2>3, OthersKeep DEF Insert
  <2>4. ASSUME NEW r \in stored, Delete(r) PROVE WalkInv'
    BY <2>4, OthersKeep DEF Delete
  <2>5. ASSUME NEW r \in stored, NEW s \in world, Edit(r, s) PROVE WalkInv'
    BY <2>5, OthersKeep DEF Edit
  <2>6. CASE UNCHANGED pagingVars
    BY <2>6, OthersKeep DEF pagingVars, table
  <2> QED BY <2>1, <2>2, <2>3, <2>4, <2>5, <2>6 DEF PagingNext
<1> QED BY <1>1, <1>2, TypeInvariant, PTL DEF PagingSpec

\* A walk that is over has shown every row that was there all along.
THEOREM WalksAreComplete == PagingSpec => []WalkComplete
<1>1. WalkInv => WalkComplete
  BY DEF WalkInv
<1> QED BY <1>1, WalkInvariant, PTL

\* No row comes a second time or out of order.
THEOREM PagesStayInOrder == PagingSpec => []PagesInOrder
<1>1. WalkInv => PagesInOrder
  BY DEF WalkInv
<1> QED BY <1>1, WalkInvariant, PTL

\* Between two pages the cursor separates what was shown from what is to come.
THEOREM CursorAlwaysSeparates == PagingSpec => []CursorSeparates
<1>1. WalkInv => CursorSeparates
  BY DEF WalkInv
<1> QED BY <1>1, WalkInvariant, PTL
=============================================================================
