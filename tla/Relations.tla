------------------------------ MODULE Relations ------------------------------
(***************************************************************************)
(* What accounts are to each other: who follows whom (FollowService) and   *)
(* who shares a conversation (DmService.getOrCreateDm). Both look first    *)
(* and insert then; no constraint of the tables stands behind the look.    *)
(***************************************************************************)
EXTENDS Accounts

VARIABLES
    follow,  \* rows of follows
    room     \* the participants of the conversation that a request has created

relations == <<follow, room>>
vars      == <<accVars, relations>>

Follows == [id : Requests, follower : Requests, followee : Requests]

RelationsTypeOK ==
    /\ TypeOK
    /\ follow \subseteq Follows
    /\ \A f \in follow : f.follower \in Ids /\ f.followee \in Ids /\ f.follower # f.followee
    /\ room \in [Requests -> Requests \X Requests \cup {None}]

Init ==
    /\ AccInit
    /\ follow = {}
    /\ room = [r \in Requests |-> None]

-----------------------------------------------------------------------------
(* Following.                                                               *)

Follow(r, u, w) ==
    /\ Begin(r, /\ u # w
                /\ \A f \in follow : f.follower = u => f.followee # w
                /\ w \in Ids,
             [op |-> "follow", follower |-> u, followee |-> w])
    /\ UNCHANGED <<account, access, relations>>

CommitFollow(r) ==
    /\ Doing(r, "follow")
    /\ follow' = follow \cup {[id |-> r, follower |-> tx[r].follower,
                               followee |-> tx[r].followee]}
    /\ End(r, "done")
    /\ UNCHANGED <<account, access, room>>

Unfollow(r, u, f) ==
    /\ Begin(r, f.follower = u, [op |-> "unfollow", row |-> f])
    /\ UNCHANGED <<account, access, relations>>

\* A row that is gone makes the flush fail.
CommitUnfollow(r) ==
    /\ Doing(r, "unfollow")
    /\ tx[r].row \in follow
    /\ follow' = follow \ {tx[r].row}
    /\ End(r, "done")
    /\ UNCHANGED <<account, access, room>>

-----------------------------------------------------------------------------
(* Conversations.                                                           *)

Rooms == {x \in Requests : room[x] # None}

\* Mutation: the participants found are not counted.
AnyOfTheTwo(u, w) == {x \in Rooms : \E i \in 1..2 : room[x][i] \in {u, w}}

\* findDmIdByParticipants: rooms with two participants among u and w.
FindRooms(u, w) == {x \in Rooms : Cardinality({i \in 1..2 : room[x][i] \in {u, w}}) = 2}

\* findDmDetailById: the participant who is not u, if there is such an account.
Shown(pair, u) == \E i \in 1..2 : pair[i] # u /\ pair[i] \in Ids

\* Two rooms are one result too many. A new room that cannot be shown is rolled back.
OpenRoom(r, u, w) ==
    LET found == FindRooms(u, w)
    IN  /\ IF found = {}
           THEN Begin(r, Shown(<<u, w>>, u), [op |-> "room", pair |-> <<u, w>>])
           ELSE /\ MayStart(r)
                /\ pc' = [pc EXCEPT ![r] = IF \E x \in found : found = {x} /\ Shown(room[x], u)
                                           THEN "done" ELSE "failed"]
                /\ tx' = [tx EXCEPT ![r] = [op |-> "room"]]
        /\ UNCHANGED <<account, access, relations>>

CommitRoom(r) ==
    /\ Doing(r, "room")
    /\ room' = [room EXCEPT ![r] = tx[r].pair]
    /\ End(r, "done")
    /\ UNCHANGED <<account, access, follow>>

-----------------------------------------------------------------------------

StartRelation(r) ==
    \E u \in Ids :
        \/ \E w \in Requests : Follow(r, u, w) \/ OpenRoom(r, u, w)
        \/ \E f \in follow : Unfollow(r, u, f)

RelationNext ==
    /\ \E r \in Requests :
           \/ setting.people /\ StartRelation(r)
           \/ CommitFollow(r) \/ CommitUnfollow(r) \/ CommitRoom(r)
    /\ UNCHANGED <<setting, judged>>

Next == RelationNext \/ (AccNext /\ UNCHANGED relations)

Spec == Init /\ [][Next]_vars

-----------------------------------------------------------------------------
(* Correctness.                                                             *)

\* What opening a conversation with somebody else finds is a conversation of
\* exactly these two, and there is one only if transactions do not overlap.
RoomOfTheTwo ==
    \A u, w \in Ids : u # w =>
        /\ \A x \in FindRooms(u, w) : {room[x][1], room[x][2]} = {u, w}
        /\ ~setting.overlap => Cardinality(FindRooms(u, w)) <= 1

\* The types hold (nobody follows himself), and conversations are found by
\* exactly the two who hold them.
RelationsInv == RelationsTypeOK /\ RoomOfTheTwo
=============================================================================
