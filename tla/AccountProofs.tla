--------------------------- MODULE AccountProofs ---------------------------
(***************************************************************************)
(* Theorems about Accounts and Relations, for any people and addresses and *)
(* any number of requests.                                                 *)
(***************************************************************************)
EXTENDS Relations, FiniteSetTheorems, TLAPS

-----------------------------------------------------------------------------
(* The inductive invariant.                                                 *)

AccountTyped == account \in [Requests -> Rows \cup {None}]

AccessTyped ==
    /\ temp \in [Spelled -> Temps \cup {None}]
    /\ mail \subseteq Mails /\ inbox \subseteq Mails

ProgressTyped ==
    /\ pc \in [Requests -> {"new", "open", "done", "failed"}]
    /\ DOMAIN tx = Requests
    /\ \A r \in Requests : IF pc[r] = "new" THEN tx[r] = None ELSE tx[r].op \in Ops

\* What an open transaction has read is still true of what never changes: the
\* address and the identity of an account, and, where transactions do not
\* overlap, that a conversation was not there.
TxOK(r) ==
    /\ tx[r].op = "signUp" => (tx[r].email \in Spelled /\ tx[r].password \in Passwords)
    /\ tx[r].op = "oauth" => tx[r].identity \in Identities
    /\ tx[r].op = "edit" => (/\ tx[r].id \in Ids /\ tx[r].row \in Rows
                             /\ tx[r].row.email = account[tx[r].id].email
                             /\ tx[r].row.identity = account[tx[r].id].identity)
    /\ tx[r].op = "reset" => tx[r].email \in setting.emails
    /\ tx[r].op = "mail" => (tx[r].email \in setting.emails /\ tx[r].password \in Temps)
    /\ tx[r].op = "signIn" => tx[r] \in [op : {"signIn"}, email : setting.emails,
                                         password : Passwords \cup {m.password : m \in inbox},
                                         step : {"temp", "dao"}]
    /\ tx[r].op = "follow" => (/\ tx[r].follower \in Ids /\ tx[r].followee \in Ids
                               /\ tx[r].follower # tx[r].followee)
    /\ tx[r].op = "room" => (/\ tx[r].pair \in Ids \X Ids /\ tx[r].pair[1] # tx[r].pair[2]
                             /\ (~setting.overlap) => FindRooms(tx[r].pair[1], tx[r].pair[2]) = {})

Transactions == \A r \in Requests : pc[r] = "open" => TxOK(r)

OneByOne == ~setting.overlap =>
                \A q, r \in Requests : pc[q] = "open" /\ pc[r] = "open" => q = r

\* An account has the name of a request that is through, and whoever is known by
\* an identity has its address.
AccountsOK ==
    \A a \in Ids : /\ pc[a] = "done"
                   /\ account[a].identity # None =>
                          account[a].email.address = AddressOf[account[a].identity]

TempsOK == \A s \in Spelled : temp[s] # None => s \in setting.emails

\* What Judge keeps.
Books ==
    /\ right \subseteq ever /\ ever \subseteq Requests
    /\ \A r \in right : pc[r] # "new"
    /\ right \cap SigningIn \subseteq RightNow
    /\ RightNow \subseteq ever

Lowers == \A s \in setting.emails : s.lower

\* A log-in on its way knows enough for SignInDecides: one that the temporary
\* password is about to let in has been right, and one that has got past it is
\* right by its chosen password only.
Deciding(r) ==
    pc[r] # "new" /\ tx[r].op = "signIn" =>
        /\ pc[r] = "open" /\ tx[r].step = "temp"
               /\ temp[[tx[r].email EXCEPT !.lower = TRUE]] = tx[r].password => r \in ever
        /\ pc[r] = "open" /\ tx[r].step = "dao" /\ Lowers /\ r \in right =>
               \A s \in Spelled : s.address = tx[r].email.address => temp[s] # tx[r].password
        /\ pc[r] = "done" => r \in ever
        /\ pc[r] = "failed" /\ Lowers => r \notin right

\* Nobody follows himself or talks to himself, and where transactions do not
\* overlap two people have one conversation.
RelationsOK ==
    /\ follow \subseteq Follows
    /\ \A f \in follow : f.follower \in Ids /\ f.followee \in Ids /\ f.follower # f.followee
    /\ room \in [Requests -> Requests \X Requests \cup {None}]
    /\ \A x \in Rooms : room[x] \in Ids \X Ids /\ room[x][1] # room[x][2]
    /\ ~setting.overlap =>
           \A x, y \in Rooms : room[x][1] \in {room[y][1], room[y][2]}
                                   /\ room[x][2] \in {room[y][1], room[y][2]} => x = y

IInv ==
    /\ setting \in Modes
    /\ AccountTyped /\ AccessTyped /\ ProgressTyped
    /\ Transactions /\ OneByOne
    /\ AccountsOK /\ OneAccount
    /\ TempsOK
    /\ Books /\ \A r \in Requests : Deciding(r)
    /\ RelationsOK

-----------------------------------------------------------------------------
(* What the invariant says of the properties.                               *)

LEMMA SettingFacts ==
  ASSUME setting \in Modes
  PROVE  setting.emails \subseteq Spelled /\ setting.overlap \in BOOLEAN
  BY AccountsAssumption DEF Settings

\* Two of the numbers 1 and 2 are both.
LEMMA BothOfTwo ==
  ASSUME NEW S, S \subseteq 1..2
  PROVE  Cardinality(S) = 2 <=> 1 \in S /\ 2 \in S
  <1>1. 1..2 = {1, 2} /\ Cardinality(1..2) = 2
    <2>1. 1..2 = {1, 2}
      OBVIOUS
    <2>2. IsFiniteSet({1}) /\ Cardinality({1}) = 1
      BY FS_Singleton, Zenon
    <2>3. Cardinality({1} \cup {2}) = Cardinality({1}) + 1
      BY <2>2, FS_AddElement
    <2>4. QED
      BY <2>1, <2>2, <2>3
  <1>2. CASE 1 \in S /\ 2 \in S
    <2>1. S = 1..2
      BY <1>1, <1>2
    <2>2. QED
      BY <1>1, <1>2, <2>1
  <1>3. CASE ~(1 \in S /\ 2 \in S)
    <2>1. S = {} \/ S = {1} \/ S = {2}
      BY <1>1, <1>3
    <2>2. Cardinality({}) = 0 /\ Cardinality({1}) = 1 /\ Cardinality({2}) = 1
      BY FS_EmptySet, FS_Singleton, Zenon
    <2>3. Cardinality(S) = 0 \/ Cardinality(S) = 1
      BY <2>1, <2>2, Zenon
    <2>4. QED
      BY <1>3, <2>3
  <1>4. QED
    BY <1>2, <1>3

\* findDmIdByParticipants counts two participants exactly if both of the room's
\* are among the two it looks for.
LEMMA RoomsFound ==
  ASSUME NEW u, NEW w
  PROVE  FindRooms(u, w) = {x \in Rooms : room[x][1] \in {u, w} /\ room[x][2] \in {u, w}}
  <1>1. ASSUME NEW x
        PROVE  Cardinality({i \in 1..2 : room[x][i] \in {u, w}}) = 2
                   <=> room[x][1] \in {u, w} /\ room[x][2] \in {u, w}
    <2> DEFINE S == {i \in 1..2 : room[x][i] \in {u, w}}
    <2>1. (1 \in S <=> room[x][1] \in {u, w}) /\ (2 \in S <=> room[x][2] \in {u, w})
      OBVIOUS
    <2>2. S \subseteq 1..2
      OBVIOUS
    <2> HIDE DEF S
    <2>3. QED
      BY <2>1, <2>2, BothOfTwo DEF S
  <1>2. QED
    BY <1>1 DEF FindRooms

LEMMA InvOneRoom ==
  ASSUME IInv, NEW u \in Ids, NEW w \in Ids, u # w
  PROVE  /\ \A x \in FindRooms(u, w) : {room[x][1], room[x][2]} = {u, w}
         /\ ~setting.overlap => Cardinality(FindRooms(u, w)) <= 1
  <1>1. \A x \in FindRooms(u, w) :
            x \in Rooms /\ room[x][1] \in {u, w} /\ room[x][2] \in {u, w}
    BY RoomsFound
  <1>2. \A x \in FindRooms(u, w) : {room[x][1], room[x][2]} = {u, w}
    BY <1>1 DEF IInv, RelationsOK
  <1>3. ASSUME ~setting.overlap PROVE Cardinality(FindRooms(u, w)) <= 1
    <2>1. \A x, y \in FindRooms(u, w) : x = y
      BY <1>1, <1>2, <1>3 DEF IInv, RelationsOK
    <2>2. CASE FindRooms(u, w) = {}
      BY <2>2, FS_EmptySet
    <2>3. ASSUME NEW x \in FindRooms(u, w) PROVE Cardinality(FindRooms(u, w)) <= 1
      <3>1. FindRooms(u, w) = {x}
        BY <2>1
      <3>2. Cardinality({x}) = 1
        BY FS_Singleton, Zenon
      <3>3. QED
        BY <3>1, <3>2
    <2>4. QED
      BY <2>2, <2>3
  <1>4. QED
    BY <1>2, <1>3

LEMMA InvImplies == IInv => RelationsInv /\ OneAccount /\ SignInDecides
  <1> SUFFICES ASSUME IInv PROVE RelationsInv /\ SignInDecides
    BY DEF IInv
  <1>1. TypeOK
    BY DEF IInv, TypeOK, AccountTyped, AccessTyped, ProgressTyped, Books
  <1>2. RelationsTypeOK
    BY <1>1 DEF IInv, RelationsTypeOK, RelationsOK
  <1>3. RoomOfTheTwo
    BY InvOneRoom DEF RoomOfTheTwo
  <1>4. ASSUME NEW r \in Requests, pc[r] # "new", tx[r].op = "signIn"
        PROVE  /\ pc[r] = "done" => r \in ever
               /\ pc[r] = "failed" /\ (\A s \in setting.emails : s.lower) => r \notin right
    <2>1. Deciding(r)
      BY DEF IInv
    <2>2. QED
      BY <1>4, <2>1 DEF Deciding, Lowers
  <1>5. QED
    BY <1>2, <1>3, <1>4 DEF RelationsInv, SignInDecides

-----------------------------------------------------------------------------
(* What the steps have in common.                                           *)

\* Request r moves to s and now does t.
Moves(r, s, t) ==
    /\ pc' = [pc EXCEPT ![r] = s]
    /\ tx' = [tx EXCEPT ![r] = t]

\* Accounts are added, and keep their address and identity.
Grows ==
    /\ AccountTyped'
    /\ \A a \in Ids : /\ a \in Ids'
                      /\ account'[a].email = account[a].email
                      /\ account'[a].identity = account[a].identity

LEMMA MovesEffect ==
  ASSUME ProgressTyped, NEW r \in Requests, NEW s \in {"open", "done", "failed"},
         NEW t, t.op \in Ops, Moves(r, s, t)
  PROVE  /\ ProgressTyped'
         /\ pc'[r] = s /\ tx'[r] = t
         /\ \A q \in Requests \ {r} : pc'[q] = pc[q] /\ tx'[q] = tx[q]
  BY DEF ProgressTyped, Moves

LEMMA BeginMoves ==
  ASSUME NEW r \in Requests, NEW goes \in BOOLEAN, NEW t, Begin(r, goes, t)
  PROVE  /\ MayStart(r) /\ Moves(r, IF goes THEN "open" ELSE "failed", t)
         /\ (IF goes THEN "open" ELSE "failed") \in {"open", "failed"}
         /\ goes <=> (IF goes THEN "open" ELSE "failed") = "open"
  BY DEF Begin, Moves

LEMMA EndMoves ==
  ASSUME ProgressTyped, NEW r \in Requests, pc[r] = "open",
         NEW how \in {"done", "failed"}, End(r, how)
  PROVE  /\ Moves(r, how, [op |-> tx[r].op])
         /\ [op |-> tx[r].op].op \in Ops /\ [op |-> tx[r].op].op = tx[r].op
  BY DEF ProgressTyped, End, Moves

LEMMA AccountsStay ==
  ASSUME AccountTyped, UNCHANGED account
  PROVE  Grows /\ Ids' = Ids
  BY DEF Grows, AccountTyped, Ids

\* What another request has read stays true.
LEMMA OthersKeep ==
  ASSUME setting \in Modes, UNCHANGED setting, Grows, inbox \subseteq inbox',
         NEW q \in Requests, TxOK(q), tx'[q] = tx[q],
         setting.overlap \/ UNCHANGED room
  PROVE  TxOK(q)'
  <1>1. \A u, w : setting.overlap \/ FindRooms(u, w)' = FindRooms(u, w)
    BY DEF FindRooms, Rooms
  <1>2. \A p : p \in {m.password : m \in inbox} => p \in {m.password : m \in inbox}'
    OBVIOUS
  <1>3. Ids \subseteq Ids'
    BY DEF Grows, Ids
  <1>4. tx[q].op = "edit" => (/\ tx[q].id \in Ids' /\ tx[q].row \in Rows
                              /\ tx[q].row.email = account'[tx[q].id].email
                              /\ tx[q].row.identity = account'[tx[q].id].identity)
    BY DEF Grows, TxOK
  <1>5. tx[q].op = "room" => (/\ tx[q].pair \in Ids' \X Ids' /\ tx[q].pair[1] # tx[q].pair[2]
                              /\ (~setting.overlap) => FindRooms(tx[q].pair[1], tx[q].pair[2])' = {})
    BY <1>1, <1>3 DEF TxOK
  <1>6. tx[q].op = "signIn" => tx[q] \in [op : {"signIn"}, email : setting.emails,
                                         password : Passwords \cup {m.password : m \in inbox'},
                                         step : {"temp", "dao"}]
    BY <1>2 DEF TxOK
  <1>7. QED
    BY <1>3, <1>4, <1>5, <1>6 DEF TxOK

\* The other requests after a step of r.
LEMMA TransactionsKeep ==
  ASSUME IInv, UNCHANGED setting, Grows, inbox \subseteq inbox',
         NEW r \in Requests, pc[r] = "open" \/ MayStart(r),
         \A q \in Requests \ {r} : pc'[q] = pc[q] /\ tx'[q] = tx[q],
         pc'[r] = "open" => TxOK(r)'
  PROVE  Transactions' /\ OneByOne'
  <1>1. ASSUME NEW q \in Requests, q # r, pc'[q] = "open" PROVE TxOK(q)' /\ setting.overlap
    <2>1. pc[q] = "open" /\ TxOK(q)
      BY <1>1 DEF IInv, Transactions
    <2>2. setting.overlap
      BY <1>1, <2>1 DEF IInv, OneByOne, MayStart
    <2>3. QED
      BY <1>1, <2>1, <2>2, OthersKeep DEF IInv
  <1>2. Transactions'
    BY <1>1 DEF Transactions
  <1>3. OneByOne'
    BY <1>1 DEF OneByOne
  <1>4. QED
    BY <1>2, <1>3

LEMMA RelationsStay ==
  ASSUME RelationsOK, UNCHANGED <<setting, relations>>, Grows
  PROVE  RelationsOK'
  <1>1. Ids \subseteq Ids' /\ Rooms' = Rooms
    BY DEF Grows, relations, Rooms
  <1>2. \A x \in Rooms : room[x] \in Ids' \X Ids' /\ room[x][1] # room[x][2]
    BY <1>1 DEF RelationsOK
  <1>3. QED
    BY <1>1, <1>2 DEF RelationsOK, relations

LEMMA JudgeFacts ==
  ASSUME ProgressTyped, Books, Judge,
         \A q \in Requests : pc[q] # "new" => pc'[q] # "new"
  PROVE  /\ Books' /\ ever \subseteq ever' /\ RightNow' \subseteq ever'
         /\ \A q \in right' : q \in right \/ (pc[q] = "new" /\ q \in SigningIn')
  <1>1. SigningIn' \subseteq Requests /\ \A q \in SigningIn' : pc'[q] = "open"
    BY DEF SigningIn
  <1>2. RightNow' \subseteq SigningIn'
    BY DEF RightNow
  <1>3. \A q \in right' : /\ q \in RightNow' \/ q \in Requests \ SigningIn'
                          /\ q \in right \/ (pc[q] = "new" /\ q \in SigningIn')
    BY DEF Judge
  <1>4. ever' = ever \cup RightNow'
    BY DEF Judge
  <1>5. \A q \in right' : q \in ever' /\ pc'[q] # "new" /\ (q \in SigningIn' => q \in RightNow')
    BY <1>1, <1>3, <1>4 DEF Books
  <1>6. ever' \subseteq Requests
    BY <1>1, <1>2, <1>4 DEF Books
  <1>7. QED
    BY <1>3, <1>4, <1>5, <1>6 DEF Books

\* Nothing becomes the password that log-in q tries.
NoneBecomes(q) ==
    pc[q] = "open" /\ tx[q].op = "signIn" =>
        \A s \in Spelled : temp'[s] = temp[s] \/ temp'[s] # tx[q].password

\* A request that does not move decides as before.
LEMMA DecidingKeeps ==
  ASSUME IInv, UNCHANGED setting, NEW q \in Requests, Deciding(q), NoneBecomes(q),
         ever \subseteq ever',
         q \in right' => q \in right \/ (pc[q] = "new" /\ q \in SigningIn'),
         pc'[q] = pc[q], tx'[q] = tx[q]
  PROVE  Deciding(q)'
  <1> SUFFICES ASSUME pc[q] # "new", tx[q].op = "signIn" PROVE Deciding(q)'
    BY DEF Deciding
  <1>1. q \in right' => q \in right
    OBVIOUS
  <1>2. CASE pc[q] = "open"
    <2>1. tx[q].email \in Spelled
      BY <1>2, SettingFacts DEF IInv, Transactions, TxOK
    <2>2. [tx[q].email EXCEPT !.lower = TRUE] \in Spelled
      BY <2>1 DEF Spelled
    <2>3. \A s \in Spelled : temp'[s] = tx[q].password => temp[s] = tx[q].password
      BY <1>2 DEF NoneBecomes
    <2>4. QED
      BY <1>1, <1>2, <2>2, <2>3 DEF Deciding, Lowers
  <1>3. CASE pc[q] # "open"
    BY <1>1, <1>3 DEF Deciding, Lowers
  <1>4. QED
    BY <1>2, <1>3

\* A step of request r keeps the invariant, as far as what it writes does.
LEMMA RequestKeeps ==
  ASSUME IInv, UNCHANGED setting, Judge, NEW r \in Requests,
         NEW s \in {"open", "done", "failed"}, NEW t, t.op \in Ops, Moves(r, s, t),
         pc[r] = "open" \/ MayStart(r), s = "open" => TxOK(r)',
         Grows, AccountsOK', OneAccount',
         AccessTyped', TempsOK', inbox \subseteq inbox', \A q \in Requests : NoneBecomes(q),
         Deciding(r)', RelationsOK'
  PROVE  IInv'
  <1>1. /\ ProgressTyped' /\ pc'[r] = s /\ tx'[r] = t
        /\ \A q \in Requests \ {r} : pc'[q] = pc[q] /\ tx'[q] = tx[q]
    BY MovesEffect DEF IInv
  <1>2. Transactions' /\ OneByOne'
    BY <1>1, TransactionsKeep
  <1>3. /\ Books' /\ ever \subseteq ever'
        /\ \A q \in right' : q \in right \/ (pc[q] = "new" /\ q \in SigningIn')
    BY <1>1, JudgeFacts DEF IInv
  <1>4. ASSUME NEW q \in Requests PROVE Deciding(q)'
    BY <1>1, <1>3, DecidingKeeps DEF IInv
  <1>5. QED
    BY <1>1, <1>2, <1>3, <1>4 DEF IInv, Grows

\* One that leaves the accounts and the passwords alone.
LEMMA QuietKeeps ==
  ASSUME IInv, UNCHANGED <<setting, account, access, relations>>, Judge, NEW r \in Requests,
         NEW s \in {"open", "done", "failed"}, NEW t, t.op \in Ops, Moves(r, s, t),
         pc[r] = "open" \/ MayStart(r), s = "open" => TxOK(r)', Deciding(r)'
  PROVE  IInv'
  <1>1. Grows /\ Ids' = Ids
    BY AccountsStay DEF IInv
  <1>2. pc[r] # "done"
    BY DEF MayStart
  <1>3. \A q \in Requests \ {r} : pc'[q] = pc[q]
    BY MovesEffect DEF IInv
  <1>4. AccountsOK' /\ OneAccount'
    BY <1>1, <1>2, <1>3 DEF IInv, AccountsOK, OneAccount, Ids
  <1>5. AccessTyped' /\ TempsOK' /\ inbox \subseteq inbox' /\ \A q \in Requests : NoneBecomes(q)
    BY DEF IInv, AccessTyped, TempsOK, access, NoneBecomes
  <1>6. RelationsOK'
    BY <1>1, RelationsStay DEF IInv
  <1>7. QED
    BY <1>1, <1>4, <1>5, <1>6, RequestKeeps

-----------------------------------------------------------------------------
(* The steps of accounts.                                                   *)

\* What a log-in decides is another matter for whoever does something else.
LEMMA OtherDeciding ==
  ASSUME NEW r, tx'[r].op # "signIn"
  PROVE  Deciding(r)'
  BY DEF Deciding

\* A transaction that starts and reads only.
LEMMA BeginKeeps ==
  ASSUME IInv, UNCHANGED <<setting, account, access, relations>>, Judge, NEW r \in Requests,
         NEW goes \in BOOLEAN, NEW t, t.op \in Ops \ {"signIn"}, Begin(r, goes, t),
         tx'[r] = t => TxOK(r)'
  PROVE  IInv'
  <1> DEFINE s == IF goes THEN "open" ELSE "failed"
  <1>1. MayStart(r) /\ Moves(r, s, t) /\ s \in {"open", "done", "failed"}
    BY BeginMoves
  <1>2. tx'[r] = t
    BY <1>1, MovesEffect DEF IInv
  <1>3. Deciding(r)'
    BY <1>2, OtherDeciding
  <1> HIDE DEF s
  <1>4. QED
    BY <1>1, <1>2, <1>3, QuietKeeps

LEMMA SignUpKeeps ==
  ASSUME IInv, UNCHANGED <<setting, relations>>, Judge, NEW r \in Requests,
         NEW s \in setting.emails, NEW p \in Passwords, SignUp(r, s, p)
  PROVE  IInv'
  <1> DEFINE t == [op |-> "signUp", email |-> s, password |-> p]
  <1>1. t.op \in Ops \ {"signIn"}
    BY DEF Ops
  <1>2. tx'[r] = t => TxOK(r)'
    BY SettingFacts DEF IInv, TxOK
  <1>3. Begin(r, Owners(s) = {}, t) /\ UNCHANGED <<account, access>>
    BY DEF SignUp
  <1> HIDE DEF t
  <1>4. QED
    BY <1>1, <1>2, <1>3, BeginKeeps

LEMMA LoadOauthUserKeeps ==
  ASSUME IInv, UNCHANGED <<setting, relations>>, Judge, NEW r \in Requests,
         NEW i \in Identities, LoadOauthUser(r, i)
  PROVE  IInv'
  <1> DEFINE t == [op |-> "oauth", identity |-> i]
             s == IF \E a \in Ids : account[a].identity = i THEN "done" ELSE "open"
  <1>1. /\ MayStart(r) /\ Moves(r, s, t) /\ s \in {"open", "done", "failed"}
        /\ UNCHANGED <<account, access>> /\ t.op \in Ops
    BY DEF LoadOauthUser, Moves, Ops
  <1>2. tx'[r] = t
    BY <1>1, MovesEffect DEF IInv
  <1>3. Deciding(r)' /\ TxOK(r)'
    BY <1>2, OtherDeciding DEF TxOK
  <1> HIDE DEF s, t
  <1>4. QED
    BY <1>1, <1>3, QuietKeeps

LEMMA ChangePasswordKeeps ==
  ASSUME IInv, UNCHANGED <<setting, relations>>, Judge, NEW r \in Requests,
         NEW a \in Ids, NEW p \in Passwords, ChangePassword(r, a, p)
  PROVE  IInv'
  <1> DEFINE row == [account[a] EXCEPT !.password = p]
             t   == [op |-> "edit", id |-> a, row |-> row]
  <1>1. t.op \in Ops \ {"signIn"}
    BY DEF Ops
  <1>2. row \in Rows /\ row.email = account[a].email /\ row.identity = account[a].identity
    BY DEF IInv, AccountTyped, Ids, Rows
  <1>3. Begin(r, TRUE, t) /\ UNCHANGED <<account, access>>
    BY DEF ChangePassword
  <1>4. tx'[r] = t => TxOK(r)'
    <2> HIDE DEF row
    <2>1. QED
      BY <1>2, <1>3 DEF TxOK, Ids
  <1> HIDE DEF t
  <1>5. QED
    BY <1>1, <1>3, <1>4, BeginKeeps

LEMMA UpdateLockedKeeps ==
  ASSUME IInv, UNCHANGED <<setting, relations>>, Judge, NEW r \in Requests,
         NEW a \in Ids, NEW locked \in BOOLEAN, UpdateLocked(r, a, locked)
  PROVE  IInv'
  <1> DEFINE row == [account[a] EXCEPT !.locked = locked]
             t   == [op |-> "edit", id |-> a, row |-> row]
  <1>1. t.op \in Ops \ {"signIn"}
    BY DEF Ops
  <1>2. row \in Rows /\ row.email = account[a].email /\ row.identity = account[a].identity
    BY DEF IInv, AccountTyped, Ids, Rows
  <1>3. Begin(r, TRUE, t) /\ UNCHANGED <<account, access>>
    BY DEF UpdateLocked
  <1>4. tx'[r] = t => TxOK(r)'
    <2> HIDE DEF row
    <2>1. QED
      BY <1>2, <1>3 DEF TxOK, Ids
  <1> HIDE DEF t
  <1>5. QED
    BY <1>1, <1>3, <1>4, BeginKeeps

\* A new row, of an address that nobody has and, with an identity, the address
\* of that.
LEMMA StoreKeeps ==
  ASSUME IInv, UNCHANGED <<setting, relations>>, Judge, NEW r \in Requests,
         pc[r] = "open", tx[r].op # "signIn", NEW row \in Rows, Store(r, row),
         row.identity # None => row.email.address = AddressOf[row.identity]
  PROVE  IInv'
  <1>1. Moves(r, "done", [op |-> tx[r].op]) /\ [op |-> tx[r].op].op \in Ops
    BY EndMoves DEF IInv, Store
  <1>2. /\ pc'[r] = "done" /\ tx'[r] = [op |-> tx[r].op]
        /\ \A q \in Requests \ {r} : pc'[q] = pc[q]
    BY <1>1, MovesEffect DEF IInv
  <1>3. r \notin Ids
    BY DEF IInv, AccountsOK
  <1>4. /\ account'[r] = row /\ row # None
        /\ \A a \in Requests \ {r} : account'[a] = account[a]
        /\ AccountTyped'
    BY AccountsAssumption DEF IInv, AccountTyped, Store
  <1>5. Ids' = Ids \cup {r}
    BY <1>3, <1>4 DEF Ids
  <1>6. Grows
    BY <1>3, <1>4, <1>5 DEF Grows, Ids
  <1>7. \A a \in Ids : account[a].email.address # row.email.address
    BY DEF Store, Unique, Owners
  <1>8. AccountsOK'
    BY <1>2, <1>3, <1>4, <1>5 DEF IInv, AccountsOK, Ids
  <1>9. OneAccount'
    <2>1. \A a \in Ids : /\ account'[a].email = account[a].email /\ a # r
                         /\ account'[a].identity = account[a].identity
      BY <1>3, <1>6 DEF Grows
    <2>2. \A a \in Ids : account[a].identity = row.identity => row.identity = None
      BY <1>7 DEF IInv, AccountsOK
    <2>3. QED
      BY <1>4, <1>5, <1>7, <2>1, <2>2 DEF IInv, OneAccount
  <1>10. AccessTyped' /\ TempsOK' /\ inbox \subseteq inbox' /\ \A q \in Requests : NoneBecomes(q)
    BY DEF Store, IInv, AccessTyped, TempsOK, access, NoneBecomes
  <1>11. Deciding(r)'
    BY <1>2, OtherDeciding
  <1>12. RelationsOK'
    BY <1>6, RelationsStay DEF IInv
  <1>13. QED
    BY <1>1, <1>6, <1>8, <1>9, <1>10, <1>11, <1>12, RequestKeeps

LEMMA CommitSignUpKeeps ==
  ASSUME IInv, UNCHANGED <<setting, relations>>, Judge, NEW r \in Requests, CommitSignUp(r)
  PROVE  IInv'
  <1> DEFINE row == [email |-> tx[r].email, password |-> tx[r].password,
                     identity |-> None, locked |-> FALSE]
  <1>1. pc[r] = "open" /\ tx[r].op = "signUp" /\ Store(r, row)
    BY DEF CommitSignUp, Doing
  <1>2. tx[r].email \in Spelled /\ tx[r].password \in Passwords
    BY <1>1 DEF IInv, Transactions, TxOK
  <1>3. row \in Rows /\ row.identity = None
    BY <1>2 DEF Rows
  <1> HIDE DEF row
  <1>4. QED
    BY <1>1, <1>3, StoreKeeps

LEMMA SaveOauthUserKeeps ==
  ASSUME IInv, UNCHANGED <<setting, relations>>, Judge, NEW r \in Requests, SaveOauthUser(r)
  PROVE  IInv'
  <1>1. pc[r] = "open" /\ tx[r].op = "oauth"
    BY DEF SaveOauthUser, Doing
  <1>2. PICK s \in setting.emails :
            /\ s.address = AddressOf[tx[r].identity]
            /\ Store(r, [email |-> s, password |-> None,
                         identity |-> tx[r].identity, locked |-> FALSE])
    BY DEF SaveOauthUser
  <1> DEFINE row == [email |-> s, password |-> None,
                     identity |-> tx[r].identity, locked |-> FALSE]
  <1>3. tx[r].identity \in Identities
    BY <1>1 DEF IInv, Transactions, TxOK
  <1>4. row \in Rows /\ row.email = s /\ row.identity = tx[r].identity
    BY <1>3, SettingFacts DEF IInv, Rows
  <1> HIDE DEF row
  <1>5. QED
    BY <1>1, <1>2, <1>4, StoreKeeps DEF row

LEMMA CommitEditKeeps ==
  ASSUME IInv, UNCHANGED <<setting, relations>>, Judge, NEW r \in Requests, CommitEdit(r)
  PROVE  IInv'
  <1> DEFINE a   == tx[r].id
             row == tx[r].row
  <1>1. pc[r] = "open" /\ tx[r].op = "edit" /\ End(r, "done")
    BY DEF CommitEdit, Doing
  <1>2. /\ a \in Ids /\ row \in Rows /\ row # None
        /\ row.email = account[a].email /\ row.identity = account[a].identity
    BY <1>1, AccountsAssumption DEF IInv, Transactions, TxOK
  <1>3. Moves(r, "done", [op |-> tx[r].op]) /\ [op |-> tx[r].op].op \in Ops
    BY <1>1, EndMoves DEF IInv
  <1>4. /\ pc'[r] = "done" /\ tx'[r] = [op |-> tx[r].op]
        /\ \A q \in Requests \ {r} : pc'[q] = pc[q]
    BY <1>3, MovesEffect DEF IInv
  <1>5. account' = [account EXCEPT ![a] = row] /\ UNCHANGED access
    BY DEF CommitEdit
  <1> HIDE DEF a, row
  <1>6. AccountTyped' /\ account'[a] = row /\ \A b \in Requests \ {a} : account'[b] = account[b]
    BY <1>2, <1>5 DEF IInv, AccountTyped, Ids
  <1>7. Ids' = Ids
    BY <1>2, <1>6 DEF Ids
  <1>8. Grows
    BY <1>2, <1>6, <1>7 DEF Grows, Ids
  <1>9. AccountsOK'
    BY <1>4, <1>7, <1>8 DEF Grows, IInv, AccountsOK, Ids
  <1>10. OneAccount'
    BY <1>7, <1>8 DEF Grows, IInv, OneAccount
  <1>11. AccessTyped' /\ TempsOK' /\ inbox \subseteq inbox' /\ \A q \in Requests : NoneBecomes(q)
    BY <1>5 DEF IInv, AccessTyped, TempsOK, access, NoneBecomes
  <1>12. Deciding(r)'
    BY <1>1, <1>4, OtherDeciding
  <1>13. RelationsOK'
    BY <1>8, RelationsStay DEF IInv
  <1>14. QED
    BY <1>1, <1>3, <1>8, <1>9, <1>10, <1>11, <1>12, <1>13, RequestKeeps

LEMMA FailKeeps ==
  ASSUME IInv, UNCHANGED <<setting, relations>>, Judge, NEW r \in Requests, Fail(r)
  PROVE  IInv'
  <1> DEFINE t == [op |-> tx[r].op]
  <1>1. Moves(r, "failed", t) /\ t.op \in Ops
    BY EndMoves DEF IInv, Fail
  <1>2. tx'[r] = t /\ t.op # "signIn"
    BY <1>1, MovesEffect DEF IInv, Fail
  <1>3. Deciding(r)'
    BY <1>2, OtherDeciding
  <1> HIDE DEF t
  <1>4. QED
    BY <1>1, <1>3, QuietKeeps DEF Fail

-----------------------------------------------------------------------------
(* The steps of temporary passwords.                                        *)

LEMMA ResetPasswordKeeps ==
  ASSUME IInv, UNCHANGED <<setting, relations>>, Judge, NEW r \in Requests,
         NEW s \in setting.emails, ResetPassword(r, s)
  PROVE  IInv'
  <1> DEFINE t == [op |-> "reset", email |-> s]
  <1>1. t.op \in Ops \ {"signIn"}
    BY DEF Ops
  <1>2. tx'[r] = t => TxOK(r)'
    BY DEF TxOK
  <1>3. Begin(r, Owners(s) # {}, t) /\ UNCHANGED <<account, access>>
    BY DEF ResetPassword
  <1> HIDE DEF t
  <1>4. QED
    BY <1>1, <1>2, <1>3, BeginKeeps

\* What a log-in tries is not issued a second time.
LEMMA TriedIsIssued ==
  ASSUME IInv, NEW q \in Requests, pc[q] = "open", tx[q].op = "signIn",
         NEW t \in Temps \ Issued
  PROVE  t # tx[q].password
  <1>1. tx[q].password \in Passwords \cup {m.password : m \in inbox}
    BY DEF IInv, Transactions, TxOK
  <1>2. {m.password : m \in inbox} \subseteq Issued
    BY DEF Issued
  <1>3. QED
    BY <1>1, <1>2, AccountsAssumption

LEMMA SetTempKeeps ==
  ASSUME IInv, UNCHANGED <<setting, relations>>, Judge, NEW r \in Requests, SetTemp(r)
  PROVE  IInv'
  <1>1. pc[r] = "open" /\ tx[r].op = "reset" /\ UNCHANGED <<account, mail, inbox, pc>>
    BY DEF SetTemp, Doing
  <1>2. PICK t \in Temps \ Issued :
            /\ temp' = [temp EXCEPT ![tx[r].email] = t]
            /\ tx' = [tx EXCEPT ![r] = [op |-> "mail", email |-> tx[r].email, password |-> t]]
    BY DEF SetTemp
  <1> DEFINE work == [op |-> "mail", email |-> tx[r].email, password |-> t]
  <1>3. tx[r].email \in setting.emails /\ tx[r].email \in Spelled
    BY <1>1, SettingFacts DEF IInv, Transactions, TxOK
  <1>4. Moves(r, "open", work) /\ work.op \in Ops
    BY <1>1, <1>2 DEF Moves, Ops, IInv, ProgressTyped
  <1>5. tx'[r] = work
    BY <1>4, MovesEffect DEF IInv
  <1>6. TxOK(r)'
    BY <1>3, <1>5 DEF TxOK
  <1>7. AccessTyped' /\ TempsOK'
    BY <1>1, <1>2, <1>3 DEF IInv, AccessTyped, TempsOK
  <1>8. \A q \in Requests : NoneBecomes(q)
    BY <1>2, TriedIsIssued DEF NoneBecomes, IInv, AccessTyped
  <1>9. Grows /\ Ids' = Ids
    BY <1>1, AccountsStay DEF IInv
  <1>10. AccountsOK' /\ OneAccount' /\ RelationsOK'
    BY <1>1, <1>9, RelationsStay DEF IInv, AccountsOK, OneAccount
  <1>11. Deciding(r)'
    BY <1>5, OtherDeciding
  <1> HIDE DEF work
  <1>12. QED
    BY <1>1, <1>4, <1>6, <1>7, <1>8, <1>9, <1>10, <1>11, RequestKeeps

LEMMA SendMailKeeps ==
  ASSUME IInv, UNCHANGED <<setting, relations>>, Judge, NEW r \in Requests, SendMail(r)
  PROVE  IInv'
  <1> DEFINE t == [op |-> tx[r].op]
  <1>1. pc[r] = "open" /\ tx[r].op = "mail" /\ End(r, "done") /\ UNCHANGED <<account, temp, inbox>>
    BY DEF SendMail, Doing
  <1>2. tx[r].email \in Spelled /\ tx[r].password \in Temps
    BY <1>1, SettingFacts DEF IInv, Transactions, TxOK
  <1>3. Moves(r, "done", t) /\ t.op \in Ops
    BY <1>1, EndMoves DEF IInv
  <1>4. tx'[r] = t /\ pc'[r] = "done" /\ \A q \in Requests \ {r} : pc'[q] = pc[q]
    BY <1>3, MovesEffect DEF IInv
  <1>5. AccessTyped' /\ TempsOK' /\ \A q \in Requests : NoneBecomes(q)
    BY <1>1, <1>2 DEF SendMail, IInv, AccessTyped, TempsOK, Mails, NoneBecomes
  <1>6. Grows /\ Ids' = Ids
    BY <1>1, AccountsStay DEF IInv
  <1>7. AccountsOK' /\ OneAccount' /\ RelationsOK'
    BY <1>1, <1>4, <1>6, RelationsStay DEF IInv, AccountsOK, OneAccount, Ids
  <1>8. Deciding(r)'
    BY <1>1, <1>4, OtherDeciding
  <1> HIDE DEF t
  <1>9. QED
    BY <1>1, <1>3, <1>5, <1>6, <1>7, <1>8, RequestKeeps

\* Mails arrive and keys expire while the requests stay where they are.
LEMMA TimeKeeps ==
  ASSUME IInv, UNCHANGED <<setting, relations, account, pc, tx>>, Judge,
         AccessTyped', TempsOK', inbox \subseteq inbox', \A q \in Requests : NoneBecomes(q)
  PROVE  IInv'
  <1>1. Grows /\ Ids' = Ids
    BY AccountsStay DEF IInv
  <1>2. Transactions' /\ OneByOne'
    BY <1>1, OthersKeep DEF IInv, Transactions, OneByOne, relations
  <1>3. AccountsOK' /\ OneAccount' /\ RelationsOK' /\ ProgressTyped'
    BY <1>1, RelationsStay DEF IInv, AccountsOK, OneAccount, ProgressTyped
  <1>4. /\ Books' /\ ever \subseteq ever'
        /\ \A q \in right' : q \in right \/ (pc[q] = "new" /\ q \in SigningIn')
    BY JudgeFacts DEF IInv
  <1>5. \A q \in Requests : Deciding(q)'
    BY <1>4, DecidingKeeps DEF IInv
  <1>6. QED
    BY <1>1, <1>2, <1>3, <1>4, <1>5 DEF IInv, Grows

LEMMA DeliverKeeps ==
  ASSUME IInv, UNCHANGED <<setting, relations>>, Judge, NEW m \in mail, Deliver(m)
  PROVE  IInv'
  <1>1. AccessTyped' /\ TempsOK' /\ inbox \subseteq inbox' /\ \A q \in Requests : NoneBecomes(q)
    BY DEF Deliver, IInv, AccessTyped, TempsOK, NoneBecomes
  <1>2. QED
    BY <1>1, TimeKeeps DEF Deliver

LEMMA ExpireKeeps ==
  ASSUME IInv, UNCHANGED <<setting, relations>>, Judge, NEW s \in Spelled, Expire(s)
  PROVE  IInv'
  <1>1. AccessTyped' /\ TempsOK' /\ inbox \subseteq inbox'
    BY DEF Expire, IInv, AccessTyped, TempsOK
  <1>2. ASSUME NEW q \in Requests PROVE NoneBecomes(q)
    <2> SUFFICES ASSUME pc[q] = "open", tx[q].op = "signIn" PROVE tx[q].password # None
      BY DEF Expire, NoneBecomes, IInv, AccessTyped
    <2>1. tx[q].password \in Passwords \cup {m.password : m \in inbox}
      BY DEF IInv, Transactions, TxOK
    <2>2. {m.password : m \in inbox} \subseteq Temps
      BY DEF IInv, AccessTyped, Mails
    <2>3. QED
      BY <2>1, <2>2, AccountsAssumption
  <1>3. QED
    BY <1>1, <1>2, TimeKeeps DEF Expire

-----------------------------------------------------------------------------
(* The steps of a log-in.                                                   *)

\* A log-in on its way is right in the new state exactly if its credentials are.
LEMMA RightThen ==
  ASSUME UNCHANGED <<account, temp>>, NEW r \in Requests, pc'[r] = "open",
         NEW t, tx'[r] = t, t.op = "signIn"
  PROVE  r \in SigningIn' /\ (r \in RightNow' <=> Right(t.email, t.password))
  <1>1. r \in SigningIn'
    BY DEF SigningIn
  <1>2. r \in RightNow' <=> Right(tx[r].email, tx[r].password)'
    BY <1>1 DEF RightNow
  <1>3. Right(tx[r].email, tx[r].password)' <=> Right(t.email, t.password)
    BY DEF Right, Owners, Ids
  <1>4. QED
    BY <1>1, <1>2, <1>3

LEMMA SignInKeeps ==
  ASSUME IInv, UNCHANGED <<setting, relations>>, Judge, NEW r \in Requests,
         NEW s \in setting.emails, NEW p \in Passwords \cup {m.password : m \in inbox},
         SignIn(r, s, p)
  PROVE  IInv'
  <1> DEFINE goes == \A a \in Owners(s) : ~account[a].locked
             t    == [op |-> "signIn", email |-> s, password |-> p,
                      step |-> IF Owners(s) = {} THEN "dao" ELSE "temp"]
             next == IF goes THEN "open" ELSE "failed"
  <1>1. Begin(r, goes, t) /\ UNCHANGED <<account, access>>
    BY DEF SignIn
  <1>2. /\ t.op = "signIn" /\ t.op \in Ops /\ t.email = s /\ t.password = p
        /\ t.step = (IF Owners(s) = {} THEN "dao" ELSE "temp")
    BY DEF Ops
  <1>3. MayStart(r) /\ Moves(r, next, t) /\ next \in {"open", "failed"} /\ (goes <=> next = "open")
    BY <1>1, BeginMoves
  <1> HIDE DEF goes, t, next
  <1>4. /\ pc'[r] = next /\ tx'[r] = t
        /\ \A q \in Requests \ {r} : pc'[q] = pc[q] /\ tx'[q] = tx[q]
    BY <1>2, <1>3, MovesEffect DEF IInv
  <1>5. /\ Books' /\ ever \subseteq ever' /\ RightNow' \subseteq ever'
        /\ \A q \in right' : q \in right \/ (pc[q] = "new" /\ q \in SigningIn')
    BY <1>3, <1>4, JudgeFacts DEF IInv
  <1>6. TxOK(r)'
    <2>1. t \in [op : {"signIn"}, email : setting.emails,
                 password : Passwords \cup {m.password : m \in inbox},
                 step : {"temp", "dao"}]
      BY DEF t
    <2>2. QED
      BY <1>1, <1>2, <1>4, <2>1 DEF TxOK, access
  <1>7. next = "open" => r \in SigningIn' /\ (r \in RightNow' <=> Right(s, p))
    BY <1>1, <1>2, <1>4, RightThen DEF access
  <1>8. s \in Spelled /\ [s EXCEPT !.lower = TRUE] \in Spelled
        /\ [s EXCEPT !.lower = TRUE].address = s.address
    BY SettingFacts DEF IInv, Spelled
  <1>9. ASSUME next = "open", t.step = "temp", temp[[s EXCEPT !.lower = TRUE]] = p
        PROVE  r \in ever'
    <2>1. PICK a : a \in Owners(s)
      BY <1>2, <1>9
    <2>2. ~account[a].locked
      BY <1>3, <1>9, <2>1 DEF goes
    <2>3. Right(s, p)
      BY <1>8, <1>9, <2>1, <2>2 DEF Right
    <2>4. QED
      BY <1>5, <1>7, <1>9, <2>3
  <1>10. ASSUME next = "open", t.step = "dao" PROVE r \notin right'
    <2>1. ~Right(s, p)
      BY <1>2, <1>10 DEF Right
    <2>2. QED
      BY <1>5, <1>7, <1>10, <2>1 DEF Books
  <1>11. ASSUME next = "failed" PROVE r \notin right'
    <2>1. r \notin right
      BY <1>3 DEF IInv, Books, MayStart
    <2>2. r \notin SigningIn'
      BY <1>4, <1>11 DEF SigningIn
    <2>3. QED
      BY <1>5, <2>1, <2>2
  <1>12. Deciding(r)'
    BY <1>1, <1>2, <1>3, <1>4, <1>9, <1>10, <1>11 DEF Deciding, access
  <1>13. QED
    BY <1>1, <1>2, <1>3, <1>6, <1>12, QuietKeeps

LEMMA TryTempKeeps ==
  ASSUME IInv, UNCHANGED <<setting, relations>>, Judge, NEW r \in Requests, TryTemp(r)
  PROVE  IInv'
  <1> DEFINE key == [tx[r].email EXCEPT !.lower = TRUE]
  <1>1. /\ pc[r] = "open" /\ tx[r].op = "signIn" /\ tx[r].step = "temp"
        /\ UNCHANGED <<account, access>>
    BY DEF TryTemp, Doing
  <1>2. tx[r] \in [op : {"signIn"}, email : setting.emails,
                   password : Passwords \cup {m.password : m \in inbox},
                   step : {"temp", "dao"}]
    BY <1>1 DEF IInv, Transactions, TxOK
  <1>3. /\ tx[r].email \in setting.emails
        /\ tx[r].password \in Passwords \cup {m.password : m \in inbox}
    BY <1>2
  <1>4. CASE temp[key] = tx[r].password
    <2> DEFINE t == [op |-> tx[r].op]
    <2>1. Moves(r, "done", t) /\ t.op \in Ops
      BY <1>1, <1>4, EndMoves DEF IInv, TryTemp
    <2>2. pc'[r] = "done" /\ \A q \in Requests \ {r} : pc'[q] = pc[q]
      BY <2>1, MovesEffect DEF IInv
    <2>3. r \in ever'
      BY <1>1, <1>4, <2>2, JudgeFacts DEF IInv, Deciding
    <2>4. Deciding(r)'
      BY <2>2, <2>3 DEF Deciding
    <2> HIDE DEF t
    <2>5. QED
      BY <1>1, <2>1, <2>4, QuietKeeps
  <1>5. CASE temp[key] # tx[r].password
    <2> DEFINE t == [tx[r] EXCEPT !.step = "dao"]
    <2>1. tx' = [tx EXCEPT ![r].step = "dao"] /\ UNCHANGED pc
      BY <1>5 DEF TryTemp
    <2>2. Moves(r, "open", t)
      BY <1>1, <2>1 DEF Moves, IInv, ProgressTyped
    <2>3. /\ t.op = "signIn" /\ t.op \in Ops /\ t.email = tx[r].email
          /\ t.password = tx[r].password /\ t.step = "dao"
          /\ t \in [op : {"signIn"}, email : setting.emails,
                   password : Passwords \cup {m.password : m \in inbox},
                   step : {"temp", "dao"}]
      BY <1>2 DEF Ops
    <2> HIDE DEF t
    <2>4. /\ pc'[r] = "open" /\ tx'[r] = t
          /\ \A q \in Requests : pc'[q] = pc[q]
      BY <2>1, <2>2, <2>3, MovesEffect DEF IInv
    <2>5. TxOK(r)'
      BY <1>1, <2>3, <2>4 DEF TxOK, access
    <2>6. ASSUME Lowers, NEW s \in Spelled, s.address = t.email.address
          PROVE  temp[s] # t.password
      <3>1. CASE temp[s] = None
        <4>1. {m.password : m \in inbox} \subseteq Temps
          BY DEF IInv, AccessTyped, Mails
        <4>2. QED
          BY <1>3, <2>3, <3>1, <4>1, AccountsAssumption
      <3>2. CASE temp[s] # None
        <4>1. s.lower
          BY <2>6, <3>2 DEF IInv, TempsOK, Lowers
        <4>2. tx[r].email \in Spelled
          BY <1>3, SettingFacts DEF IInv
        <4>3. s = key
          BY <2>3, <2>6, <4>1, <4>2 DEF Spelled
        <4>4. QED
          BY <1>5, <2>3, <4>3
      <3>3. QED
        BY <3>1, <3>2
    <2>7. Deciding(r)'
      BY <1>1, <2>3, <2>4, <2>6 DEF Deciding, Lowers, access
    <2>8. QED
      BY <1>1, <2>2, <2>3, <2>5, <2>7, QuietKeeps
  <1>6. QED
    BY <1>4, <1>5

LEMMA TryPasswordKeeps ==
  ASSUME IInv, UNCHANGED <<setting, relations>>, Judge, NEW r \in Requests, TryPassword(r)
  PROVE  IInv'
  <1> DEFINE fits == \E a \in Owners(tx[r].email) :
                         ~account[a].locked /\ account[a].password = tx[r].password
             how  == IF fits THEN "done" ELSE "failed"
             t    == [op |-> tx[r].op]
  <1>1. /\ pc[r] = "open" /\ tx[r].op = "signIn" /\ tx[r].step = "dao"
        /\ End(r, how) /\ UNCHANGED <<account, access>>
    BY DEF TryPassword, Doing
  <1>2. how \in {"done", "failed"} /\ (fits <=> how = "done")
    OBVIOUS
  <1> HIDE DEF fits, how
  <1>3. Moves(r, how, t) /\ t.op \in Ops
    BY <1>1, <1>2, EndMoves DEF IInv
  <1>4. pc'[r] = how /\ \A q \in Requests \ {r} : pc'[q] = pc[q]
    BY <1>2, <1>3, MovesEffect DEF IInv
  <1>5. /\ ever \subseteq ever'
        /\ \A q \in right' : q \in right \/ (pc[q] = "new" /\ q \in SigningIn')
    BY <1>2, <1>4, JudgeFacts DEF IInv
  <1>6. r \in SigningIn
    BY <1>1 DEF SigningIn
  <1>7. ASSUME how = "done" PROVE r \in ever'
    <2>1. Right(tx[r].email, tx[r].password)
      BY <1>2, <1>7 DEF Right, fits
    <2>2. QED
      BY <1>5, <1>6, <2>1 DEF IInv, Books, RightNow
  <1>8. ASSUME how = "failed", Lowers PROVE r \notin right'
    <2>1. SUFFICES ASSUME r \in right PROVE FALSE
      BY <1>1, <1>5
    <2>2. Right(tx[r].email, tx[r].password)
      BY <1>6, <2>1 DEF IInv, Books, RightNow
    <2>3. \A s \in Spelled : s.address = tx[r].email.address => temp[s] # tx[r].password
      BY <1>1, <1>8, <2>1 DEF IInv, Deciding
    <2>4. fits
      BY <2>2, <2>3 DEF Right, fits
    <2>5. QED
      BY <1>2, <1>8, <2>4
  <1>9. Deciding(r)'
    <2>1. Lowers' <=> Lowers
      BY DEF Lowers
    <2>2. QED
      BY <1>2, <1>4, <1>7, <1>8, <2>1 DEF Deciding
  <1> HIDE DEF t
  <1>10. QED
    BY <1>1, <1>2, <1>3, <1>9, QuietKeeps

-----------------------------------------------------------------------------
(* The steps of relations, in which nobody logs in.                         *)

LEMMA RelationKeeps ==
  ASSUME IInv, UNCHANGED <<setting, account, access, judged>>, NEW r \in Requests,
         NEW s \in {"open", "done", "failed"}, NEW t, t.op \in Ops \ {"signIn"}, Moves(r, s, t),
         (pc[r] = "open" /\ tx[r].op # "signIn") \/ MayStart(r), s = "open" => TxOK(r)',
         RelationsOK'
  PROVE  IInv'
  <1>1. /\ ProgressTyped' /\ pc'[r] = s /\ tx'[r] = t
        /\ \A q \in Requests \ {r} : pc'[q] = pc[q] /\ tx'[q] = tx[q]
    BY MovesEffect DEF IInv
  <1>2. Grows /\ Ids' = Ids
    BY AccountsStay DEF IInv
  <1>3. Transactions' /\ OneByOne'
    BY <1>1, <1>2, TransactionsKeep DEF access
  <1>4. AccountsOK' /\ OneAccount'
    BY <1>1, <1>2 DEF IInv, AccountsOK, OneAccount, Ids, MayStart
  <1>5. AccessTyped' /\ TempsOK' /\ \A q \in Requests : NoneBecomes(q)
    BY DEF IInv, AccessTyped, TempsOK, access, NoneBecomes
  <1>6. SigningIn' = SigningIn /\ r \notin SigningIn
    BY <1>1 DEF SigningIn, MayStart
  <1>7. \A q \in SigningIn : q \in RightNow' <=> q \in RightNow
    <2> TAKE q \in SigningIn
    <2>1. Right(tx[q].email, tx[q].password)' <=> Right(tx[q].email, tx[q].password)
      BY <1>1, <1>2, <1>6 DEF SigningIn, Right, Owners, access
    <2>2. QED
      BY <1>6, <2>1 DEF RightNow
  <1>8. Books'
    BY <1>1, <1>6, <1>7 DEF IInv, Books, judged, RightNow, MayStart
  <1>9. Deciding(r)'
    BY <1>1, OtherDeciding
  <1>10. ASSUME NEW q \in Requests \ {r} PROVE Deciding(q)'
    BY <1>1, <1>5, DecidingKeeps DEF IInv, judged
  <1>11. QED
    BY <1>1, <1>2, <1>3, <1>4, <1>5, <1>8, <1>9, <1>10 DEF IInv, Grows

LEMMA FollowKeeps ==
  ASSUME IInv, UNCHANGED <<setting, judged>>, NEW r \in Requests, NEW u \in Ids,
         NEW w \in Requests, Follow(r, u, w)
  PROVE  IInv'
  <1> DEFINE goes == /\ u # w
                     /\ \A f \in follow : f.follower = u => f.followee # w
                     /\ w \in Ids
             t    == [op |-> "follow", follower |-> u, followee |-> w]
             s    == IF goes THEN "open" ELSE "failed"
  <1>1. Begin(r, goes, t) /\ UNCHANGED <<account, access, relations>>
    BY DEF Follow
  <1>2. t.op \in Ops \ {"signIn"} /\ t.op = "follow" /\ t.follower = u /\ t.followee = w
    BY DEF Ops
  <1>3. goes => u # w /\ w \in Ids
    OBVIOUS
  <1>4. MayStart(r) /\ Moves(r, s, t) /\ s \in {"open", "failed"} /\ (goes <=> s = "open")
    BY <1>1, BeginMoves
  <1> HIDE DEF goes, t, s
  <1>5. tx'[r] = t
    BY <1>2, <1>4, MovesEffect DEF IInv
  <1>6. Grows /\ Ids' = Ids
    BY <1>1, AccountsStay DEF IInv
  <1>7. s = "open" => TxOK(r)'
    BY <1>2, <1>3, <1>4, <1>5, <1>6 DEF TxOK
  <1>8. RelationsOK'
    BY <1>1, <1>6, RelationsStay DEF IInv
  <1>9. QED
    BY <1>1, <1>2, <1>4, <1>7, <1>8, RelationKeeps

LEMMA CommitFollowKeeps ==
  ASSUME IInv, UNCHANGED <<setting, judged>>, NEW r \in Requests, CommitFollow(r)
  PROVE  IInv'
  <1> DEFINE t == [op |-> tx[r].op]
             f == [id |-> r, follower |-> tx[r].follower, followee |-> tx[r].followee]
  <1>1. /\ pc[r] = "open" /\ tx[r].op = "follow" /\ End(r, "done")
        /\ follow' = follow \cup {f} /\ UNCHANGED <<account, access, room>>
    BY DEF CommitFollow, Doing
  <1>2. Moves(r, "done", t) /\ t.op \in Ops \ {"signIn"}
    BY <1>1, EndMoves DEF IInv
  <1>3. /\ f \in Follows /\ f.follower \in Ids /\ f.followee \in Ids
        /\ f.follower # f.followee
    BY <1>1 DEF IInv, Transactions, TxOK, Follows, Ids
  <1>4. Ids' = Ids /\ Rooms' = Rooms
    BY <1>1 DEF Ids, Rooms
  <1> HIDE DEF t, f
  <1>5. RelationsOK'
    BY <1>1, <1>3, <1>4 DEF IInv, RelationsOK
  <1>6. QED
    BY <1>1, <1>2, <1>5, RelationKeeps

LEMMA UnfollowKeeps ==
  ASSUME IInv, UNCHANGED <<setting, judged>>, NEW r \in Requests, NEW u \in Ids,
         NEW f \in follow, Unfollow(r, u, f)
  PROVE  IInv'
  <1> DEFINE t == [op |-> "unfollow", row |-> f]
             s == IF f.follower = u THEN "open" ELSE "failed"
  <1>1. Begin(r, f.follower = u, t) /\ UNCHANGED <<account, access, relations>>
    BY DEF Unfollow
  <1>2. t.op \in Ops \ {"signIn"} /\ t.op = "unfollow"
    BY DEF Ops
  <1>3. MayStart(r) /\ Moves(r, s, t) /\ s \in {"open", "failed"}
    BY <1>1, BeginMoves
  <1> HIDE DEF t, s
  <1>4. TxOK(r)'
    BY <1>2, <1>3, MovesEffect DEF IInv, TxOK
  <1>5. RelationsOK'
    BY <1>1, AccountsStay, RelationsStay DEF IInv
  <1>6. QED
    BY <1>1, <1>2, <1>3, <1>4, <1>5, RelationKeeps

LEMMA CommitUnfollowKeeps ==
  ASSUME IInv, UNCHANGED <<setting, judged>>, NEW r \in Requests, CommitUnfollow(r)
  PROVE  IInv'
  <1> DEFINE t == [op |-> tx[r].op]
  <1>1. /\ pc[r] = "open" /\ tx[r].op = "unfollow" /\ End(r, "done")
        /\ follow' \subseteq follow /\ UNCHANGED <<account, access, room>>
    BY DEF CommitUnfollow, Doing
  <1>2. Moves(r, "done", t) /\ t.op \in Ops \ {"signIn"}
    BY <1>1, EndMoves DEF IInv
  <1>3. Ids' = Ids /\ Rooms' = Rooms
    BY <1>1 DEF Ids, Rooms
  <1> HIDE DEF t
  <1>4. RelationsOK'
    BY <1>1, <1>3 DEF IInv, RelationsOK
  <1>5. QED
    BY <1>1, <1>2, <1>4, RelationKeeps

LEMMA OpenRoomKeeps ==
  ASSUME IInv, UNCHANGED <<setting, judged>>, NEW r \in Requests, NEW u \in Ids,
         NEW w \in Requests, OpenRoom(r, u, w)
  PROVE  IInv'
  <1>1. UNCHANGED <<account, access, relations>>
    BY DEF OpenRoom
  <1>2. Ids' = Ids /\ RelationsOK'
    BY <1>1, AccountsStay, RelationsStay DEF IInv
  <1>3. CASE FindRooms(u, w) = {}
    <2> DEFINE goes == Shown(<<u, w>>, u)
               t    == [op |-> "room", pair |-> <<u, w>>]
               s    == IF goes THEN "open" ELSE "failed"
    <2>1. Begin(r, goes, t)
      BY <1>3 DEF OpenRoom
    <2>2. t.op \in Ops \ {"signIn"} /\ t.op = "room" /\ t.pair = <<u, w>>
      BY DEF Ops
    <2>3. goes \in BOOLEAN
      BY DEF Shown
    <2>4. goes => w # u /\ w \in Ids
      <3>1. \A i \in 1..2 : <<u, w>>[i] = u \/ <<u, w>>[i] = w
        OBVIOUS
      <3>2. QED
        BY <3>1 DEF Shown
    <2> HIDE DEF goes
    <2>5. MayStart(r) /\ Moves(r, s, t) /\ s \in {"open", "failed"} /\ (goes <=> s = "open")
      BY <2>1, <2>3, BeginMoves
    <2> HIDE DEF t, s
    <2>6. tx'[r] = t
      BY <2>2, <2>5, MovesEffect DEF IInv
    <2>7. FindRooms(u, w)' = {}
      BY <1>1, <1>3 DEF FindRooms, Rooms, relations
    <2>8. s = "open" => TxOK(r)'
      BY <1>2, <2>2, <2>4, <2>5, <2>6, <2>7 DEF TxOK
    <2>9. QED
      BY <1>1, <1>2, <2>2, <2>5, <2>8, RelationKeeps
  <1>4. CASE FindRooms(u, w) # {}
    <2> DEFINE t == [op |-> "room"]
               s == IF \E x \in FindRooms(u, w) : FindRooms(u, w) = {x} /\ Shown(room[x], u)
                    THEN "done" ELSE "failed"
    <2>1. MayStart(r) /\ Moves(r, s, t)
      BY <1>4 DEF OpenRoom, Moves
    <2>2. t.op \in Ops \ {"signIn"} /\ s \in {"done", "failed"}
      BY DEF Ops
    <2> HIDE DEF s, t
    <2>3. QED
      BY <1>1, <1>2, <2>1, <2>2, RelationKeeps
  <1>5. QED
    BY <1>3, <1>4

LEMMA CommitRoomKeeps ==
  ASSUME IInv, UNCHANGED <<setting, judged>>, NEW r \in Requests, CommitRoom(r)
  PROVE  IInv'
  <1> DEFINE t    == [op |-> tx[r].op]
             pair == tx[r].pair
  <1>1. /\ pc[r] = "open" /\ tx[r].op = "room" /\ End(r, "done")
        /\ room' = [room EXCEPT ![r] = pair] /\ UNCHANGED <<account, access, follow>>
    BY DEF CommitRoom, Doing
  <1>2. Moves(r, "done", t) /\ t.op \in Ops \ {"signIn"}
    BY <1>1, EndMoves DEF IInv
  <1>3. /\ pair \in Ids \X Ids /\ pair[1] # pair[2]
        /\ (~setting.overlap) => FindRooms(pair[1], pair[2]) = {}
    BY <1>1 DEF IInv, Transactions, TxOK
  <1> HIDE DEF t, pair
  <1>4. Ids' = Ids /\ Ids \subseteq Requests
    BY <1>1 DEF Ids
  <1>5. /\ room' \in [Requests -> Requests \X Requests \cup {None}]
        /\ room'[r] = pair /\ \A x \in Requests \ {r} : room'[x] = room[x]
    BY <1>1, <1>3, <1>4 DEF IInv, RelationsOK
  <1>6. \A x \in Rooms' : x = r \/ (x \in Rooms /\ room'[x] = room[x])
    BY <1>5 DEF Rooms
  <1>7. \A x \in Rooms' : room'[x] \in Ids \X Ids /\ room'[x][1] # room'[x][2]
    BY <1>3, <1>5, <1>6 DEF IInv, RelationsOK
  <1>8. ASSUME ~setting.overlap, NEW x \in Rooms', NEW y \in Rooms',
               room'[x][1] \in {room'[y][1], room'[y][2]}, room'[x][2] \in {room'[y][1], room'[y][2]}
        PROVE  x = y
    <2>1. room'[y][1] \in {room'[x][1], room'[x][2]} /\ room'[y][2] \in {room'[x][1], room'[x][2]}
      BY <1>7, <1>8
    <2>2. \A z \in Rooms : ~(room[z][1] \in {pair[1], pair[2]} /\ room[z][2] \in {pair[1], pair[2]})
      BY <1>3, <1>8, RoomsFound
    <2>3. CASE x = r \/ y = r
      BY <1>5, <1>6, <1>8, <2>1, <2>2, <2>3
    <2>4. CASE x # r /\ y # r
      BY <1>6, <1>8, <2>4 DEF IInv, RelationsOK
    <2>5. QED
      BY <2>3, <2>4
  <1>9. RelationsOK'
    BY <1>1, <1>4, <1>5, <1>7, <1>8 DEF IInv, RelationsOK
  <1>10. QED
    BY <1>1, <1>2, <1>9, RelationKeeps

-----------------------------------------------------------------------------
(* The theorems.                                                            *)

LEMMA InvInit == Init => IInv
  <1> SUFFICES ASSUME Init PROVE IInv
    OBVIOUS
  <1>1. PICK s \in setting.emails, p \in Passwords :
            account = [r \in Requests |->
               IF r # Founder THEN None
               ELSE [email |-> s, password |-> p, identity |-> None, locked |-> FALSE]]
    BY DEF Init, AccInit
  <1> DEFINE row == [email |-> s, password |-> p, identity |-> None, locked |-> FALSE]
  <1>2. s \in Spelled
    BY SettingFacts DEF Init, AccInit
  <1>3. row \in Rows /\ row.identity = None
    BY <1>2 DEF Rows
  <1>4. AccountTyped /\ Ids \subseteq {Founder} /\ \A a \in Ids : account[a] = row
    <2>1. account = [r \in Requests |-> IF r # Founder THEN None ELSE row]
      BY <1>1
    <2> HIDE DEF row
    <2>2. QED
      BY <1>3, <2>1 DEF AccountTyped, Ids
  <1>5. ProgressTyped
    BY AccountsAssumption DEF Init, AccInit, ProgressTyped, Ops
  <1>6. \A r \in Requests : pc[r] = IF r = Founder THEN "done" ELSE "new"
    BY DEF Init, AccInit
  <1>7. AccountsOK /\ OneAccount
    <2> HIDE DEF row
    <2>1. QED
      BY <1>3, <1>4, <1>6, AccountsAssumption DEF AccountsOK, OneAccount
  <1>8. AccessTyped /\ TempsOK
    BY DEF Init, AccInit, AccessTyped, TempsOK
  <1>9. Transactions /\ OneByOne
    BY <1>6 DEF Transactions, OneByOne
  <1>10. Books /\ \A r \in Requests : Deciding(r)
    <2>1. SigningIn = {}
      BY <1>6 DEF SigningIn
    <2>2. \A r \in Requests : pc[r] # "new" => tx[r].op = "signUp"
      BY <1>6 DEF Init, AccInit
    <2>3. QED
      BY <2>1, <2>2 DEF Init, AccInit, Books, RightNow, Deciding
  <1>11. RelationsOK
    BY DEF Init, RelationsOK, Rooms
  <1>12. QED
    BY <1>4, <1>5, <1>7, <1>8, <1>9, <1>10, <1>11 DEF Init, AccInit, IInv

LEMMA InvNext == IInv /\ [Next]_vars => IInv'
  <1> SUFFICES ASSUME IInv, [Next]_vars PROVE IInv'
    OBVIOUS
  <1>1. CASE UNCHANGED vars
    <2>1. Ids' = Ids /\ Rooms' = Rooms /\ SigningIn' = SigningIn
      BY <1>1 DEF vars, accVars, relations, Ids, Rooms, SigningIn
    <2>2. UNCHANGED <<account, temp, tx, setting, right, ever, pc, inbox, mail, follow, room>>
      BY <1>1 DEF vars, accVars, relations, access, judged
    <2>3. RightNow' = RightNow /\ \A r \in Requests : Deciding(r)'
      BY <2>1, <2>2 DEF RightNow, Right, Owners, Deciding, Lowers, IInv
    <2>4. Transactions' /\ OneByOne'
      BY <2>1, <2>2 DEF IInv, Transactions, TxOK, FindRooms, OneByOne
    <2>5. AccountTyped' /\ AccessTyped' /\ ProgressTyped' /\ AccountsOK' /\ OneAccount' /\ TempsOK'
      BY <2>1, <2>2 DEF IInv, AccountTyped, AccessTyped, ProgressTyped, AccountsOK,
                        OneAccount, TempsOK
    <2>6. Books' /\ RelationsOK'
      BY <2>1, <2>2, <2>3 DEF IInv, Books, RelationsOK
    <2>7. QED
      BY <2>2, <2>3, <2>4, <2>5, <2>6 DEF IInv
  <1>2. CASE AccNext /\ UNCHANGED relations
    <2> USE <1>2
    <2>1. Judge /\ UNCHANGED <<setting, relations>>
      BY DEF AccNext
    <2>2. ASSUME NEW r \in Requests, StartAccount(r) PROVE IInv'
      BY <2>1, <2>2, SignUpKeeps, LoadOauthUserKeeps, ChangePasswordKeeps DEF StartAccount
    <2>3. ASSUME NEW r \in Requests, StartAccess(r) PROVE IInv'
      BY <2>1, <2>3, ResetPasswordKeeps, SignInKeeps, UpdateLockedKeeps DEF StartAccess
    <2>4. ASSUME NEW r \in Requests, Continue(r) PROVE IInv'
      BY <2>1, <2>4, CommitSignUpKeeps, SaveOauthUserKeeps, CommitEditKeeps,
         SetTempKeeps, SendMailKeeps, TryTempKeeps, TryPasswordKeeps DEF Continue
    <2>5. ASSUME NEW r \in Requests, Fail(r) PROVE IInv'
      BY <2>1, <2>5, FailKeeps
    <2>6. ASSUME Time PROVE IInv'
      BY <2>1, <2>6, DeliverKeeps, ExpireKeeps DEF Time
    <2>7. QED
      BY <2>2, <2>3, <2>4, <2>5, <2>6 DEF AccNext
  <1>3. CASE RelationNext
    <2>1. UNCHANGED <<setting, judged>>
      BY <1>3 DEF RelationNext
    <2>2. ASSUME NEW r \in Requests, StartRelation(r) PROVE IInv'
      BY <2>1, <2>2, FollowKeeps, UnfollowKeeps, OpenRoomKeeps DEF StartRelation
    <2>3. QED
      BY <1>3, <2>1, <2>2, CommitFollowKeeps, CommitUnfollowKeeps, CommitRoomKeeps DEF RelationNext
  <1>4. QED
    BY <1>1, <1>2, <1>3 DEF Next

\* Rows, open transactions, the books and the log-ins fit each other in every
\* reachable state.
THEOREM Inductive == Spec => []IInv
  BY InvInit, InvNext, PTL DEF Spec

\* An e-mail address, and a person known by Google or Kakao, has one account,
\* however sign-ups and first log-ins (UserService.create,
\* CustomOauth2UserService.loadUser) overlap.
THEOREM AccountIsOne == Spec => []OneAccount
  BY Inductive, InvImplies, PTL

\* The two providers of a log-in (TempPasswordAuthenticationProvider, then
\* DaoAuthenticationProvider) let in nobody whose password was never right while
\* the log-in ran, and everybody whose password was right all along, whatever
\* expires, is replaced or is locked in between.
THEOREM LogInDecides == Spec => []SignInDecides
  BY Inductive, InvImplies, PTL

\* The types hold, nobody follows himself, and what DmService.getOrCreateDm
\* finds is the conversation of exactly the two; there is one of them where
\* transactions do not overlap.
THEOREM RelationsHold == Spec => []RelationsInv
  BY Inductive, InvImplies, PTL
=============================================================================
