--------------------------- MODULE BrowserProofs ----------------------------
(***************************************************************************)
(* Theorems about ApiClient and EventStream, for any number of requests    *)
(* under way and of pairs, and any Solitude.                               *)
(***************************************************************************)
EXTENDS EventStream, TLAPS

-----------------------------------------------------------------------------
(* The inductive invariants.                                                *)

UnderWay(r) == request[r].stage \in {"asking", "answered"}

RequestRecords ==
    [stage : {"idle", "sent", "denied", "waiting", "asking", "answered", "stranded"},
     pair : Pairs, retry : BOOLEAN]

\* Types, part by part; what is on its way has been issued.
ServerTyped ==
    /\ registered \in Pairs /\ issued \in Pairs /\ expired \subseteq 1..issued
    /\ cookie \in 0..issued /\ token \in 0..issued /\ issued <= MaxPairs
CallOK ==
    /\ auth.kind = "none" => auth = NoCall
    /\ auth.kind = "signOut" /\ auth.stage = "answered" => auth.pair = 0
AuthTyped ==
    /\ auth \in [kind : {"none", "restore", "signIn", "signOut"},
                 stage : {"idle", "asking", "answered"}, pair : Pairs]
    /\ auth.pair \in 0..issued /\ CallOK
RequestTyped ==
    /\ request \in [Requests -> RequestRecords]
    /\ \A r \in Requests : request[r].pair \in 0..issued
FlagsTyped ==
    /\ refreshing \in BOOLEAN /\ out \in BOOLEAN /\ tangled \in BOOLEAN
    /\ alone \in Solitude

\* One refresh at a time, and the flag is up just then.
OneRefresh ==
    /\ \A r \in Requests : UnderWay(r) => refreshing
    /\ refreshing => \E r \in Requests : UnderWay(r)
    /\ \A q, r \in Requests : UnderWay(q) /\ UnderWay(r) => q = r
    /\ \A r \in Requests : request[r].stage = "waiting" => refreshing

Typed == ServerTyped /\ AuthTyped /\ RequestTyped /\ FlagsTyped
ApiInv == Typed /\ OneRefresh

\* The other tab, if there is one.
OtherInv ==
    /\ other \in [stage : {"idle", "asking", "answered"}, pair : Pairs]
    /\ other.pair \in 0..issued
    /\ alone => other = AtEase

-----------------------------------------------------------------------------
(* Types, and what a call or a request carries.                             *)

LEMMA PairFacts ==
  ASSUME Typed
  PROVE  /\ MaxPairs \in Nat /\ issued \in Nat
         /\ 0..issued \subseteq Pairs /\ 0 \in 0..issued /\ 0 \in Pairs
         /\ cookie \in 0..issued /\ token \in 0..issued /\ registered \in Pairs
         /\ cookie \in Pairs /\ token \in Pairs
         /\ \A r \in Requests : request[r] \in RequestRecords
  BY ClientAssumption DEF Typed, ServerTyped, RequestTyped, Pairs, RequestRecords

LEMMA IssueFacts ==
  ASSUME Typed, Issue
  PROVE  /\ issued' = issued + 1 /\ registered' = issued' /\ expired' = expired
         /\ issued' \in Pairs /\ registered' \in Pairs /\ issued' <= MaxPairs
         /\ issued' \in 0..issued' /\ 0..issued \subseteq 0..issued'
         /\ 1..issued \subseteq 1..issued'
         /\ issued' # 0
  BY ClientAssumption, PairFacts DEF Issue, Pairs

LEMMA IdleTyped == 0 \in Pairs => Idle \in RequestRecords
  BY DEF Idle, RequestRecords

LEMMA TypedParts == Typed <=> ServerTyped /\ AuthTyped /\ RequestTyped /\ FlagsTyped
  BY DEF Typed

LEMMA PartsAgain ==
  ASSUME ServerTyped', AuthTyped', RequestTyped', FlagsTyped'
  PROVE  Typed'
  BY DEF Typed

LEMMA ApiInvInit == ApiInit => ApiInv
  <1> SUFFICES ASSUME ApiInit PROVE ApiInv
    OBVIOUS
  <1>1. ServerTyped
    BY ClientAssumption DEF ApiInit, ServerTyped, Pairs
  <1>2. AuthTyped
    BY <1>1 DEF ApiInit, ServerTyped, AuthTyped, CallOK, NoCall, Pairs
  <1>3. RequestTyped
    BY <1>1, IdleTyped DEF ApiInit, ServerTyped, RequestTyped, Idle, Pairs
  <1>4. FlagsTyped
    BY DEF ApiInit, FlagsTyped
  <1>5. OneRefresh
    BY DEF ApiInit, OneRefresh, UnderWay, Idle
  <1>6. QED
    BY <1>1, <1>2, <1>3, <1>4, <1>5, TypedParts DEF ApiInv

\* Requests and calls keep their types when pairs are issued.
LEMMA IssuedSince ==
  ASSUME Typed, UNCHANGED issued \/ Issue
  PROVE  /\ 0..issued \subseteq 0..issued' /\ 1..issued \subseteq 1..issued'
         /\ issued' \in Pairs /\ issued' <= MaxPairs
  BY IssueFacts, PairFacts DEF Typed, ServerTyped

LEMMA RequestsStay ==
  ASSUME Typed, UNCHANGED issued \/ Issue, UNCHANGED request
  PROVE  RequestTyped'
  BY TypedParts, IssuedSince DEF RequestTyped

LEMMA AuthStays ==
  ASSUME Typed, UNCHANGED issued \/ Issue, UNCHANGED auth
  PROVE  AuthTyped'
  BY TypedParts, IssuedSince DEF AuthTyped, CallOK

\* One request changes.
LEMMA RequestMoves ==
  ASSUME Typed, UNCHANGED issued \/ Issue, NEW r \in Requests,
         NEW q \in RequestRecords, q.pair \in 0..issued',
         request' = [request EXCEPT ![r] = q]
  PROVE  RequestTyped'
  BY TypedParts, IssuedSince DEF RequestTyped

\* What a step does to the requests, one by one.
LEMMA BecomesEffect ==
  ASSUME Typed, NEW r \in Requests, NEW stage, NEW n, Becomes(r, stage, n)
  PROVE  /\ request'[r].stage = stage /\ request'[r].pair = n
         /\ \A q \in Requests \ {r} : request'[q] = request[q]
  BY PairFacts, TypedParts DEF Becomes, RequestTyped, RequestRecords

LEMMA SendEffect ==
  ASSUME Typed, NEW r \in Requests, Send(r)
  PROVE  /\ request'[r].stage = "sent"
         /\ \A q \in Requests \ {r} : request'[q] = request[q]
  BY TypedParts DEF Send, RequestTyped, Idle

LEMMA AnswerEffect ==
  ASSUME Typed, NEW r \in Requests, Answer(r)
  PROVE  /\ request'[r].stage \in {"idle", "denied"}
         /\ \A q \in Requests \ {r} : request'[q] = request[q]
  <1>1. CASE request' = [request EXCEPT ![r] = Idle]
    BY <1>1, TypedParts DEF RequestTyped, Idle
  <1>2. CASE Becomes(r, "denied", 0)
    BY <1>2, BecomesEffect
  <1>3. QED
    BY <1>1, <1>2 DEF Answer

LEMMA RefusedEffect ==
  ASSUME Typed, NEW r \in Requests, Refused(r)
  PROVE  /\ \A q \in Requests \ {r} : request'[q] = request[q]
         /\ \/ request'[r].stage \in {"idle", "waiting"}
            \/ /\ ~refreshing
               /\ request'[r].stage = "asking" /\ request'[r].pair = cookie
  <1>1. CASE request' = [request EXCEPT ![r] = Idle]
    BY <1>1, TypedParts DEF RequestTyped, Idle
  <1>2. CASE Becomes(r, "waiting", 0)
    BY <1>2, BecomesEffect
  <1>3. CASE ~refreshing /\ request' = [request EXCEPT ![r] =
                 [stage |-> "asking", pair |-> cookie, retry |-> TRUE]]
    BY <1>3, TypedParts DEF RequestTyped
  <1>4. QED
    BY <1>1, <1>2, <1>3 DEF Refused

LEMMA AnswerRefreshEffect ==
  ASSUME Typed, NEW r \in Requests, AnswerRefresh(r)
  PROVE  /\ request'[r].stage = "answered"
         /\ IF Exchangeable(request[r].pair)
            THEN Issue /\ request'[r].pair = issued'
            ELSE UNCHANGED server /\ request'[r].pair = 0
         /\ \A q \in Requests \ {r} : request'[q] = request[q]
  BY BecomesEffect DEF AnswerRefresh, Exchange

LEMMA AnswerCallEffect ==
  ASSUME Typed, AnswerCall
  PROVE  /\ auth'.kind = auth.kind /\ auth.kind # "none" /\ auth'.stage = "answered"
         /\ \/ /\ auth.kind = "signIn" \/ (auth.kind = "restore" /\ Exchangeable(auth.pair))
               /\ Issue /\ auth'.pair = issued'
            \/ /\ auth.kind \in {"signIn", "restore"}
               /\ UNCHANGED server /\ auth'.pair = 0
            \/ /\ auth.kind = "signOut"
               /\ auth'.pair = 0
  BY TypedParts DEF AnswerCall, Exchange, AuthTyped, CallOK, NoCall

LEMMA RequestBecomes ==
  ASSUME Typed, UNCHANGED issued \/ Issue, NEW r \in Requests,
         NEW stage \in {"denied", "waiting", "answered"},
         NEW n \in 0..issued', Becomes(r, stage, n)
  PROVE  /\ RequestTyped'
         /\ request'[r].stage = stage /\ request'[r].pair = n
         /\ \A q \in Requests \ {r} : request'[q] = request[q]
  <1>1. n \in Pairs
    BY IssuedSince, PairFacts DEF Pairs
  <1>2. request' = [request EXCEPT ![r] = [request[r] EXCEPT !.stage = stage, !.pair = n]]
    BY PairFacts, TypedParts DEF Becomes, RequestTyped
  <1>3. [request[r] EXCEPT !.stage = stage, !.pair = n] \in RequestRecords
    BY <1>1, PairFacts DEF RequestRecords
  <1>4. RequestTyped'
    BY <1>2, <1>3, RequestMoves, PairFacts DEF RequestRecords
  <1>5. QED
    BY <1>2, <1>3, <1>4, TypedParts, PairFacts DEF RequestTyped, RequestRecords

-----------------------------------------------------------------------------
(* ApiInv, step by step.                                                    *)

\* A step that leaves the requests and the flag alone keeps OneRefresh.
LEMMA OneRefreshStays ==
  ASSUME OneRefresh, UNCHANGED <<refreshing, request>>
  PROVE  OneRefresh'
  BY DEF OneRefresh, UnderWay

\* So does one that moves a request within a refresh, or outside of one and
\* not into the queue.
LEMMA OneRefreshKept ==
  ASSUME OneRefresh, UNCHANGED refreshing, NEW r \in Requests,
         UnderWay(r)' <=> UnderWay(r),
         request'[r].stage = "waiting" => refreshing,
         \A q \in Requests \ {r} : request'[q] = request[q]
  PROVE  OneRefresh'
  <1>1. \A q \in Requests : UnderWay(q)' <=> UnderWay(q)
    BY DEF UnderWay
  <1>2. \A q \in Requests : request'[q].stage = "waiting" => refreshing
    BY DEF OneRefresh
  <1>3. QED
    BY <1>1, <1>2 DEF OneRefresh

LEMMA ServerKeeps ==
  ASSUME ApiInv, Server, UNCHANGED alone
  PROVE  ApiInv'
  <1> USE PairFacts, TypedParts DEF ApiInv, client, past
  <1>1. UNCHANGED <<token, auth, refreshing, request, out, tangled, issued>>
    BY DEF Server, Expire, EndElsewhere
  <1>2. ServerTyped'
    <2>1. CASE \E n \in Pairs : Expire(n)
      BY <2>1 DEF Expire, ServerTyped
    <2>2. CASE EndElsewhere
      BY <2>2 DEF EndElsewhere, ServerTyped, Pairs
    <2>3. QED
      BY <2>1, <2>2 DEF Server
  <1>3. AuthTyped' /\ RequestTyped' /\ FlagsTyped'
    BY <1>1, AuthStays, RequestsStay DEF FlagsTyped
  <1>4. Typed'
    BY <1>2, <1>3, PartsAgain
  <1>5. QED
    BY <1>1, <1>4, OneRefreshStays

\* Another tab touches the server and the cookie.
LEMMA OtherTabIssues ==
  ASSUME OtherTab
  PROVE  /\ UNCHANGED issued \/ Issue
         /\ OtherTabKeeps /\ out' \in {out, FALSE}
  BY DEF OtherTab, OtherTabAsks, AnswerOtherTab, OtherTabSignsIn, OtherTabAnswered,
         OtherTabFails, OtherTabSignedOut, Exchange, server

LEMMA OtherTabKeepsApi ==
  ASSUME ApiInv, OtherInv, OtherTab, UNCHANGED alone
  PROVE  ApiInv'
  <1> USE PairFacts, TypedParts DEF ApiInv
  <1>1. UNCHANGED issued \/ Issue
    BY OtherTabIssues
  <1>2. UNCHANGED <<token, auth, refreshing, request, tangled>> /\ out' \in {out, FALSE}
    BY OtherTabIssues DEF OtherTabKeeps
  <1>3. ServerTyped'
    <2>1. CASE Issue /\ UNCHANGED cookie
      BY <1>2, <2>1, IssueFacts DEF ServerTyped
    <2>2. CASE UNCHANGED server /\ cookie' \in {cookie, other.pair, 0}
      BY <1>2, <2>2 DEF server, ServerTyped, OtherInv
    <2>3. QED
      BY <2>1, <2>2 DEF OtherTab, OtherTabAsks, AnswerOtherTab, OtherTabSignsIn,
         OtherTabAnswered, OtherTabFails, OtherTabSignedOut, Exchange
  <1>4. AuthTyped' /\ RequestTyped' /\ FlagsTyped'
    BY <1>1, <1>2, AuthStays, RequestsStay DEF FlagsTyped
  <1>5. Typed'
    BY <1>3, <1>4, PartsAgain
  <1>6. QED
    BY <1>2, <1>5, OneRefreshStays

LEMMA SendKeeps ==
  ASSUME ApiInv, NEW r \in Requests, Send(r), UNCHANGED alone
  PROVE  ApiInv'
  <1> DEFINE q == [Idle EXCEPT !.stage = "sent", !.pair = token]
  <1>1. q \in RequestRecords /\ q.pair = token /\ q.stage = "sent"
    BY PairFacts DEF ApiInv, Idle, RequestRecords
  <1>2. request' = [request EXCEPT ![r] = q]
    BY DEF Send
  <1>3. RequestTyped'
    BY <1>1, <1>2, RequestMoves, PairFacts DEF ApiInv, Send, server
  <1>4. ServerTyped' /\ AuthTyped' /\ FlagsTyped'
    BY TypedParts DEF ApiInv, Send, server, past, ServerTyped, AuthTyped, CallOK, FlagsTyped
  <1>5. request'[r] = q /\ \A p \in Requests \ {r} : request'[p] = request[p]
    BY <1>2, TypedParts DEF ApiInv, RequestTyped
  <1>6. OneRefresh'
    BY <1>1, <1>5, OneRefreshKept DEF ApiInv, Send, UnderWay
  <1>7. QED
    BY <1>3, <1>4, <1>6, PartsAgain DEF ApiInv

LEMMA AnswerKeeps ==
  ASSUME ApiInv, NEW r \in Requests, Answer(r), UNCHANGED alone
  PROVE  ApiInv'
  <1> USE DEF ApiInv
  <1>1. ServerTyped' /\ AuthTyped' /\ FlagsTyped'
    BY TypedParts DEF Answer, server, past, ServerTyped, AuthTyped, CallOK, FlagsTyped
  <1>2. CASE request' = [request EXCEPT ![r] = Idle]
    <2>1. RequestTyped'
      BY <1>2, RequestMoves, IdleTyped, PairFacts DEF Answer, server, Idle
    <2>2. request'[r] = Idle /\ \A p \in Requests \ {r} : request'[p] = request[p]
      BY <1>2, TypedParts DEF RequestTyped
    <2>3. OneRefresh'
      BY <2>2, OneRefreshKept DEF Answer, UnderWay, Idle
    <2>4. QED
      BY <1>1, <2>1, <2>3, PartsAgain
  <1>3. CASE Becomes(r, "denied", 0)
    <2>1. /\ RequestTyped' /\ request'[r].stage = "denied"
          /\ \A p \in Requests \ {r} : request'[p] = request[p]
      BY <1>3, RequestBecomes, PairFacts DEF Answer, server
    <2>2. OneRefresh'
      BY <2>1, OneRefreshKept DEF Answer, UnderWay
    <2>3. QED
      BY <1>1, <2>1, <2>2, PartsAgain
  <1>4. QED
    BY <1>2, <1>3 DEF Answer

LEMMA RefusedKeeps ==
  ASSUME ApiInv, NEW r \in Requests, Refused(r), UNCHANGED alone
  PROVE  ApiInv'
  <1> USE DEF ApiInv
  <1>1. ServerTyped' /\ AuthTyped'
    BY TypedParts DEF Refused, server, past, ServerTyped, AuthTyped, CallOK
  <1>2. FlagsTyped'
    BY TypedParts DEF Refused, past, FlagsTyped
  <1>3. CASE request[r].retry
    <2>1. request' = [request EXCEPT ![r] = Idle] /\ UNCHANGED refreshing
      BY <1>3 DEF Refused
    <2>2. RequestTyped'
      BY <2>1, RequestMoves, IdleTyped, PairFacts DEF Refused, server, Idle
    <2>3. request'[r] = Idle /\ \A p \in Requests \ {r} : request'[p] = request[p]
      BY <2>1, TypedParts DEF RequestTyped
    <2>4. OneRefresh'
      BY <2>1, <2>3, OneRefreshKept DEF Refused, UnderWay, Idle
    <2>5. QED
      BY <1>1, <1>2, <2>2, <2>4, PartsAgain
  <1>4. CASE ~request[r].retry /\ refreshing
    <2>1. Becomes(r, "waiting", 0) /\ UNCHANGED refreshing
      BY <1>4 DEF Refused
    <2>2. /\ RequestTyped' /\ request'[r].stage = "waiting"
          /\ \A p \in Requests \ {r} : request'[p] = request[p]
      BY <2>1, RequestBecomes, PairFacts DEF Refused, server
    <2>3. OneRefresh'
      BY <1>4, <2>1, <2>2, OneRefreshKept DEF Refused, UnderWay
    <2>4. QED
      BY <1>1, <1>2, <2>2, <2>3, PartsAgain
  <1>5. CASE ~request[r].retry /\ ~refreshing
    <2> DEFINE q == [stage |-> "asking", pair |-> cookie, retry |-> TRUE]
    <2>1. request' = [request EXCEPT ![r] = q] /\ refreshing' = TRUE
      BY <1>5 DEF Refused
    <2>2. q \in RequestRecords /\ q.pair \in 0..issued
      BY PairFacts DEF RequestRecords
    <2>3. RequestTyped'
      BY <2>1, <2>2, RequestMoves DEF Refused, server
    <2>4. request'[r] = q /\ \A p \in Requests \ {r} : request'[p] = request[p]
      BY <2>1, TypedParts DEF RequestTyped
    <2>5. UnderWay(r)' /\ \A p \in Requests \ {r} : ~UnderWay(p)'
      BY <1>5, <2>4 DEF OneRefresh, UnderWay
    <2>6. OneRefresh'
      BY <2>1, <2>5 DEF OneRefresh
    <2>7. QED
      BY <1>1, <1>2, <2>3, <2>6, PartsAgain
  <1>6. QED
    BY <1>3, <1>4, <1>5, TypedParts DEF FlagsTyped

LEMMA AnswerRefreshKeeps ==
  ASSUME ApiInv, NEW r \in Requests, AnswerRefresh(r), UNCHANGED alone
  PROVE  ApiInv'
  <1> USE DEF ApiInv
  <1>1. UNCHANGED issued \/ Issue
    BY DEF AnswerRefresh, Exchange, server
  <1>2. PICK n \in 0..issued' : Becomes(r, "answered", n)
    BY IssueFacts, PairFacts DEF AnswerRefresh, Exchange, server
  <1>3. /\ RequestTyped' /\ request'[r].stage = "answered"
        /\ \A p \in Requests \ {r} : request'[p] = request[p]
    BY <1>1, <1>2, RequestBecomes
  <1>4. ServerTyped'
    BY TypedParts, IssueFacts DEF AnswerRefresh, Exchange, server, ServerTyped
  <1>5. AuthTyped' /\ FlagsTyped'
    BY <1>1, AuthStays, TypedParts DEF AnswerRefresh, past, FlagsTyped
  <1>6. OneRefresh'
    BY <1>3, OneRefreshKept DEF AnswerRefresh, UnderWay
  <1>7. QED
    BY <1>3, <1>4, <1>5, <1>6, PartsAgain

LEMMA RefreshedEffect ==
  ASSUME ApiInv, NEW r \in Requests, Refreshed(r)
  PROVE  \A p \in Requests : ~UnderWay(p)' /\ request'[p].stage # "waiting"
  <1>1. \A p \in Requests : \/ request'[p].stage = "sent"
                            \/ request'[p] = request[p] /\ p \notin {r} \cup Waiting
    BY TypedParts DEF ApiInv, RequestTyped, RequestRecords, Refreshed, Resend
  <1>2. QED
    BY <1>1 DEF ApiInv, Refreshed, OneRefresh, UnderWay, Waiting

LEMMA RefreshedKeeps ==
  ASSUME ApiInv, NEW r \in Requests, Refreshed(r), UNCHANGED alone
  PROVE  ApiInv'
  <1> USE DEF ApiInv
  <1> DEFINE n == request[r].pair
             sent(p) == [request[p] EXCEPT !.stage = "sent",
                                           !.pair = IF token' # 0 THEN token' ELSE n]
  <1>1. n \in 0..issued /\ n \in Pairs /\ token' \in 0..issued /\ token' \in Pairs
    BY PairFacts DEF Refreshed, Typed, RequestTyped
  <1>2. ServerTyped' /\ AuthTyped' /\ FlagsTyped'
    BY <1>1, TypedParts DEF Refreshed, server, past, ServerTyped, AuthTyped,
       CallOK, FlagsTyped
  <1>3. request' = [p \in Requests |-> IF p \in {r} \cup Waiting THEN sent(p) ELSE request[p]]
    BY DEF Refreshed, Resend
  <1>4. \A p \in Requests : /\ sent(p) \in RequestRecords
                            /\ sent(p).pair \in 0..issued /\ sent(p).stage = "sent"
    BY <1>1, PairFacts DEF RequestRecords
  <1>5. RequestTyped'
    BY <1>3, <1>4, TypedParts DEF RequestTyped, Refreshed, server
  <1>6. OneRefresh'
    BY RefreshedEffect DEF Refreshed, OneRefresh
  <1>7. QED
    BY <1>2, <1>5, <1>6, PartsAgain

LEMMA RefreshFailsKeeps ==
  ASSUME ApiInv, NEW r \in Requests, RefreshFails(r), UNCHANGED alone
  PROVE  ApiInv'
  <1> USE DEF ApiInv
  <1>1. ServerTyped' /\ FlagsTyped'
    BY TypedParts DEF RefreshFails, server, past, ServerTyped, FlagsTyped
  <1>2. AuthTyped'
    BY TypedParts, PairFacts DEF RefreshFails, server, AuthTyped, CallOK, SignOutCall
  <1>3. \A p \in Requests : \/ request'[p] = Idle
                            \/ request'[p] = [Idle EXCEPT !.stage = "stranded"]
                            \/ request'[p] = request[p] /\ p # r /\ p \notin Waiting
    BY DEF RefreshFails
  <1>4. [Idle EXCEPT !.stage = "stranded"] \in RequestRecords
    BY PairFacts DEF Idle, RequestRecords
  <1>5. \A p \in Requests : request'[p] \in RequestRecords /\ request'[p].pair \in 0..issued
    BY <1>3, <1>4, IdleTyped, PairFacts, TypedParts DEF RequestTyped, Idle
  <1>6. RequestTyped'
    BY <1>5 DEF RefreshFails, RequestTyped, server
  <1>7. \A p \in Requests : ~UnderWay(p)' /\ request'[p].stage # "waiting"
    BY <1>3 DEF RefreshFails, OneRefresh, UnderWay, Waiting, Idle
  <1>8. OneRefresh'
    BY <1>7 DEF RefreshFails, OneRefresh
  <1>9. QED
    BY <1>1, <1>2, <1>6, <1>8, PartsAgain

LEMMA AuthStoreKeeps ==
  ASSUME ApiInv, AuthStore, UNCHANGED alone
  PROVE  ApiInv'
  <1> USE DEF ApiInv
  <1>1. UNCHANGED <<refreshing, request>>
    BY DEF AuthStore, SignIn, SignOut, Restore, Calls, AnswerCall, SignedIn,
           SignedOut, CallFails
  <1>2. UNCHANGED issued \/ Issue
    BY DEF AuthStore, SignIn, SignOut, Restore, Calls, AnswerCall, SignedIn,
           SignedOut, CallFails, Exchange, server
  <1>3. RequestTyped' /\ OneRefresh'
    BY <1>1, <1>2, RequestsStay, OneRefreshStays
  <1>4. FlagsTyped'
    BY <1>1, TypedParts DEF AuthStore, SignIn, SignOut, Restore, Calls, AnswerCall,
           SignedIn, SignedOut, CallFails, FlagsTyped, past
  <1>5. ServerTyped' /\ AuthTyped'
    <2> USE TypedParts, PairFacts DEF ServerTyped, AuthTyped, CallOK
    <2>1. CASE SignIn \/ SignOut \/ Restore
      BY <2>1 DEF SignIn, SignOut, Restore, Calls, SignOutCall, server
    <2>2. CASE AnswerCall
      <3>1. CASE Issue /\ auth' = [auth EXCEPT !.stage = "answered", !.pair = issued']
                       /\ auth.kind # "signOut"
        BY <2>2, <3>1, IssueFacts DEF AnswerCall, NoCall
      <3>2. CASE UNCHANGED server /\ auth' = [auth EXCEPT !.stage = "answered", !.pair = 0]
        BY <2>2, <3>2 DEF AnswerCall, server, NoCall
      <3>3. CASE /\ registered' \in {0, registered} /\ UNCHANGED <<issued, expired>>
                 /\ auth' = [auth EXCEPT !.stage = "answered", !.pair = 0]
        BY <2>2, <3>3 DEF AnswerCall, NoCall
      <3>4. QED
        BY <2>2, <3>1, <3>2, <3>3 DEF AnswerCall, Exchange
    <2>3. CASE SignedIn
      BY <2>3 DEF SignedIn, NoCall, server
    <2>4. CASE SignedOut
      BY <2>4 DEF SignedOut, NoCall, server
    <2>5. CASE CallFails
      BY <2>5 DEF CallFails, NoCall, server
    <2>6. QED
      BY <2>1, <2>2, <2>3, <2>4, <2>5 DEF AuthStore
  <1>6. QED
    BY <1>3, <1>4, <1>5, PartsAgain

LEMMA ReloadKeeps ==
  ASSUME ApiInv, Reload, UNCHANGED alone
  PROVE  ApiInv'
  <1> USE DEF ApiInv
  <1>1. ServerTyped' /\ AuthTyped' /\ FlagsTyped'
    BY TypedParts, PairFacts DEF Reload, server, ServerTyped, AuthTyped, CallOK,
       FlagsTyped, NoCall
  <1>2. RequestTyped'
    BY IdleTyped, PairFacts DEF Reload, RequestTyped, Idle, server
  <1>3. OneRefresh'
    BY DEF Reload, OneRefresh, UnderWay, Idle
  <1>4. QED
    BY <1>1, <1>2, <1>3, PartsAgain

LEMMA ApiInvStays ==
  ASSUME ApiInv, UNCHANGED apiVars
  PROVE  ApiInv'
  <1>1. ServerTyped' /\ AuthTyped' /\ RequestTyped' /\ FlagsTyped' /\ OneRefresh'
    BY TypedParts, OneRefreshStays DEF ApiInv, apiVars, server, client, past,
       ServerTyped, AuthTyped, CallOK, RequestTyped, FlagsTyped
  <1>2. QED
    BY <1>1, PartsAgain DEF ApiInv

LEMMA ApiInvNext ==
  ASSUME ApiInv, OtherInv, [Next]_streamVars
  PROVE  ApiInv'
  <1>1. CASE ApiNext
    BY <1>1, ServerKeeps, OtherTabKeepsApi, AuthStoreKeeps, SendKeeps, AnswerKeeps,
       RefusedKeeps, AnswerRefreshKeeps, RefreshedKeeps, RefreshFailsKeeps
       DEF ApiNext, ThisTab, Interceptors
  <1>2. CASE Reloading
    BY <1>2, ReloadKeeps DEF Reloading
  <1>3. CASE UNCHANGED apiVars
    BY <1>3, ApiInvStays
  <1>4. QED
    BY <1>1, <1>2, <1>3 DEF Next, Calling, Opens, IsRefused, IsLost, Retries, streamVars

\* Pairs are issued one at a time, if at all.
LEMMA IssuedNext ==
  ASSUME ApiInv, [Next]_streamVars
  PROVE  UNCHANGED issued \/ Issue
  <1>1. CASE Server
    BY <1>1 DEF Server, Expire, EndElsewhere
  <1>2. CASE AuthStore
    BY <1>2 DEF AuthStore, SignIn, SignOut, Restore, Calls, AnswerCall, SignedIn,
           SignedOut, CallFails, Exchange, server
  <1>3. ASSUME NEW r \in Requests, Interceptors(r)
        PROVE  UNCHANGED issued \/ Issue
    BY <1>3 DEF Interceptors, Send, Answer, Refused, AnswerRefresh, Refreshed,
       RefreshFails, Exchange, server
  <1>4. CASE Reloading
    BY <1>4 DEF Reloading, Reload, server
  <1>5. CASE UNCHANGED apiVars
    BY <1>5 DEF apiVars, server
  <1>6. QED
    BY <1>1, <1>2, <1>3, <1>4, <1>5, OtherTabIssues
       DEF Next, Calling, ApiNext, ThisTab, Opens, IsRefused, IsLost, Retries, streamVars

LEMMA OtherInvNext ==
  ASSUME ApiInv, OtherInv, [Next]_streamVars
  PROVE  OtherInv'
  <1>1. 0..issued \subseteq 0..issued'
    BY IssuedNext, IssuedSince DEF ApiInv
  <1>2. CASE UNCHANGED <<other, alone>>
    BY <1>1, <1>2 DEF OtherInv
  <1>3. CASE OtherTab /\ UNCHANGED alone
    <2> USE <1>3, PairFacts DEF ApiInv, OtherInv, AtEase
    <2>1. CASE OtherTabAsks
      BY <2>1 DEF OtherTabAsks, server
    <2>2. CASE AnswerOtherTab
      BY <2>2, IssueFacts DEF AnswerOtherTab, Exchange
    <2>3. CASE OtherTabSignsIn
      BY <2>3, IssueFacts DEF OtherTabSignsIn
    <2>4. CASE OtherTabAnswered \/ OtherTabFails \/ OtherTabSignedOut
      BY <2>4 DEF OtherTabAnswered, OtherTabFails, OtherTabSignedOut, server
    <2>5. QED
      BY <2>1, <2>2, <2>3, <2>4 DEF OtherTab
  <1>4. QED
    BY <1>2, <1>3 DEF Next, Calling, ApiNext, Reloading, Opens, IsRefused, IsLost,
       Retries, streamVars, apiVars

-----------------------------------------------------------------------------
(* The event stream.                                                        *)

StreamRecords ==
    [state : {"none", "connecting", "open", "waiting", "closed"},
     pair : Pairs, retried : BOOLEAN, source : BOOLEAN,
     connected : BOOLEAN, connecting : BOOLEAN,
     entry : BOOLEAN, own : BOOLEAN, orphan : BOOLEAN]

\* A stream that counts as connected is the store's source.
Sound(s) ==
    /\ s \in StreamRecords
    /\ s.connected => s.source
    /\ s.state = "open" => s.connected

\* And it listens whenever there is a token.
StreamInv == Sound(stream) /\ (token # 0 /\ stream.connected => stream.own)

LEMMA EffectSound ==
  ASSUME NEW s, Sound(s), NEW n \in Pairs
  PROVE  /\ Sound(Effect(s, n))
         /\ n # 0 /\ Effect(s, n).connected => Effect(s, n).own
  <1> USE DEF Sound, StreamRecords
  <1> DEFINE u == Unsubscribe(s)
             c == Connect(u, n)
  <1>1. Sound(u) /\ ~u.entry
    BY DEF Unsubscribe
  <1>2. NoStream \in StreamRecords
    BY ClientAssumption DEF NoStream, Pairs
  <1>3. Sound(c) /\ ~c.entry
    BY <1>1, <1>2 DEF Connect, NoStream
  <1>4. Sound(Subscribe(c)) /\ (Subscribe(c).connected => Subscribe(c).own)
    BY <1>3 DEF Subscribe
  <1>5. QED
    BY <1>1, <1>4 DEF Effect

LEMMA TurnsKeeps ==
  ASSUME ApiInv, StreamInv, UNCHANGED apiVars, NEW s, Sound(s), Turns(s),
         s.connected = stream.connected => s.own = stream.own
  PROVE  StreamInv'
  <1>1. CASE s.connected # stream.connected /\ token # 0
    BY <1>1, EffectSound, PairFacts DEF Turns, StreamInv, ApiInv, apiVars, client
  <1>2. CASE ~(s.connected # stream.connected /\ token # 0)
    BY <1>2 DEF Turns, StreamInv, apiVars, client
  <1>3. QED
    BY <1>1, <1>2

LEMMA StreamInvNext ==
  ASSUME ApiInv, ApiInv', StreamInv, [Next]_streamVars
  PROVE  StreamInv'
  <1> USE DEF StreamInv
  <1>1. CASE Calling
    <2>1. CASE token' # token
      <3>1. token' \in Pairs
        BY ClientAssumption DEF ApiInv, Typed, ServerTyped, Pairs
      <3>2. QED
        BY <1>1, <2>1, <3>1, EffectSound DEF Calling
    <2>2. CASE token' = token
      BY <1>1, <2>2 DEF Calling
    <2>3. QED
      BY <2>1, <2>2
  <1>2. CASE Reloading
    BY <1>2, ClientAssumption DEF Reloading, Reload, Sound, StreamRecords, NoStream, Pairs
  <1>3. CASE Opens
    BY <1>3, TurnsKeeps DEF Opens, Sound, StreamRecords
  <1>4. CASE IsRefused
    BY <1>4, TurnsKeeps DEF IsRefused, Sound, StreamRecords
  <1>5. CASE IsLost
    BY <1>5, TurnsKeeps DEF IsLost, Sound, StreamRecords
  <1>6. CASE Retries
    BY <1>6 DEF Retries, Sound, StreamRecords, apiVars, client
  <1>7. CASE UNCHANGED streamVars
    BY <1>7 DEF streamVars, apiVars, client
  <1>8. QED
    BY <1>1, <1>2, <1>3, <1>4, <1>5, <1>6, <1>7 DEF Next

-----------------------------------------------------------------------------
(* Signed out.                                                              *)

\* A pair that opens no session, and never will.
Spent(n) == n = 0 \/ n # registered

\* No session, and no pair under way, here or in the other tab, that opens one.
OutInv ==
    out =>
        /\ token = 0 /\ Spent(cookie) /\ Spent(other.pair)
        /\ auth.kind # "signIn"
        /\ auth.kind = "restore" =>
              Spent(auth.pair) /\ (auth.stage = "answered" => auth.pair = 0)
        /\ \A r \in Requests : UnderWay(r) => Spent(request[r].pair)

\* The registry forgets the pair, or nothing changes that OutInv speaks about.
LEMMA OutInvKept ==
  ASSUME OutInv, out' => out, registered' \in {registered, 0},
         UNCHANGED <<token, auth>>,
         out => Spent(cookie') /\ Spent(other'.pair),
         out => \A r \in Requests : UnderWay(r)' => Spent(request'[r].pair)
  PROVE  OutInv'
  BY DEF OutInv, Spent

LEMMA OutInvOtherTab ==
  ASSUME OutInv, OtherTab
  PROVE  OutInv'
  <1> USE DEF OutInv, OtherTabKeeps, server, AtEase
  <1>1. /\ UNCHANGED <<token, auth>>
        /\ \A r \in Requests : UnderWay(r)' <=> UnderWay(r)
        /\ UNCHANGED request
    BY OtherTabIssues DEF UnderWay
  <1>2. CASE OtherTabAsks
    BY <1>1, <1>2, OutInvKept DEF OtherTabAsks
  <1>3. CASE AnswerOtherTab
    <2>1. ~out
      BY <1>3 DEF AnswerOtherTab, Exchange, Exchangeable, Spent
    <2>2. QED
      BY <1>3, <2>1 DEF AnswerOtherTab
  <1>4. CASE OtherTabSignsIn
    BY <1>4 DEF OtherTabSignsIn
  <1>5. CASE OtherTabAnswered
    BY <1>1, <1>5, OutInvKept DEF OtherTabAnswered, Spent
  <1>6. CASE OtherTabFails
    BY <1>1, <1>6 DEF OtherTabFails, Spent
  <1>7. CASE OtherTabSignedOut
    BY <1>1, <1>7 DEF OtherTabSignedOut, Spent
  <1>8. QED
    BY <1>2, <1>3, <1>4, <1>5, <1>6, <1>7 DEF OtherTab

LEMMA OutInvInterceptors ==
  ASSUME ApiInv, OutInv, NEW r \in Requests, Interceptors(r), UNCHANGED other
  PROVE  OutInv'
  <1> USE TypedParts DEF ApiInv, RequestTyped, UnderWay, OutInv
  <1>1. CASE Send(r) \/ Answer(r)
    BY <1>1, SendEffect, AnswerEffect, OutInvKept DEF Send, Answer, past, server
  <1>2. CASE Refused(r)
    BY <1>2, RefusedEffect, OutInvKept DEF Refused, past, server
  <1>3. CASE AnswerRefresh(r)
    <2>1. out => ~Exchangeable(request[r].pair)
      BY <1>3 DEF AnswerRefresh, Exchangeable, Spent
    <2>2. CASE out
      BY <1>3, <2>1, <2>2, AnswerRefreshEffect, OutInvKept
         DEF AnswerRefresh, past, server, Spent
    <2>3. CASE ~out
      BY <1>3, <2>3 DEF AnswerRefresh, past
    <2>4. QED
      BY <2>2, <2>3, TypedParts DEF FlagsTyped
  <1>4. CASE Refreshed(r)
    <2>1. \A p \in Requests : ~UnderWay(p)'
      BY <1>4, RefreshedEffect
    <2>2. out => token' = token
      BY <1>4 DEF Refreshed
    <2>3. QED
      BY <1>4, <2>1, <2>2 DEF Refreshed, past, server, Spent
  <1>5. CASE RefreshFails(r)
    <2>1. \A p \in Requests : request'[p] = request[p] \/ ~UnderWay(p)'
      BY <1>5 DEF RefreshFails, Idle
    <2>2. QED
      BY <1>5, <2>1 DEF RefreshFails, SignOutCall, past, server, Spent
  <1>6. QED
    BY <1>1, <1>2, <1>3, <1>4, <1>5 DEF Interceptors

LEMMA OutInvAuthStore ==
  ASSUME ApiInv, OtherInv, OutInv, AuthStore, UNCHANGED other
  PROVE  OutInv'
  <1> USE DEF OutInv, UnderWay, server, Spent
  <1>1. CASE SignIn \/ SignOut
    BY <1>1 DEF SignIn, SignOut, Calls, past
  <1>2. CASE Restore
    BY <1>2 DEF Restore, Calls, past
  <1>3. CASE AnswerCall
    <2>1. CASE out
      <3>1. auth.kind # "signIn" /\ (auth.kind = "restore" => ~Exchangeable(auth.pair))
        BY <2>1 DEF Exchangeable
      <3>2. registered' \in {registered, 0} /\ auth'.pair = 0 /\ auth'.kind = auth.kind
        BY <1>3, <3>1, AnswerCallEffect DEF AnswerCall, ApiInv, Exchange
      <3>3. QED
        BY <1>3, <2>1, <3>1, <3>2 DEF AnswerCall, past
    <2>2. CASE ~out
      BY <1>3, <2>2 DEF AnswerCall, past
    <2>3. QED
      BY <2>1, <2>2, TypedParts DEF ApiInv, FlagsTyped
  <1>4. CASE SignedIn
    BY <1>4 DEF SignedIn, past, ApiInv, Typed, AuthTyped, CallOK, NoCall
  <1>5. CASE SignedOut
    <2>1. /\ token' = 0 /\ cookie' = 0 /\ auth'.kind = "none"
          /\ UNCHANGED <<registered, request, other>>
          /\ out' <=> ~SessionUnderWay
      BY <1>5 DEF SignedOut, NoCall
    <2>2. out' => \/ registered = 0
                  \/ other = AtEase /\ \A r \in Requests : ~UnderWay(r)
      BY <2>1 DEF SessionUnderWay, RefreshUnderWay
    <2>3. out' => \A r \in Requests : UnderWay(r) => Spent(request[r].pair)
      BY <2>2
    <2>4. out' => Spent(other.pair)
      BY <2>2 DEF AtEase
    <2>5. QED
      BY <2>1, <2>3, <2>4
  <1>6. CASE CallFails
    BY <1>6 DEF CallFails, NoCall, past
  <1>7. QED
    BY <1>1, <1>2, <1>3, <1>4, <1>5, <1>6 DEF AuthStore

LEMMA OutInvNext ==
  ASSUME ApiInv, OtherInv, OutInv, [Next]_streamVars
  PROVE  OutInv'
  <1>1. CASE Server /\ UNCHANGED other
    BY <1>1, OutInvKept DEF Server, Expire, EndElsewhere, client, past, UnderWay, OutInv
  <1>2. CASE Reloading
    BY <1>2 DEF Reloading, Reload, NoCall, Idle, UnderWay, OutInv, Spent, server
  <1>3. CASE UNCHANGED apiVars
    BY <1>3, OutInvKept DEF apiVars, client, past, server, UnderWay, OutInv
  <1>4. QED
    BY <1>1, <1>2, <1>3, OutInvOtherTab, OutInvInterceptors, OutInvAuthStore
       DEF Next, Calling, ApiNext, ThisTab, Opens, IsRefused, IsLost, Retries, streamVars

-----------------------------------------------------------------------------
(* Kept signed in.                                                          *)

AtRest == \A r \in Requests : request[r].stage \in {"idle", "stranded"}

\* Undisturbed, the pair that is registered is the one the tab has, presents
\* or is about to get.
KeptInv ==
    alone /\ ~tangled =>
        /\ token = 0 =>
              /\ AtRest /\ auth.kind # "signOut"
              /\ auth.stage = "answered" => auth.pair \in {0, registered}
        /\ token # 0 => auth.kind \in {"none", "signOut"}
        /\ token # 0 /\ auth.kind = "none" =>
              /\ registered # 0
              /\ \A r \in Requests : UnderWay(r) => request[r].pair = registered
              /\ \/ cookie = registered
                 \/ \E r \in Requests : request[r].stage = "answered"

LEMMA KeptInvNext ==
  ASSUME ApiInv, OtherInv, KeptInv, [Next]_streamVars
  PROVE  KeptInv'
  <1> USE DEF KeptInv, AtRest
  <1>0. CASE OtherTab /\ UNCHANGED alone
    BY <1>0 DEF OtherTab, OtherTabAsks, AnswerOtherTab, OtherTabSignsIn, OtherTabAnswered,
       OtherTabFails, OtherTabSignedOut, OtherInv, AtEase
  <1>1. CASE Server /\ UNCHANGED alone
    BY <1>1 DEF Server, Expire, EndElsewhere, client, past, UnderWay
  <1>2. ASSUME NEW r \in Requests, Interceptors(r), UNCHANGED alone
        PROVE  KeptInv'
    <2> USE TypedParts DEF ApiInv, RequestTyped, UnderWay
    <2>1. CASE Send(r)
      BY <1>2, <2>1, SendEffect DEF Send, past, server
    <2>2. CASE Answer(r)
      BY <1>2, <2>2, AnswerEffect DEF Answer, past, server
    <2>3. CASE Refused(r)
      BY <1>2, <2>3, RefusedEffect DEF Refused, past, server, OneRefresh
    <2>4. CASE AnswerRefresh(r)
      BY <1>2, <2>4, AnswerRefreshEffect, IssueFacts
         DEF AnswerRefresh, Exchangeable, past, OneRefresh
    <2>5. CASE Refreshed(r)
      BY <1>2, <2>5, RefreshedEffect DEF Refreshed, past, server
    <2>6. CASE RefreshFails(r)
      BY <1>2, <2>6 DEF RefreshFails, Waiting, SignOutCall, past, server, Idle
    <2>7. QED
      BY <1>2, <2>1, <2>2, <2>3, <2>4, <2>5, <2>6 DEF Interceptors
  <1>3. CASE AuthStore /\ UNCHANGED alone
    <2> USE <1>3 DEF UnderWay
    <2>1. CASE SignIn \/ SignOut \/ Restore
      BY <2>1 DEF SignIn, SignOut, Restore, Calls, SignOutCall, past, server
    <2>2. CASE AnswerCall
      BY <2>2, AnswerCallEffect, IssueFacts DEF AnswerCall, past, server, ApiInv
    <2>3. CASE SignedIn
      BY <2>3 DEF SignedIn, past, server, NoCall, ApiInv, Typed, AuthTyped, CallOK
    <2>4. CASE SignedOut
      BY <2>4 DEF SignedOut, server, NoCall
    <2>5. CASE CallFails
      BY <2>5 DEF CallFails, NoCall, past, server
    <2>6. QED
      BY <2>1, <2>2, <2>3, <2>4, <2>5 DEF AuthStore
  <1>4. CASE Reloading
    BY <1>4 DEF Reloading, Reload
  <1>5. CASE UNCHANGED apiVars
    BY <1>5 DEF apiVars, client, past, server, UnderWay
  <1>6. QED
    BY <1>0, <1>1, <1>2, <1>3, <1>4, <1>5
       DEF Next, Calling, ApiNext, ThisTab, Opens, IsRefused, IsLost, Retries, streamVars

-----------------------------------------------------------------------------
(* The theorems.                                                            *)

BrowserIInv == ApiInv /\ OtherInv /\ StreamInv /\ OutInv /\ KeptInv

LEMMA BrowserIInvAlways == Spec => []BrowserIInv
  <1>1. Init => BrowserIInv
    <2> SUFFICES ASSUME Init PROVE BrowserIInv
      OBVIOUS
    <2>1. ApiInv
      BY ApiInvInit DEF Init
    <2>2. StreamInv
      BY ClientAssumption DEF Init, ApiInit, StreamInv, Sound, StreamRecords, NoStream, Pairs
    <2>3. OtherInv
      BY ClientAssumption DEF Init, ApiInit, OtherInv, AtEase, Pairs
    <2>4. OutInv /\ KeptInv
      BY DEF Init, ApiInit, OutInv, KeptInv, AtRest, NoCall, Idle
    <2>5. QED
      BY <2>1, <2>2, <2>3, <2>4 DEF BrowserIInv
  <1>2. BrowserIInv /\ [Next]_streamVars => BrowserIInv'
    BY ApiInvNext, OtherInvNext, StreamInvNext, OutInvNext, KeptInvNext DEF BrowserIInv
  <1>3. QED
    BY <1>1, <1>2, PTL DEF Spec

\* Types, and NobodyWaitsInVain: a request in the interceptor's queue (Jc)
\* waits for a refresh that is under way, and the flag Ec says so.
THEOREM BrowserInvariant == Spec => []BrowserInv
  <1>1. BrowserIInv => ApiTypeOK
    BY DEF BrowserIInv, ApiInv, Typed, ServerTyped, AuthTyped, RequestTyped, FlagsTyped,
       RequestRecords, OtherInv, ApiTypeOK
  <1>2. BrowserIInv => StreamTypeOK /\ NobodyWaitsInVain
    BY DEF BrowserIInv, ApiInv, OneRefresh, UnderWay, StreamInv, Sound,
       StreamRecords, StreamTypeOK, NobodyWaitsInVain, RefreshUnderWay, Waiting
  <1>3. BrowserIInv => BrowserInv
    BY <1>1, <1>2 DEF BrowserInv
  <1>4. QED
    BY <1>3, BrowserIInvAlways, PTL

\* A signed-in tab with an open stream listens to notifications (t5, QA).
THEOREM AlwaysListens == Spec => []Listens
  <1>1. BrowserIInv => Listens
    BY DEF BrowserIInv, StreamInv, Sound, Listens
  <1>2. QED
    BY <1>1, BrowserIInvAlways, PTL

\* Signed out is signed out, whatever is under way, here or in another tab, as
\* long as the registry was told or no refresh is.
THEOREM SignOutAlwaysHolds == Spec => []SignOutHolds
  <1>1. BrowserIInv => SignOutHolds
    BY DEF BrowserIInv, OutInv, Spent, SignOutHolds, Exchangeable
  <1>2. QED
    BY <1>1, BrowserIInvAlways, PTL

\* Expiring access tokens alone never sign a user out.
THEOREM AlwaysKeptSignedIn == Spec => []KeptSignedIn
  <1>1. BrowserIInv => KeptSignedIn
    BY DEF BrowserIInv, KeptInv, AtRest, UnderWay, KeptSignedIn
  <1>2. QED
    BY <1>1, BrowserIInvAlways, PTL
=============================================================================
