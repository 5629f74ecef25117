----------------------------- MODULE ApiClient ------------------------------
(***************************************************************************)
(* The API client of one browser tab: the access token it holds in memory, *)
(* the refresh token in the browser's cookie, and the interceptor that     *)
(* refreshes a refused token once, has the other requests wait meanwhile,  *)
(* and signs the user out when that fails.                                 *)
(*                                                                         *)
(* The server is the registry of JwtSessions as one user's tab sees it:    *)
(* one pair of tokens is registered; a refresh replaces the pair. Pairs    *)
(* are numbered as they are issued, 0 is no pair.                          *)
(***************************************************************************)
EXTENDS Naturals

CONSTANTS
    Requests,    \* requests of the pages under way at a time
    MaxPairs,    \* pairs of tokens ever issued
    Solitude     \* the values of alone to explore, see below

ASSUME ClientAssumption == MaxPairs \in Nat /\ Solitude \subseteq BOOLEAN

Pairs == 0..MaxPairs

VARIABLES
    registered,   \* the pair the registry holds
    issued,       \* the last pair issued
    expired,      \* pairs whose access token has expired
    cookie,       \* the pair whose refresh token the browser's cookie holds
    token,        \* the pair of the auth store's access token
    auth,         \* the auth store's own call: sign-in, sign-out or restore
    refreshing,   \* the interceptor's flag (Ec)
    request,      \* each request, with the refresh it makes
    other,        \* what another tab, which shares the cookie, has under way
    out,          \* signed out, nothing under way to undo it, and not in again
    tangled,      \* signed out with requests under way, and not reloaded since
    alone         \* nobody else touches the session, nothing is lost

server == <<registered, issued, expired>>
past == <<out, tangled>>
client == <<cookie, token, auth, refreshing, request, past>>
apiVars == <<server, client, other, alone>>

NoCall == [kind |-> "none", stage |-> "idle", pair |-> 0]

AtEase == [stage |-> "idle", pair |-> 0]

\* denied: 401 is on its way back; waiting: in the queue (Jc); asking and
\* answered: its refresh is under way; stranded: dropped from the queue, its
\* promise never settles. pair: the token it carries, for a refresh the one
\* it presents or is given.
Idle == [stage |-> "idle", pair |-> 0, retry |-> FALSE]

ApiTypeOK ==
    /\ registered \in Pairs /\ issued \in Pairs /\ expired \subseteq 1..issued
    /\ cookie \in 0..issued /\ token \in 0..issued
    /\ auth \in [kind : {"none", "restore", "signIn", "signOut"},
                 stage : {"idle", "asking", "answered"}, pair : Pairs]
    /\ other \in [stage : {"idle", "asking", "answered"}, pair : Pairs]
    /\ refreshing \in BOOLEAN
    /\ request \in [Requests -> [stage : {"idle", "sent", "denied", "waiting",
                                          "asking", "answered", "stranded"},
                                 pair : Pairs, retry : BOOLEAN]]
    /\ out \in BOOLEAN /\ tangled \in BOOLEAN
    /\ alone \in Solitude

ApiInit ==
    /\ registered = 0 /\ issued = 0 /\ expired = {}
    /\ cookie = 0 /\ token = 0
    /\ auth = NoCall /\ other = AtEase
    /\ refreshing = FALSE
    /\ request = [r \in Requests |-> Idle]
    /\ out = FALSE /\ tangled = FALSE
    /\ alone \in Solitude

-----------------------------------------------------------------------------
(* The server.                                                              *)

Valid(n) == n # 0 /\ n = registered /\ n \notin expired

Issue ==
    /\ issued < MaxPairs
    /\ issued' = issued + 1 /\ registered' = issued + 1
    /\ UNCHANGED expired

\* JwtRegistry: a refresh token that is registered is exchanged for a new pair.
Exchangeable(n) == n # 0 /\ n = registered

Exchange(n) == Exchangeable(n) /\ Issue

\* The access token of a pair expires.
Expire(n) ==
    /\ n \in 1..issued \ expired
    /\ expired' = expired \cup {n}
    /\ UNCHANGED <<registered, issued, client>>

\* The session ends elsewhere: a sign-in on another device, a lock, a new role.
EndElsewhere ==
    /\ ~alone /\ registered # 0
    /\ registered' = 0
    /\ UNCHANGED <<issued, expired, client>>

-----------------------------------------------------------------------------
(* Requests of the pages, and the interceptors.                             *)

Becomes(r, stage, n) ==
    request' = [request EXCEPT ![r].stage = stage, ![r].pair = n]

\* Pages are only rendered with a token.
Send(r) ==
    /\ request[r].stage = "idle" /\ token # 0
    /\ request' = [request EXCEPT ![r] = [Idle EXCEPT !.stage = "sent", !.pair = token]]
    /\ UNCHANGED <<server, cookie, token, auth, refreshing, past>>

\* The server answers, or refuses the token with 401; without a token it
\* answers 403, which nobody retries.
Answer(r) ==
    /\ request[r].stage = "sent"
    /\ IF request[r].pair = 0 \/ Valid(request[r].pair)
       THEN request' = [request EXCEPT ![r] = Idle]
       ELSE Becomes(r, "denied", 0)
    /\ UNCHANGED <<server, cookie, token, auth, refreshing, past>>

\* Mutation: every refused request refreshes.
RefusedRefreshes(r) ==
    /\ request[r].stage = "denied"
    /\ IF request[r].retry
       THEN request' = [request EXCEPT ![r] = Idle] /\ UNCHANGED refreshing
       ELSE /\ request' = [request EXCEPT ![r] =
                              [stage |-> "asking", pair |-> cookie, retry |-> TRUE]]
            /\ refreshing' = TRUE
    /\ UNCHANGED <<server, cookie, token, auth, past>>

\* The response interceptor: a request that was retried fails; one that is
\* refused while a refresh is under way waits; else it refreshes.
Refused(r) ==
    /\ request[r].stage = "denied"
    /\ \/ /\ request[r].retry
          /\ request' = [request EXCEPT ![r] = Idle]
          /\ UNCHANGED refreshing
       \/ /\ ~request[r].retry /\ refreshing
          /\ Becomes(r, "waiting", 0)
          /\ UNCHANGED refreshing
       \/ /\ ~request[r].retry /\ ~refreshing
          /\ request' = [request EXCEPT ![r] =
                             [stage |-> "asking", pair |-> cookie, retry |-> TRUE]]
          /\ refreshing' = TRUE
    /\ UNCHANGED <<server, cookie, token, auth, past>>

\* The server answers the refresh: pair 0 is a refusal.
AnswerRefresh(r) ==
    /\ request[r].stage = "asking"
    /\ \/ Exchange(request[r].pair) /\ Becomes(r, "answered", issued')
       \/ /\ ~Exchangeable(request[r].pair)
          /\ Becomes(r, "answered", 0)
          /\ UNCHANGED server
    /\ UNCHANGED <<cookie, token, auth, refreshing, past>>

\* Resent with the new token; the request interceptor prefers the store's.
Resend(rs, store, n) ==
    request' = [r \in Requests |->
        IF r \in rs
        THEN [request[r] EXCEPT !.stage = "sent", !.pair = IF store # 0 THEN store ELSE n]
        ELSE request[r]]

Waiting == {r \in Requests : request[r].stage = "waiting"}

\* Mutation: the queue is not emptied.
RefreshedResendsOne(r) ==
    /\ request[r].stage = "answered" /\ request[r].pair # 0
    /\ cookie' = request[r].pair
    /\ token' = IF token = 0 THEN 0 ELSE request[r].pair
    /\ refreshing' = FALSE
    /\ Resend({r}, token', request[r].pair)
    /\ UNCHANGED <<server, auth, past>>

\* The refresh has succeeded: the cookie is set; the store takes the token,
\* unless it holds none any more; all who waited and r are sent anew.
Refreshed(r) ==
    /\ request[r].stage = "answered" /\ request[r].pair # 0
    /\ cookie' = request[r].pair
    /\ token' = IF token = 0 THEN 0 ELSE request[r].pair
    /\ refreshing' = FALSE
    /\ Resend({r} \cup Waiting, token', request[r].pair)
    /\ UNCHANGED <<server, auth, past>>

SignOutCall == [kind |-> "signOut", stage |-> "asking", pair |-> token]

\* It has failed, or its answer is lost: the queue is dropped, and the user
\* signed out, unless the store is busy.
RefreshFails(r) ==
    /\ \/ request[r].stage = "answered" /\ request[r].pair = 0
       \/ ~alone /\ request[r].stage \in {"asking", "answered"}
    /\ refreshing' = FALSE
    /\ request' = [q \in Requests |->
                      IF q = r THEN Idle
                      ELSE IF q \in Waiting THEN [Idle EXCEPT !.stage = "stranded"]
                      ELSE request[q]]
    /\ auth' = IF auth.kind = "none" THEN SignOutCall ELSE auth
    /\ UNCHANGED <<server, cookie, token, past>>

-----------------------------------------------------------------------------
(* The auth store; it makes one call at a time.                             *)

Calls(call) ==
    /\ auth.kind = "none"
    /\ auth' = call
    /\ UNCHANGED <<server, cookie, token, refreshing, request>>

SignIn ==
    /\ token = 0
    /\ Calls([kind |-> "signIn", stage |-> "asking", pair |-> 0])
    /\ out' = FALSE
    /\ UNCHANGED tangled

SignOut == token # 0 /\ Calls(SignOutCall) /\ UNCHANGED past

\* The route guard, without a token.
Restore ==
    /\ token = 0
    /\ Calls([kind |-> "restore", stage |-> "asking", pair |-> cookie])
    /\ UNCHANGED past

\* The server answers the call. A sign-out ends the session of its bearer, if
\* the token has not expired; registered or not.
AnswerCall ==
    /\ auth.stage = "asking"
    /\ LET reply(n) == auth' = [auth EXCEPT !.stage = "answered", !.pair = n]
       IN  \/ auth.kind = "signIn" /\ Issue /\ reply(issued')
           \/ auth.kind = "restore" /\ Exchange(auth.pair) /\ reply(issued')
           \/ /\ auth.kind = "signIn" \/ (auth.kind = "restore" /\ ~Exchangeable(auth.pair))
              /\ reply(0) /\ UNCHANGED server
           \/ /\ auth.kind = "signOut"
              /\ registered' = IF auth.pair \in {0} \cup expired THEN registered ELSE 0
              /\ reply(0) /\ UNCHANGED <<issued, expired>>
    /\ UNCHANGED <<cookie, token, refreshing, request, past>>

\* A sign-in or a restore has succeeded.
SignedIn ==
    /\ auth.stage = "answered" /\ auth.pair # 0
    /\ token' = auth.pair /\ cookie' = auth.pair
    /\ auth' = NoCall
    /\ UNCHANGED <<server, refreshing, request, past>>

RefreshUnderWay ==
    \E r \in Requests : request[r].stage \in {"asking", "answered"}

\* While the registry holds a pair, something is under way whose answer may set
\* a cookie that opens a session.
SessionUnderWay == registered # 0 /\ (RefreshUnderWay \/ other # AtEase)

\* Mutation: the cookie stays.
SignedOutKeepsCookie ==
    /\ auth.stage = "answered" /\ auth.kind = "signOut"
    /\ token' = 0 /\ UNCHANGED cookie
    /\ auth' = NoCall
    /\ out' = ~SessionUnderWay
    /\ tangled' = (tangled \/ \E r \in Requests : request[r].stage \notin {"idle", "stranded"})
    /\ UNCHANGED <<server, refreshing, request>>

\* A sign-out has: the cookie is deleted, the store cleared.
SignedOut ==
    /\ auth.stage = "answered" /\ auth.kind = "signOut"
    /\ token' = 0 /\ cookie' = 0
    /\ auth' = NoCall
    /\ out' = ~SessionUnderWay
    /\ tangled' = (tangled \/ \E r \in Requests : request[r].stage \notin {"idle", "stranded"})
    /\ UNCHANGED <<server, refreshing, request>>

\* The call has failed: the store keeps what it has.
CallFails ==
    /\ \/ auth.stage = "answered" /\ auth.kind # "signOut" /\ auth.pair = 0
       \/ ~alone /\ auth.kind # "none"
    /\ auth' = NoCall
    /\ UNCHANGED <<server, cookie, token, refreshing, request, past>>

\* The tab is reloaded: what was under way is forgotten.
Reload ==
    /\ ~alone
    /\ token' = 0 /\ auth' = NoCall /\ refreshing' = FALSE
    /\ request' = [r \in Requests |-> Idle]
    /\ tangled' = FALSE
    /\ UNCHANGED <<server, cookie, out>>

-----------------------------------------------------------------------------
(* Another tab, as far as the server and the cookie tell.                   *)

OtherTabKeeps == UNCHANGED <<token, auth, refreshing, request, tangled>>

\* It is opened, or a token of its is refused: it asks for a refresh. (Without
\* a cookie in vain.)
OtherTabAsks ==
    /\ ~alone /\ other = AtEase /\ cookie # 0
    /\ other' = [stage |-> "asking", pair |-> cookie]
    /\ OtherTabKeeps /\ UNCHANGED <<server, cookie, out>>

\* The server exchanges the pair.
AnswerOtherTab ==
    /\ other.stage = "asking" /\ Exchange(other.pair)
    /\ other' = [stage |-> "answered", pair |-> issued']
    /\ OtherTabKeeps /\ UNCHANGED <<cookie, out>>

\* The server signs its user in.
OtherTabSignsIn ==
    /\ ~alone /\ other = AtEase /\ Issue
    /\ other' = [stage |-> "answered", pair |-> issued']
    /\ out' = FALSE
    /\ OtherTabKeeps /\ UNCHANGED cookie

\* The answer arrives, and the browser sets the cookie.
OtherTabAnswered ==
    /\ other.stage = "answered"
    /\ cookie' = other.pair /\ other' = AtEase
    /\ OtherTabKeeps /\ UNCHANGED <<server, out>>

\* It is a refusal, or lost on its way.
OtherTabFails ==
    /\ other # AtEase
    /\ other' = AtEase
    /\ OtherTabKeeps /\ UNCHANGED <<server, cookie, out>>

\* The answer to a sign-out there; the server was told, or not (EndElsewhere).
OtherTabSignedOut ==
    /\ ~alone /\ cookie # 0
    /\ cookie' = 0
    /\ OtherTabKeeps /\ UNCHANGED <<server, other, out>>

-----------------------------------------------------------------------------

Server ==
    \/ \E n \in Pairs : Expire(n)
    \/ EndElsewhere

Interceptors(r) ==
    \/ Send(r) \/ Answer(r) \/ Refused(r)
    \/ AnswerRefresh(r) \/ Refreshed(r) \/ RefreshFails(r)

AuthStore ==
    \/ SignIn \/ SignOut \/ Restore
    \/ AnswerCall \/ SignedIn \/ SignedOut \/ CallFails

OtherTab ==
    \/ OtherTabAsks \/ AnswerOtherTab \/ OtherTabSignsIn
    \/ OtherTabAnswered \/ OtherTabFails \/ OtherTabSignedOut

ThisTab == AuthStore \/ \E r \in Requests : Interceptors(r)

ApiNext ==
    /\ \/ (Server \/ ThisTab) /\ UNCHANGED other
       \/ OtherTab
    /\ UNCHANGED alone

-----------------------------------------------------------------------------
(* Correctness.                                                             *)

\* A request in the queue waits for a refresh that is under way, which is the
\* only one; no path out of the interceptor leaves one there unnoticed.
NobodyWaitsInVain ==
    /\ refreshing <=> RefreshUnderWay
    /\ Waiting # {} => RefreshUnderWay

\* As long as nobody else touches the session and nothing is lost, access
\* tokens that expire never sign the user out, whatever requests are under
\* way: no refresh is refused, but by the user's own sign-out. (Requests that
\* are under way when the user signs out may sign out the user's next session.)
KeptSignedIn ==
    alone /\ ~tangled /\ auth.kind # "signOut" =>
        \A r \in Requests : ~(request[r].stage = "answered" /\ request[r].pair = 0)

\* After a sign-out the tab has no session and the cookie opens none, until
\* the user signs in again, here or in another tab: not by a reload, nor by the
\* answer to a request that was under way, nor by what another tab asks for
\* later. (If the access token had expired, the registry was not told: then the
\* answer to a refresh that was under way, of this tab or of another, sets a
\* cookie that opens the session again.)
SignOutHolds == out => token = 0 /\ ~Exchangeable(cookie)
=============================================================================
