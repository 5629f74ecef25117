---------------------------- MODULE EventStream -----------------------------
(***************************************************************************)
(* The tab's event stream: the store t5 around the EventSource polyfill,   *)
(* and the effect of the page header (QA) that connects it and subscribes  *)
(* to notifications whenever the auth data or isConnected changes.         *)
(*                                                                         *)
(* A stream keeps the token it was made with for all its retries. The      *)
(* store makes a new one only after one was refused, so there is one at a  *)
(* time. An effect runs with the change that causes it.                    *)
(***************************************************************************)
EXTENDS ApiClient

VARIABLE stream

streamVars == <<apiVars, stream>>

\* state: of the polyfill; pair: of the token in its headers; retried: it was
\* lost before. source, connected, connecting: eventSource and the flags of the
\* store. entry: the subscription the store remembers; own: its handler is
\* attached to this stream; orphan: so is one of a forgotten entry.
NoStream == [state |-> "none", pair |-> 0, retried |-> FALSE, source |-> FALSE,
             connected |-> FALSE, connecting |-> FALSE,
             entry |-> FALSE, own |-> FALSE, orphan |-> FALSE]

StreamTypeOK ==
    stream \in [state : {"none", "connecting", "open", "waiting", "closed"},
                pair : Pairs, retried : BOOLEAN, source : BOOLEAN,
                connected : BOOLEAN, connecting : BOOLEAN,
                entry : BOOLEAN, own : BOOLEAN, orphan : BOOLEAN]

Init == ApiInit /\ stream = NoStream

-----------------------------------------------------------------------------
(* The store and the effect.                                                *)

\* Mutation: a closed stream is not replaced.
ConnectOnce(s, n) ==
    IF s.connected \/ s.connecting \/ s.state = "closed" THEN s
    ELSE [NoStream EXCEPT !.state = "connecting", !.pair = n, !.source = TRUE,
                          !.connected = TRUE, !.entry = s.entry]

\* connect: a new stream, which counts as connected at once.
Connect(s, n) ==
    IF s.connected \/ s.connecting THEN s
    ELSE [NoStream EXCEPT !.state = "connecting", !.pair = n, !.source = TRUE,
                          !.connected = TRUE, !.entry = s.entry]

Subscribe(s) ==
    IF s.entry \/ ~s.source \/ ~s.connected THEN s
    ELSE [s EXCEPT !.entry = TRUE, !.own = TRUE]

\* Mutation: the entry stays while the stream is lost.
UnsubscribeConnected(s) ==
    IF s.source /\ s.connected THEN [s EXCEPT !.entry = FALSE, !.own = FALSE] ELSE s

\* unsubscribe: the entry goes; its handler stays attached while the stream
\* is lost.
Unsubscribe(s) ==
    IF s.source /\ s.connected
    THEN [s EXCEPT !.entry = FALSE, !.own = FALSE]
    ELSE [s EXCEPT !.entry = FALSE, !.own = FALSE, !.orphan = @ \/ s.own]

\* The effect runs with the token of pair n: first its cleanup. Connecting
\* changes isConnected, and it runs again, to the same result.
Effect(s, n) ==
    IF n = 0 THEN Unsubscribe(s) ELSE Subscribe(Connect(Unsubscribe(s), n))

\* The stream turns into s; the header is there with a token only.
Turns(s) ==
    stream' = IF s.connected # stream.connected /\ token # 0 THEN Effect(s, token) ELSE s

-----------------------------------------------------------------------------
(* The polyfill.                                                            *)

\* The server accepts the stream: onopen.
Opens ==
    /\ stream.state = "connecting" /\ Valid(stream.pair)
    /\ Turns([stream EXCEPT !.state = "open", !.source = TRUE,
                            !.connected = TRUE, !.connecting = FALSE])
    /\ UNCHANGED apiVars

\* It refuses the token: the stream is closed for good, then onerror.
IsRefused ==
    /\ stream.state = "connecting" /\ ~Valid(stream.pair)
    /\ Turns([stream EXCEPT !.state = "closed", !.source = FALSE,
                            !.connected = FALSE, !.connecting = FALSE])
    /\ UNCHANGED apiVars

\* The connection breaks, the emitter times out, or nothing comes for too
\* long: onerror.
IsLost ==
    /\ stream.state \in {"connecting", "open"}
    /\ Turns([stream EXCEPT !.state = "waiting", !.retried = TRUE, !.source = FALSE,
                            !.connected = FALSE, !.connecting = TRUE])
    /\ UNCHANGED apiVars

\* After a while the stream is asked for again, with the same headers.
Retries ==
    /\ stream.state = "waiting"
    /\ stream' = [stream EXCEPT !.state = "connecting"]
    /\ UNCHANGED apiVars

-----------------------------------------------------------------------------

\* The effect follows what the API client does to the auth data.
Calling ==
    /\ ApiNext
    /\ stream' = IF token' # token THEN Effect(stream, token') ELSE stream

Reloading == Reload /\ stream' = NoStream /\ UNCHANGED <<other, alone>>

Next == Calling \/ Reloading \/ Opens \/ IsRefused \/ IsLost \/ Retries

\* The polyfill retries on a timer, and of the attempts of a stream that keeps
\* trying one is answered before the connection breaks.
Spec == /\ Init /\ [][Next]_streamVars
        /\ WF_streamVars(Retries) /\ SF_streamVars(Opens \/ IsRefused)

-----------------------------------------------------------------------------
(* Correctness.                                                             *)

BrowserInv == ApiTypeOK /\ StreamTypeOK /\ NobodyWaitsInVain

\* While a signed-in tab has an open stream, it listens to notifications:
\* whatever is lost, refreshed, signed out and in again in between.
Listens == token # 0 /\ stream.state = "open" => stream.own

\* Again and again a signed-in tab with a valid token has an open stream,
\* unless a stream that was lost came back with a token that was dead by then.
\* (The tab does not notice such a refusal, and has no stream until its auth
\* data changes.)
StreamComesBack ==
    []<>(\/ token = 0 \/ ~Valid(token)
         \/ stream.state = "open"
         \/ stream.state = "closed" /\ stream.retried)
=============================================================================
