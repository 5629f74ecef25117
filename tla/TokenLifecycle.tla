--------------------------- MODULE TokenLifecycle ---------------------------
(***************************************************************************)
(* What the session registry promises about every single token, whatever   *)
(* the requests around it do: an access token and a refresh token are each *)
(* honoured during at most one stretch of time. A token that was withdrawn *)
(* (rotated away, logged out, expired, or abandoned with a broken request) *)
(* is never honoured again, and no access token is honoured before its     *)
(* refresh token was recorded.                                             *)
(***************************************************************************)
CONSTANT Pairs

VARIABLES access, refresh    \* stage of the two tokens of each pair

vars == <<access, refresh>>

Stages == {"unborn", "live", "dead"}

TypeOK == access \in [Pairs -> Stages] /\ refresh \in [Pairs -> Stages]

Init ==
    /\ access = [n \in Pairs |-> "unborn"]
    /\ refresh = [n \in Pairs |-> "unborn"]

GrantRefresh(n) ==
    /\ refresh[n] = "unborn"
    /\ refresh' = [refresh EXCEPT ![n] = "live"]
    /\ UNCHANGED access

GrantAccess(n) ==
    /\ access[n] = "unborn"
    /\ refresh[n] # "unborn"
    /\ access' = [access EXCEPT ![n] = "live"]
    /\ UNCHANGED refresh

WithdrawRefresh(n) ==
    /\ refresh[n] = "live"
    /\ refresh' = [refresh EXCEPT ![n] = "dead"]
    /\ UNCHANGED access

WithdrawAccess(n) ==
    /\ access[n] = "live"
    /\ access' = [access EXCEPT ![n] = "dead"]
    /\ UNCHANGED refresh

\* The request that was recording the pair broke off: what it did not record
\* by then never will be.
Abandon(n) ==
    /\ access[n] = "unborn"
    /\ access' = [access EXCEPT ![n] = "dead"]
    /\ refresh' = [refresh EXCEPT ![n] = IF @ = "unborn" THEN "dead" ELSE @]

Next == \E n \in Pairs : \/ GrantRefresh(n) \/ GrantAccess(n)
                         \/ WithdrawRefresh(n) \/ WithdrawAccess(n)
                         \/ Abandon(n)

Spec == Init /\ [][Next]_vars
=============================================================================
