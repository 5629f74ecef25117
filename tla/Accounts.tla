------------------------------ MODULE Accounts ------------------------------
(***************************************************************************)
(* Accounts and the ways to prove who one is: UserService (sign-up,        *)
(* password, lock), CustomOauth2UserService (find or create), AuthService  *)
(* (temporary passwords) and the providers that a log-in asks in turn,     *)
(* TempPasswordAuthenticationProvider and Spring's DaoAuthenticationProvider. *)
(* What a log-in does next is in JwtSessions.                              *)
(*                                                                         *)
(* As in Catalog a transaction is two steps, its reads and its commit;     *)
(* Redis commands and mails are steps of their own. An account has the     *)
(* name of the request that created it.                                    *)
(***************************************************************************)
EXTENDS FiniteSets, Integers

CONSTANTS
    Addresses,   \* e-mail addresses, whatever their case
    Identities,  \* people as Google and Kakao know them
    AddressOf,   \* their addresses; without one it is made up from the identity
    Passwords,   \* that people choose
    Temps,       \* temporary passwords; none is generated twice
    Requests,
    Founder,     \* the request whose account is there from the start
    Modes,       \* the settings to explore
    None

\* An address as it is written. The database does not tell cases apart.
Spelled == [address : Addresses, lower : BOOLEAN]

\* overlap: transactions run at the same time. access: people sign in, ask for
\* temporary passwords and are locked. people: they follow and write each other.
\* emails: the addresses in use, as people write them.
Settings == [overlap : BOOLEAN, access : BOOLEAN, people : BOOLEAN,
             emails : SUBSET Spelled]

Rows  == [email : Spelled, password : Passwords \cup {None},
          identity : Identities \cup {None}, locked : BOOLEAN]

ASSUME AccountsAssumption ==
    /\ Modes \subseteq Settings
    /\ AddressOf \in [Identities -> Addresses]
    /\ Founder \in Requests
    /\ Passwords \cap Temps = {}
    /\ None \notin Passwords \cup Temps \cup Identities \cup Requests \cup Rows

VARIABLES
    setting,     \* chosen once
    account,     \* committed row of each account
    temp,        \* pw:temp:{email} in Redis
    mail,        \* temporary passwords on their way
    inbox,       \* and those that have arrived
    pc, tx,      \* progress of each request; what it does and what it has read
    right, ever  \* log-ins whose credentials have been right all along; at some time

access  == <<temp, mail, inbox>>
judged  == <<right, ever>>
accVars == <<setting, account, access, pc, tx, judged>>

Ops   == {"signUp", "oauth", "edit", "reset", "mail", "signIn",
          "follow", "unfollow", "room"}
Mails == [to : Spelled, password : Temps]

TypeOK ==
    /\ setting \in Modes
    /\ account \in [Requests -> Rows \cup {None}]
    /\ temp \in [Spelled -> Temps \cup {None}]
    /\ mail \subseteq Mails /\ inbox \subseteq Mails
    /\ pc \in [Requests -> {"new", "open", "done", "failed"}]
    /\ DOMAIN tx = Requests
    /\ \A r \in Requests : IF pc[r] = "new" THEN tx[r] = None ELSE tx[r].op \in Ops
    /\ right \subseteq ever /\ ever \subseteq Requests

AccInit ==
    /\ setting \in Modes
    /\ \E s \in setting.emails, p \in Passwords :
           account = [r \in Requests |->
               IF r # Founder THEN None
               ELSE [email |-> s, password |-> p, identity |-> None, locked |-> FALSE]]
    /\ temp = [s \in Spelled |-> None]
    /\ mail = {} /\ inbox = {}
    /\ pc = [r \in Requests |-> IF r = Founder THEN "done" ELSE "new"]
    /\ tx = [r \in Requests |-> IF r = Founder THEN [op |-> "signUp"] ELSE None]
    /\ right = {} /\ ever = {}

Ids == {a \in Requests : account[a] # None}

\* existsByEmail, findByEmail
Owners(s) == {a \in Ids : account[a].email.address = s.address}

MayStart(r) ==
    /\ pc[r] = "new"
    /\ setting.overlap \/ \A q \in Requests : pc[q] # "open"

\* Request r goes on with what it has read, or throws.
Begin(r, goes, t) ==
    /\ MayStart(r)
    /\ pc' = [pc EXCEPT ![r] = IF goes THEN "open" ELSE "failed"]
    /\ tx' = [tx EXCEPT ![r] = t]

Doing(r, op) == pc[r] = "open" /\ tx[r].op = op

End(r, how) ==
    /\ pc' = [pc EXCEPT ![r] = how]
    /\ tx' = [tx EXCEPT ![r] = [op |-> tx[r].op]]

-----------------------------------------------------------------------------
(* Accounts come to be and change.                                          *)

SignUp(r, s, p) ==
    /\ Begin(r, Owners(s) = {}, [op |-> "signUp", email |-> s, password |-> p])
    /\ UNCHANGED <<account, access>>

\* Mutation: the index on users.email is not there.
Indexless(s) == TRUE

\* users.email is unique.
Unique(s) == Owners(s) = {}

Store(r, row) ==
    /\ Unique(row.email)
    /\ account' = [account EXCEPT ![r] = row]
    /\ End(r, "done")
    /\ UNCHANGED access

CommitSignUp(r) ==
    /\ Doing(r, "signUp")
    /\ Store(r, [email |-> tx[r].email, password |-> tx[r].password,
                 identity |-> None, locked |-> FALSE])

\* findByProviderAndProviderId, a transaction of its own; so is the save.
LoadOauthUser(r, i) ==
    /\ MayStart(r)
    /\ tx' = [tx EXCEPT ![r] = [op |-> "oauth", identity |-> i]]
    /\ pc' = [pc EXCEPT ![r] = IF \E a \in Ids : account[a].identity = i
                               THEN "done" ELSE "open"]
    /\ UNCHANGED <<account, access>>

SaveOauthUser(r) ==
    /\ Doing(r, "oauth")
    /\ \E s \in setting.emails :
           /\ s.address = AddressOf[tx[r].identity]
           /\ Store(r, [email |-> s, password |-> None,
                        identity |-> tx[r].identity, locked |-> FALSE])

ChangePassword(r, a, p) ==
    /\ Begin(r, TRUE, [op |-> "edit", id |-> a, row |-> [account[a] EXCEPT !.password = p]])
    /\ UNCHANGED <<account, access>>

UpdateLocked(r, a, locked) ==
    /\ account[a].locked # locked
    /\ Begin(r, TRUE, [op |-> "edit", id |-> a, row |-> [account[a] EXCEPT !.locked = locked]])
    /\ UNCHANGED <<account, access>>

\* The whole row is written.
CommitEdit(r) ==
    /\ Doing(r, "edit")
    /\ account' = [account EXCEPT ![tx[r].id] = tx[r].row]
    /\ End(r, "done")
    /\ UNCHANGED access

\* A transaction rolls back, a mail is refused. A log-in that breaks off is
\* repeated and left out.
Fail(r) ==
    /\ pc[r] = "open" /\ tx[r].op # "signIn"
    /\ End(r, "failed")
    /\ UNCHANGED <<account, access>>

-----------------------------------------------------------------------------
(* Temporary passwords.                                                     *)

ResetPassword(r, s) ==
    /\ Begin(r, Owners(s) # {}, [op |-> "reset", email |-> s])
    /\ UNCHANGED <<account, access>>

\* Those that somebody may come to know.
Issued == {temp[s] : s \in Spelled} \cup {m.password : m \in mail \cup inbox}
          \cup {tx[r].password : r \in {q \in Requests : Doing(q, "mail")}}

\* The key is the address as the request writes it.
SetTemp(r) ==
    /\ Doing(r, "reset")
    /\ \E t \in Temps \ Issued :
           /\ temp' = [temp EXCEPT ![tx[r].email] = t]
           /\ tx' = [tx EXCEPT ![r] = [op |-> "mail", email |-> tx[r].email, password |-> t]]
    /\ UNCHANGED <<account, mail, inbox, pc>>

\* A full pool refuses the mail, which is Fail: the key stays.
SendMail(r) ==
    /\ Doing(r, "mail")
    /\ mail' = mail \cup {[to |-> tx[r].email, password |-> tx[r].password]}
    /\ End(r, "done")
    /\ UNCHANGED <<account, temp, inbox>>

Deliver(m) ==
    /\ m \in mail
    /\ mail' = mail \ {m} /\ inbox' = inbox \cup {m}
    /\ UNCHANGED <<account, temp, pc, tx>>

Expire(s) ==
    /\ temp[s] # None
    /\ temp' = [temp EXCEPT ![s] = None]
    /\ UNCHANGED <<account, mail, inbox, pc, tx>>

-----------------------------------------------------------------------------
(* A log-in with e-mail address and password.                               *)

\* The provider of temporary passwords reads the account. Without one it throws
\* an exception that lets the next provider try, for a locked one an exception
\* that does not.
SignIn(r, s, p) ==
    /\ Begin(r, \A a \in Owners(s) : ~account[a].locked,
             [op |-> "signIn", email |-> s, password |-> p,
              step |-> IF Owners(s) = {} THEN "dao" ELSE "temp"])
    /\ UNCHANGED <<account, access>>

\* Mutation: another password than the temporary one is an error.
TryTempOnly(r) ==
    LET held == temp[[tx[r].email EXCEPT !.lower = TRUE]]
    IN  /\ Doing(r, "signIn") /\ tx[r].step = "temp"
        /\ IF held = None
           THEN tx' = [tx EXCEPT ![r].step = "dao"] /\ UNCHANGED pc
           ELSE End(r, IF held = tx[r].password THEN "done" ELSE "failed")
        /\ UNCHANGED <<account, access>>

\* It reads the key of the address in lower case. If there is none, or it holds
\* another password, the next provider tries.
TryTemp(r) ==
    /\ Doing(r, "signIn") /\ tx[r].step = "temp"
    /\ IF temp[[tx[r].email EXCEPT !.lower = TRUE]] = tx[r].password
       THEN End(r, "done")
       ELSE tx' = [tx EXCEPT ![r].step = "dao"] /\ UNCHANGED pc
    /\ UNCHANGED <<account, access>>

\* CustomUserDetailsService reads the account again.
TryPassword(r) ==
    /\ Doing(r, "signIn") /\ tx[r].step = "dao"
    /\ End(r, IF \E a \in Owners(tx[r].email) :
                     ~account[a].locked /\ account[a].password = tx[r].password
              THEN "done" ELSE "failed")
    /\ UNCHANGED <<account, access>>

-----------------------------------------------------------------------------
(* What a log-in should decide.                                             *)

\* The password is the account's, or one that was mailed for the address and has
\* neither expired nor been replaced; and the account is not locked.
Right(s, p) ==
    \E a \in Owners(s) :
        /\ ~account[a].locked
        /\ \/ account[a].password = p
           \/ \E t \in Spelled : t.address = s.address /\ temp[t] = p

SigningIn == {r \in Requests : pc[r] = "open" /\ tx[r].op = "signIn"}

RightNow == {r \in SigningIn : Right(tx[r].email, tx[r].password)}

\* The bookkeeping that goes with every step.
Judge ==
    LET begun == {r \in SigningIn' : pc[r] = "new"}
    IN  /\ right' = (right \cup begun) \cap (RightNow' \cup (Requests \ SigningIn'))
        /\ ever' = ever \cup RightNow'

StartAccess(r) ==
    \/ \E s \in setting.emails : ResetPassword(r, s)
    \/ \E s \in setting.emails, p \in Passwords \cup {m.password : m \in inbox} : SignIn(r, s, p)
    \/ \E a \in Ids, locked \in BOOLEAN : UpdateLocked(r, a, locked)

StartAccount(r) ==
    \/ \E s \in setting.emails, p \in Passwords : SignUp(r, s, p)
    \/ \E i \in Identities : LoadOauthUser(r, i)
    \/ \E a \in Ids, p \in Passwords : ChangePassword(r, a, p)

Continue(r) ==
    \/ CommitSignUp(r) \/ SaveOauthUser(r) \/ CommitEdit(r)
    \/ SetTemp(r) \/ SendMail(r) \/ TryTemp(r) \/ TryPassword(r)

\* A mail that is lost is one that is never delivered.
Time == (\E m \in mail : Deliver(m)) \/ (\E s \in Spelled : Expire(s))

AccNext ==
    /\ \/ \E r \in Requests : \/ StartAccount(r) \/ Continue(r) \/ Fail(r)
                              \/ setting.access /\ StartAccess(r)
       \/ Time
    /\ Judge
    /\ UNCHANGED setting

-----------------------------------------------------------------------------
(* Correctness.                                                             *)

\* An e-mail address has one account, and so has a person known by Google or
\* Kakao, however sign-ups and first log-ins overlap.
OneAccount ==
    \A a, b \in Ids :
        \/ account[a].email.address = account[b].email.address
        \/ account[a].identity = account[b].identity /\ account[a].identity # None
        => a = b

\* A log-in whose password was never right while it ran is refused, and one whose
\* password was right all along, be it chosen or temporary, is let in, as long as
\* addresses are written in lower case.
SignInDecides ==
    \A r \in Requests : pc[r] # "new" /\ tx[r].op = "signIn" =>
        /\ pc[r] = "done" => r \in ever
        /\ pc[r] = "failed" /\ (\A s \in setting.emails : s.lower) => r \notin right
=============================================================================
