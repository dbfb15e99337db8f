---------------------------- MODULE RefreshTokens ----------------------------
(***************************************************************************)
(* The sessions of the accounts of Registration.  A login stores a refresh *)
(* token in Redis, a refresh exchanges a token for a new one, a logout     *)
(* deletes one.  Each call to Redis is a step; nothing joins the calls of  *)
(* a request, so that refreshes of one session overlap, and a request may  *)
(* fail between any two of them.                                           *)
(*                                                                         *)
(* A session is the tokens that follow from one login.  The code does not  *)
(* know of sessions: it keeps single tokens, each with a user.             *)
(***************************************************************************)
EXTENDS Registration, Integers, FiniteSets

CONSTANTS
    Sessions,   \* logins, and what follows from them
    Refreshes,  \* the requests to refresh that may run at a time
    Tokens      \* uuid4 values, none is made twice; bounds the number of refreshes

ASSUME NothingAssumption == Nothing \notin Accounts \cup Sessions \cup Tokens

VARIABLES
    owner,      \* the user each token names, while its key exists in Redis
    made,       \* history: the session that each token was made for
    given,      \* the tokens that a client got in an answer
    login,      \* the tokens that a login has stored and not committed
    work,       \* what each request to refresh is doing
    forked,     \* history: sessions with two refreshes of one token at a time
    broken      \* history: sessions with a logout, an expiry or a failed request

sessions == <<owner, made, given, login, work, forked, broken>>
vars == <<registration, sessions>>

-----------------------------------------------------------------------------
\* A request to refresh: its next step, the token it was sent and the user it
\* read there, and the token it has stored.
Refresh == [at : {"idle", "revoke", "create", "commit"}, token : Tokens \cup {Nothing},
            user : Accounts \cup {Nothing}, next : Tokens \cup {Nothing}]

Idle == [at |-> "idle", token |-> Nothing, user |-> Nothing, next |-> Nothing]

Verified(t, a) == [at |-> "revoke", token |-> t, user |-> a, next |-> Nothing]

TypeOK ==
    /\ RegistrationTypeOK
    /\ owner \in [Tokens -> Accounts \cup {Nothing}]
    /\ made \in [Tokens -> Sessions \cup {Nothing}]
    /\ given \subseteq Tokens
    /\ login \subseteq Tokens
    /\ work \in [Refreshes -> Refresh]
    /\ forked \subseteq Sessions
    /\ broken \subseteq Sessions

Init ==
    /\ RegistrationInit
    /\ owner = [t \in Tokens |-> Nothing]
    /\ made = [t \in Tokens |-> Nothing]
    /\ given = {}
    /\ login = {}
    /\ work = [x \in Refreshes |-> Idle]
    /\ forked = {} /\ broken = {}

Live == {t \in Tokens : owner[t] # Nothing}
Fresh == {t \in Tokens : made[t] = Nothing}
LiveOf(s) == {t \in Live : made[t] = s}

\* The requests that have verified a token of a session and are not done.
Refreshing(s) == {x \in Refreshes : work[x].at # "idle" /\ made[work[x].token] = s}

\* create_refresh_token: SETEX.
Store(t, a, s) ==
    /\ t \in Fresh
    /\ owner' = [owner EXCEPT ![t] = a]
    /\ made' = [made EXCEPT ![t] = s]

-----------------------------------------------------------------------------
(* POST /auth/login, from the right password on. *)

LoginStore(s, a, t) ==
    /\ a \in users
    /\ \A u \in Tokens : made[u] # s
    /\ Store(t, a, s)
    /\ login' = login \cup {t}
    /\ UNCHANGED <<given, work, forked, broken>>

LoginCommit(t) ==
    /\ t \in login
    /\ given' = given \cup {t}
    /\ login' = login \ {t}
    /\ UNCHANGED <<owner, made, work, forked, broken>>

\* The commit fails: nobody is given the token.
LoginFails(t) ==
    /\ t \in login
    /\ login' = login \ {t}
    /\ broken' = broken \cup {made[t]}
    /\ UNCHANGED <<owner, made, given, work, forked>>

-----------------------------------------------------------------------------
(* POST /auth/refresh *)

\* A second refresh of a token that another request has verified forks its session.
Forks(t) ==
    forked' = IF \E x \in Refreshes : work[x].token = t THEN forked \cup {made[t]} ELSE forked

\* Mutant of Verify: a token that was exchanged before is accepted.
VerifyAny(x, t) ==
    /\ work[x].at = "idle"
    /\ t \in given
    /\ \E a \in users : work' = [work EXCEPT ![x] = Verified(t, a)]
    /\ Forks(t)
    /\ UNCHANGED <<owner, made, given, login, broken>>

\* verify_refresh_token: GET, and the user is there and active, which no code
\* changes.  A client sends what it was given, perhaps twice, or something old.
Verify(x, t) ==
    /\ work[x].at = "idle"
    /\ t \in given \cap Live
    /\ work' = [work EXCEPT ![x] = Verified(t, owner[t])]
    /\ Forks(t)
    /\ UNCHANGED <<owner, made, given, login, broken>>

\* Mutants of Revoke: all tokens of the user are deleted, or none.
RevokeAll(x) ==
    /\ work[x].at = "revoke"
    /\ owner' = [t \in Tokens |-> IF owner[t] = work[x].user THEN Nothing ELSE owner[t]]
    /\ work' = [work EXCEPT ![x].at = "create"]
    /\ UNCHANGED <<made, given, login, forked, broken>>

RevokeNone(x) ==
    /\ work[x].at = "revoke"
    /\ work' = [work EXCEPT ![x].at = "create"]
    /\ UNCHANGED <<owner, made, given, login, forked, broken>>

\* revoke_refresh_token: DEL, whether or not the key still exists.
Revoke(x) ==
    /\ work[x].at = "revoke"
    /\ owner' = [owner EXCEPT ![work[x].token] = Nothing]
    /\ work' = [work EXCEPT ![x].at = "create"]
    /\ UNCHANGED <<made, given, login, forked, broken>>

Create(x, t) ==
    /\ work[x].at = "create"
    /\ Store(t, work[x].user, made[work[x].token])
    /\ work' = [work EXCEPT ![x].at = "commit", ![x].next = t]
    /\ UNCHANGED <<given, login, forked, broken>>

Answer(x) ==
    /\ work[x].at = "commit"
    /\ given' = given \cup {work[x].next}
    /\ work' = [work EXCEPT ![x] = Idle]
    /\ UNCHANGED <<owner, made, login, forked, broken>>

\* Redis, the commit or the connection fails: the exception is not handled, the
\* answer is an error, and what was done to Redis stays.
RefreshFails(x) ==
    /\ work[x].at # "idle"
    /\ work' = [work EXCEPT ![x] = Idle]
    /\ broken' = IF work[x].at = "revoke" THEN broken ELSE broken \cup {made[work[x].token]}
    /\ UNCHANGED <<owner, made, given, login, forked>>

-----------------------------------------------------------------------------
\* POST /auth/logout deletes the token it is sent, and Redis at any time the one
\* that expires.
EndToken(t) ==
    /\ t \in Live
    /\ owner' = [owner EXCEPT ![t] = Nothing]
    /\ broken' = broken \cup {made[t]}
    /\ UNCHANGED <<made, given, login, work, forked>>

-----------------------------------------------------------------------------
Rotate(x) ==
    \/ \E t \in Tokens : Verify(x, t) \/ Create(x, t)
    \/ Revoke(x)
    \/ Answer(x)
    \/ RefreshFails(x)

LogIn(t) ==
    \/ \E s \in Sessions, a \in Accounts : LoginStore(s, a, t)
    \/ LoginCommit(t)
    \/ LoginFails(t)

SessionNext ==
    \/ \E t \in Tokens : LogIn(t) \/ EndToken(t)
    \/ \E x \in Refreshes : Rotate(x)

Next ==
    \/ RegistrationNext /\ UNCHANGED sessions
    \/ SessionNext /\ UNCHANGED registration

Spec == Init /\ [][Next]_vars

-----------------------------------------------------------------------------
\* A session has one live token at most, whatever fails, ends or expires,
\* unless two refreshes of one of its tokens overlapped.
OneLiveToken == \A s \in Sessions \ forked : \A t, u \in LiveOf(s) : t = u

\* Between refreshes the client of a session has a live token, unless the session
\* was broken by a failure, a logout or an expiry of its own, or forked: what
\* happens to other sessions, of the same account perhaps, takes it from nobody.
ClientKeepsToken ==
    \A s \in Sessions \ (forked \cup broken) :
        (\E t \in given : made[t] = s) /\ Refreshing(s) = {}
            => \E t \in given : t \in LiveOf(s)

\* A session without a live token and without a request that has verified one
\* is over: no request, however old what it sends, brings it back.
Over(s) == (\E t \in Tokens : made[t] = s) /\ LiveOf(s) = {} /\ Refreshing(s) = {}

EndedStaysEnded == [][\A s \in Sessions : Over(s) => Over(s)']_vars

=============================================================================
