------------------------- MODULE RefreshTokens_proofs -------------------------
(***************************************************************************)
(* Proofs about Registration and RefreshTokens, for every set of accounts, *)
(* contacts, sessions, requests and tokens.                                *)
(***************************************************************************)
EXTENDS RefreshTokens, TLAPS

(* Registration.  What a request has inserted counts as much as what is committed. *)

Holds(a) == a \in users \/ open[a] = "commit"

AddressesDiffer == \A a, b \in Accounts : a # b /\ Holds(a) /\ Holds(b) => ~SameAddress(a, b)

RInv ==
    /\ RegistrationTypeOK
    /\ \A a \in users : open[a] = "idle"
    /\ AddressesDiffer

LEMMA RegistrationInitInv == RegistrationInit => RInv
  BY DEF RegistrationInit, RInv, RegistrationTypeOK, AddressesDiffer, Holds, Step

LEMMA LookForEmailKeeps ==
  ASSUME RInv, NEW a \in Accounts, NEW f \in Form, LookForEmail(a, f)
  PROVE  RInv'
<1>1. /\ a \notin users /\ open[a] = "idle"
      /\ forms' = [forms EXCEPT ![a] = f]
      /\ open' = [open EXCEPT ![a] = IF f.phone = Nothing THEN "insert" ELSE "phone"]
      /\ UNCHANGED <<users, profiles>>
  BY DEF LookForEmail
<1>2. RegistrationTypeOK'
  BY <1>1 DEF RInv, RegistrationTypeOK, Step
<1>3. \A u \in users' : open'[u] = "idle"
  BY <1>1 DEF RInv, RegistrationTypeOK
<1>4. ASSUME NEW b \in Accounts PROVE Holds(b)' => b # a /\ Holds(b)
  BY <1>1, "commit" # "insert", "commit" # "phone" DEF Holds, RInv, RegistrationTypeOK
<1>5. AddressesDiffer'
  <2> SUFFICES ASSUME NEW b \in Accounts, NEW c \in Accounts, b # c, Holds(b)', Holds(c)'
               PROVE  ~SameAddress(b, c)'
    BY DEF AddressesDiffer
  <2>1. b # a /\ c # a /\ ~SameAddress(b, c)
    BY <1>4 DEF RInv, AddressesDiffer
  <2> QED
    BY <1>1, <2>1 DEF SameAddress, AddressOf, RInv, RegistrationTypeOK
<1> QED
  BY <1>2, <1>3, <1>5 DEF RInv

LEMMA LookForPhoneKeeps ==
  ASSUME RInv, NEW a \in Accounts, LookForPhone(a)
  PROVE  RInv'
<1>1. /\ open[a] = "phone" /\ a \notin users
      /\ \A u \in users : forms[u].phone # forms[a].phone
      /\ open' = [open EXCEPT ![a] = "insert"]
      /\ UNCHANGED <<users, forms, profiles>>
  BY DEF LookForPhone, RInv
<1>2. RegistrationTypeOK'
  BY <1>1 DEF RInv, RegistrationTypeOK, Step
<1>3. \A u \in users' : open'[u] = "idle"
  BY <1>1 DEF RInv, RegistrationTypeOK
<1>4. AddressesDiffer'
  BY <1>1 DEF AddressesDiffer, Holds, SameAddress, RInv, RegistrationTypeOK
<1> QED
  BY <1>2, <1>3, <1>4 DEF RInv

LEMMA InsertKeeps ==
  ASSUME RInv, NEW a \in Accounts, Insert(a)
  PROVE  RInv'
<1>1. /\ open[a] = "insert" /\ a \notin users
      /\ \A b \in Accounts : Holds(b) => ~SameAddress(a, b)
      /\ open' = [open EXCEPT ![a] = "commit"]
      /\ UNCHANGED <<users, forms, profiles>>
  BY DEF Insert, Holds, RInv
<1>2. RegistrationTypeOK'
  BY <1>1 DEF RInv, RegistrationTypeOK, Step
<1>3. \A u \in users' : open'[u] = "idle"
  BY <1>1 DEF RInv, RegistrationTypeOK
<1>4. \A b \in Accounts : Holds(b)' => b = a \/ Holds(b)
  BY <1>1 DEF Holds, RInv, RegistrationTypeOK
<1>5. AddressesDiffer'
  BY <1>1, <1>4 DEF AddressesDiffer, SameAddress, RInv
<1> QED
  BY <1>2, <1>3, <1>5 DEF RInv

LEMMA CommitKeeps ==
  ASSUME RInv, NEW a \in Accounts, Commit(a)
  PROVE  RInv'
<1>1. /\ open[a] = "commit"
      /\ users' = users \cup {a}
      /\ profiles' \in {profiles, profiles \cup {a}}
      /\ open' = [open EXCEPT ![a] = "idle"]
      /\ UNCHANGED forms
  BY DEF Commit
<1>2. RegistrationTypeOK'
  BY <1>1 DEF RInv, RegistrationTypeOK, Step
<1>3. \A u \in users' : open'[u] = "idle"
  BY <1>1 DEF RInv, RegistrationTypeOK
<1>4. \A b \in Accounts : Holds(b)' => Holds(b)
  BY <1>1 DEF Holds, RInv, RegistrationTypeOK
<1>5. AddressesDiffer'
  BY <1>1, <1>4 DEF AddressesDiffer, SameAddress, RInv
<1> QED
  BY <1>2, <1>3, <1>5 DEF RInv

LEMMA RollbackKeeps ==
  ASSUME RInv, NEW a \in Accounts, Rollback(a)
  PROVE  RInv'
<1>1. /\ a \notin users
      /\ open' = [open EXCEPT ![a] = "idle"]
      /\ forms' = [forms EXCEPT ![a] = Blank]
      /\ UNCHANGED <<users, profiles>>
  BY DEF Rollback, RInv
<1>2. RegistrationTypeOK'
  BY <1>1 DEF RInv, RegistrationTypeOK, Step
<1>3. \A u \in users' : open'[u] = "idle"
  BY <1>1 DEF RInv, RegistrationTypeOK
<1>4. \A b \in Accounts : Holds(b)' => b # a /\ Holds(b)
  BY <1>1, "idle" # "commit" DEF Holds, RInv, RegistrationTypeOK
<1>5. AddressesDiffer'
  BY <1>1, <1>4 DEF AddressesDiffer, SameAddress, AddressOf, RInv, RegistrationTypeOK
<1> QED
  BY <1>2, <1>3, <1>5 DEF RInv

LEMMA RegistrationNextInv == RInv /\ [RegistrationNext]_registration => RInv'
<1> SUFFICES ASSUME RInv, [RegistrationNext]_registration PROVE RInv'
  OBVIOUS
<1>1. ASSUME NEW a \in Accounts, CreateAccount(a) PROVE RInv'
  BY <1>1, LookForEmailKeeps, LookForPhoneKeeps, InsertKeeps, CommitKeeps, RollbackKeeps
  DEF CreateAccount
<1>2. CASE UNCHANGED registration
  BY <1>2 DEF registration, RInv, RegistrationTypeOK, AddressesDiffer, Holds, SameAddress
<1> QED
  BY <1>1, <1>2 DEF RegistrationNext

LEMMA OneOfEachNumber == RInv => PhoneOnlyIsUnique
  BY DEF RInv, RegistrationTypeOK, AddressesDiffer, Holds, SameAddress, AddressOf, PhoneOnly,
         PhoneOnlyIsUnique

-----------------------------------------------------------------------------
(* Sessions *)

SessionTypeOK ==
    /\ owner \in [Tokens -> Accounts \cup {Nothing}]
    /\ made \in [Tokens -> Sessions \cup {Nothing}]
    /\ given \subseteq Tokens
    /\ login \subseteq Tokens
    /\ work \in [Refreshes -> Refresh]
    /\ forked \subseteq Sessions
    /\ broken \subseteq Sessions

\* A token that exists, was given or belongs to a login was made for a session,
\* and a login that has not ended has made the only token of its session.
TokensMade ==
    /\ \A t \in Tokens : t \in Live \/ t \in given \/ t \in login => made[t] # Nothing
    /\ given \cap login = {}
    /\ \A t \in login, u \in Tokens : made[u] = made[t] => u = t

\* A request that has verified a token has one that was given, and a user; the
\* token it has stored belongs to the same session.
WorkSound(x) ==
    LET w == work[x] IN
    w.at # "idle" =>
        /\ w.token \in given /\ w.user \in Accounts
        /\ w.at = "commit" =>
               w.next \in Tokens /\ w.next \notin login /\ made[w.next] = made[w.token]

\* The requests that have yet to make the token they exchange another for.
Pending(s) == {x \in Refreshes : work[x].at \in {"revoke", "create"} /\ made[work[x].token] = s}

\* While no two requests refresh one token, there is one live token or one
\* request that has deleted it, and who refreshes refreshes that token.
Single(s) ==
    /\ \A t, u \in LiveOf(s) : t = u
    /\ \A x, y \in Pending(s) : x = y
    /\ \A x \in Pending(s) : work[x].at = "create" => LiveOf(s) = {}
    /\ \A x \in Pending(s) : work[x].at = "revoke" => LiveOf(s) \subseteq {work[x].token}

\* A session in order has a live token that its client has, or that the answer
\* of its login or of a refresh brings, or a request about to make one.
Continued(s) ==
    \/ \E t \in LiveOf(s) : \/ t \in given \cup login
                            \/ \E x \in Refreshes : work[x].at = "commit" /\ work[x].next = t
    \/ \E x \in Pending(s) : work[x].at = "create"

SInv ==
    /\ SessionTypeOK
    /\ TokensMade
    /\ \A x \in Refreshes : WorkSound(x)
    /\ \A s \in Sessions \ forked : Single(s)
    /\ \A s \in Sessions \ broken : (\E t \in Tokens : made[t] = s) => Continued(s)

LEMMA SessionInitInv == Init => SInv
<1> SUFFICES ASSUME Init PROVE SInv
  OBVIOUS
<1>1. SessionTypeOK
  BY DEF Init, SessionTypeOK, Refresh, Idle
<1>2. \A t \in Tokens : owner[t] = Nothing /\ made[t] = Nothing
  BY DEF Init
<1>3. \A x \in Refreshes : work[x].at = "idle"
  BY DEF Init, Idle
<1>4. TokensMade
  BY <1>2 DEF Init, TokensMade, Live
<1>5. \A x \in Refreshes : WorkSound(x)
  BY <1>3 DEF WorkSound
<1>6. \A s \in Sessions : Single(s)
  BY <1>2, <1>3 DEF Single, LiveOf, Live, Pending
<1>7. \A s \in Sessions, t \in Tokens : made[t] # s
  BY <1>2, NothingAssumption
<1> QED
  BY <1>1, <1>4, <1>5, <1>6, <1>7 DEF SInv

LEMMA LoginStoreKeeps ==
  ASSUME SInv, users \subseteq Accounts, NEW s \in Sessions, NEW a \in Accounts, NEW t \in Tokens,
         LoginStore(s, a, t)
  PROVE  SInv'
<1>1. /\ made[t] = Nothing
      /\ \A u \in Tokens : made[u] # s
      /\ owner' = [owner EXCEPT ![t] = a]
      /\ made' = [made EXCEPT ![t] = s]
      /\ login' = login \cup {t}
      /\ UNCHANGED <<given, work, forked, broken>>
  BY DEF LoginStore, Store, Fresh
<1>2. a # Nothing /\ s # Nothing
  BY NothingAssumption
<1>3. t \notin given /\ t \notin login /\ t \notin Live
  BY <1>1 DEF SInv, TokensMade
<1>4. /\ \A u \in Tokens \ {t} : owner'[u] = owner[u] /\ made'[u] = made[u]
      /\ owner'[t] = a /\ made'[t] = s
  BY <1>1 DEF SInv, SessionTypeOK
<1>5. SessionTypeOK'
  BY <1>1 DEF SInv, SessionTypeOK
<1>6. Live' = Live \cup {t}
  BY <1>2, <1>4 DEF Live
<1>7. \A r \in Sessions : LiveOf(r)' = IF r = s THEN {t} ELSE LiveOf(r)
  BY <1>1, <1>3, <1>4, <1>6 DEF LiveOf, Live
<1>8. TokensMade'
  <2>1. \A u \in Tokens : u \in Live' \/ u \in given' \/ u \in login' => made'[u] # Nothing
    BY <1>1, <1>2, <1>4, <1>6 DEF SInv, TokensMade
  <2>2. \A u \in login', v \in Tokens : made'[v] = made'[u] => v = u
    BY <1>1, <1>4 DEF SInv, SessionTypeOK, TokensMade
  <2> QED
    BY <1>1, <1>3, <2>1, <2>2 DEF SInv, TokensMade
<1>9. \A x \in Refreshes : work[x].at # "idle" => work[x].token \in Tokens \ {t}
  BY <1>3 DEF SInv, SessionTypeOK, WorkSound
<1>10. \A x \in Refreshes : WorkSound(x)'
  <2> SUFFICES ASSUME NEW x \in Refreshes, work[x].at # "idle" PROVE WorkSound(x)'
    BY <1>1 DEF WorkSound
  <2>1. WorkSound(x) /\ made'[work[x].token] = made[work[x].token] /\ made[work[x].token] # Nothing
    BY <1>4, <1>9 DEF SInv, TokensMade, WorkSound
  <2>2. work[x].at = "commit" => work[x].next \in Tokens /\ work[x].next # t
    BY <1>1, <2>1 DEF WorkSound
  <2> QED
    BY <1>1, <1>4, <2>1, <2>2 DEF WorkSound
<1>11. \A r \in Sessions : Pending(r)' = Pending(r)
  BY <1>1, <1>4, <1>9 DEF Pending
<1>12. Pending(s) = {}
  BY <1>1, <1>9 DEF Pending
<1>13. \A r \in Sessions \ forked' : Single(r)'
  <2> SUFFICES ASSUME NEW r \in Sessions \ forked PROVE Single(r)'
    BY <1>1
  <2>1. CASE r = s
    BY <1>7, <1>11, <1>12, <2>1 DEF Single
  <2>2. CASE r # s
    BY <1>1, <1>7, <1>11, <2>2 DEF SInv, Single
  <2> QED
    BY <2>1, <2>2
<1>14. ASSUME NEW r \in Sessions \ broken', NEW u \in Tokens, made'[u] = r PROVE Continued(r)'
  <2>1. CASE r = s
    BY <1>1, <1>7, <2>1 DEF Continued
  <2>2. CASE r # s
    <3>1. Continued(r)
      BY <1>1, <1>4, <1>14, <2>2 DEF SInv
    <3> QED
      BY <1>1, <1>7, <1>11, <2>2, <3>1 DEF Continued
  <2> QED
    BY <2>1, <2>2
<1> QED
  BY <1>5, <1>8, <1>10, <1>13, <1>14 DEF SInv

LEMMA LoginCommitKeeps ==
  ASSUME SInv, NEW t \in Tokens, LoginCommit(t)
  PROVE  SInv'
<1>1. /\ t \in login
      /\ given' = given \cup {t}
      /\ login' = login \ {t}
      /\ UNCHANGED <<owner, made, work, forked, broken>>
  BY DEF LoginCommit
<1>2. SessionTypeOK' /\ TokensMade'
  BY <1>1 DEF SInv, SessionTypeOK, TokensMade, Live
<1>3. \A x \in Refreshes : WorkSound(x)'
  BY <1>1 DEF SInv, WorkSound
<1>4. \A s \in Sessions : LiveOf(s)' = LiveOf(s) /\ Pending(s)' = Pending(s)
  BY <1>1 DEF LiveOf, Live, Pending
<1>5. \A s \in Sessions \ forked' : Single(s)'
  BY <1>1, <1>4 DEF SInv, Single
<1>6. \A s \in Sessions : Continued(s) => Continued(s)'
  BY <1>1, <1>4 DEF Continued
<1> QED
  BY <1>1, <1>2, <1>3, <1>5, <1>6 DEF SInv

LEMMA LoginFailsKeeps ==
  ASSUME SInv, NEW t \in Tokens, LoginFails(t)
  PROVE  SInv'
<1>1. /\ t \in login
      /\ login' = login \ {t}
      /\ broken' = broken \cup {made[t]}
      /\ UNCHANGED <<owner, made, given, work, forked>>
  BY DEF LoginFails
<1>2. SessionTypeOK' /\ TokensMade'
  BY <1>1 DEF SInv, SessionTypeOK, TokensMade, Live
<1>3. \A x \in Refreshes : WorkSound(x)'
  BY <1>1 DEF SInv, WorkSound
<1>4. \A s \in Sessions : LiveOf(s)' = LiveOf(s) /\ Pending(s)' = Pending(s)
  BY <1>1 DEF LiveOf, Live, Pending
<1>5. \A s \in Sessions \ forked' : Single(s)'
  BY <1>1, <1>4 DEF SInv, Single
<1>6. \A s \in Sessions \ {made[t]} : t \notin LiveOf(s)
  BY DEF LiveOf
<1>7. \A s \in Sessions \ broken' : Continued(s) => Continued(s)'
  BY <1>1, <1>4, <1>6 DEF Continued
<1> QED
  BY <1>1, <1>2, <1>3, <1>5, <1>7 DEF SInv

LEMMA VerifyKeeps ==
  ASSUME SInv, NEW x \in Refreshes, NEW t \in Tokens, Verify(x, t)
  PROVE  SInv'
<1>1. /\ work[x].at = "idle"
      /\ t \in given /\ t \in Live
      /\ work' = [work EXCEPT ![x] = Verified(t, owner[t])]
      /\ Forks(t)
      /\ UNCHANGED <<owner, made, given, login, broken>>
  BY DEF Verify
<1>2. owner[t] \in Accounts /\ made[t] \in Sessions
  BY <1>1 DEF Live, SInv, SessionTypeOK, TokensMade
<1>3. /\ \A y \in Refreshes \ {x} : work'[y] = work[y]
      /\ work'[x].at = "revoke" /\ work'[x].token = t /\ work'[x].user = owner[t]
      /\ Verified(t, owner[t]) \in Refresh
  BY <1>1, <1>2 DEF Verified, Refresh, SInv, SessionTypeOK
<1>4. forked' \in {forked, forked \cup {made[t]}}
  BY <1>1 DEF Forks
<1>5. SessionTypeOK' /\ TokensMade'
  BY <1>1, <1>2, <1>3, <1>4 DEF SInv, SessionTypeOK, TokensMade, Live
<1>6. \A y \in Refreshes : WorkSound(y)'
  <2> SUFFICES ASSUME NEW y \in Refreshes PROVE WorkSound(y)'
    OBVIOUS
  <2>1. CASE y = x
    BY <1>1, <1>2, <1>3, <2>1 DEF WorkSound
  <2>2. CASE y # x
    BY <1>1, <1>3, <2>2 DEF SInv, WorkSound
  <2> QED
    BY <2>1, <2>2
<1>7. /\ \A s \in Sessions : LiveOf(s)' = LiveOf(s)
      /\ \A s \in Sessions \ {made[t]} : Pending(s)' = Pending(s)
      /\ \A s \in Sessions : Pending(s) \subseteq Pending(s)' /\ x \notin Pending(s)
      /\ \A s \in Sessions : s = made[t] => Pending(s)' = Pending(s) \cup {x}
      /\ \A s \in Sessions : \A y \in Pending(s) : work'[y] = work[y]
  BY <1>1, <1>2, <1>3 DEF LiveOf, Live, Pending
<1>8. \A s \in Sessions \ forked' : Single(s)'
  <2> SUFFICES ASSUME NEW s \in Sessions \ forked' PROVE Single(s)'
    OBVIOUS
  <2>1. Single(s)
    BY <1>4 DEF SInv
  <2>2. CASE s # made[t]
    BY <1>7, <2>1, <2>2 DEF Single
  <2>3. CASE s = made[t]
    <3>1. \A y \in Refreshes : work[y].token # t
      BY <1>1, <2>3 DEF Forks
    <3>2. t \in LiveOf(s)
      BY <1>1, <2>3 DEF LiveOf
    <3>3. Pending(s) = {}
      BY <2>1, <3>1, <3>2 DEF Single, Pending
    <3>4. Pending(s)' = {x} /\ LiveOf(s)' = {t}
      BY <1>7, <2>1, <2>3, <3>2, <3>3 DEF Single
    <3> QED
      BY <1>3, <3>4 DEF Single
  <2> QED
    BY <2>2, <2>3
<1>9. \A s \in Sessions : Continued(s) => Continued(s)'
  BY <1>1, <1>3, <1>7 DEF Continued
<1> QED
  BY <1>1, <1>5, <1>6, <1>8, <1>9 DEF SInv

LEMMA RevokeKeeps ==
  ASSUME SInv, NEW x \in Refreshes, Revoke(x)
  PROVE  SInv'
<1> DEFINE t == work[x].token
           r == [work[x] EXCEPT !.at = "create"]
<1>0. work[x] \in Refresh /\ work[x].at = "revoke"
  BY DEF Revoke, SInv, SessionTypeOK
<1>1. /\ owner' = [owner EXCEPT ![t] = Nothing]
      /\ work' = [work EXCEPT ![x] = r]
      /\ UNCHANGED <<made, given, login, forked, broken>>
  BY DEF Revoke, SInv, SessionTypeOK
<1>2. t \in given /\ t \in Tokens /\ made[t] \in Sessions
  BY <1>0 DEF SInv, SessionTypeOK, WorkSound, TokensMade
<1>3. /\ r \in Refresh /\ r.at = "create" /\ r.token = t
      /\ r.user = work[x].user /\ r.next = work[x].next
  BY <1>0 DEF Refresh
<1> HIDE DEF r
<1>4. \A y \in Refreshes : work'[y] = IF y = x THEN r ELSE work[y]
  BY <1>1 DEF SInv, SessionTypeOK
<1>5. Live' = Live \ {t}
  BY <1>1, <1>2 DEF Live, SInv, SessionTypeOK
<1>6. SessionTypeOK' /\ TokensMade'
  BY <1>1, <1>3, <1>5 DEF SInv, SessionTypeOK, TokensMade
<1>7. \A y \in Refreshes : WorkSound(y)'
  BY <1>0, <1>1, <1>3, <1>4 DEF SInv, WorkSound
<1>8. \A s \in Sessions : LiveOf(s)' = LiveOf(s) \ {t} /\ Pending(s)' = Pending(s)
  BY <1>0, <1>1, <1>3, <1>4, <1>5 DEF LiveOf, Pending
<1>9. \A s \in Sessions \ forked' : Single(s)'
  <2> SUFFICES ASSUME NEW s \in Sessions \ forked PROVE Single(s)'
    BY <1>1
  <2>1. Single(s)
    BY DEF SInv
  <2>2. CASE x \in Pending(s)
    <3>1. Pending(s)' = {x}
      BY <1>8, <2>1, <2>2 DEF Single
    <3>2. LiveOf(s)' = {}
      BY <1>0, <1>8, <2>1, <2>2 DEF Single
    <3> QED
      BY <1>3, <1>4, <3>1, <3>2 DEF Single
  <2>3. CASE x \notin Pending(s)
    <3>1. \A y \in Pending(s)' : y \in Pending(s) /\ work'[y] = work[y]
      BY <1>4, <1>8, <2>3 DEF Pending
    <3> QED
      BY <1>8, <2>1, <3>1 DEF Single
  <2> QED
    BY <2>2, <2>3
<1>10. ASSUME NEW s \in Sessions, Continued(s) PROVE Continued(s)'
  <2>1. CASE s = made[t]
    <3>1. x \in Pending(s)' /\ work'[x].at = "create"
      BY <1>0, <1>3, <1>4, <1>8, <2>1 DEF Pending
    <3> QED
      BY <3>1 DEF Continued
  <2>2. CASE s # made[t]
    <3>1. LiveOf(s)' = LiveOf(s)
      BY <1>8, <2>2 DEF LiveOf
    <3>2. \A y \in Refreshes : work[y].at \in {"commit", "create"} => work'[y] = work[y]
      BY <1>0, <1>4
    <3> QED
      BY <1>1, <1>8, <1>10, <3>1, <3>2 DEF Continued, Pending
  <2> QED
    BY <2>1, <2>2
<1> QED
  BY <1>1, <1>6, <1>7, <1>9, <1>10 DEF SInv

LEMMA CreateKeeps ==
  ASSUME SInv, NEW x \in Refreshes, NEW t \in Tokens, Create(x, t)
  PROVE  SInv'
<1> DEFINE s == made[work[x].token]
           r == [work[x] EXCEPT !.at = "commit", !.next = t]
<1>0. work[x] \in Refresh /\ work[x].at = "create"
  BY DEF Create, SInv, SessionTypeOK
<1>1. /\ made[t] = Nothing
      /\ owner' = [owner EXCEPT ![t] = work[x].user]
      /\ made' = [made EXCEPT ![t] = s]
      /\ work' = [work EXCEPT ![x] = r]
      /\ UNCHANGED <<given, login, forked, broken>>
  BY DEF Create, Store, Fresh, SInv, SessionTypeOK
<1>2. /\ work[x].token \in given /\ work[x].token \in Tokens
      /\ work[x].user \in Accounts /\ work[x].user # Nothing
      /\ s \in Sessions /\ s # Nothing
  BY <1>0, NothingAssumption DEF SInv, SessionTypeOK, WorkSound, TokensMade
<1>3. /\ r \in Refresh /\ r.at = "commit" /\ r.next = t
      /\ r.token = work[x].token /\ r.user = work[x].user
  BY <1>0 DEF Refresh
<1> HIDE DEF r
<1>4. /\ \A y \in Refreshes : work'[y] = IF y = x THEN r ELSE work[y]
      /\ \A u \in Tokens \ {t} : owner'[u] = owner[u] /\ made'[u] = made[u]
      /\ owner'[t] = work[x].user /\ made'[t] = s
  BY <1>1 DEF SInv, SessionTypeOK
<1>5. t \notin given /\ t \notin login /\ t \notin Live
  BY <1>1 DEF SInv, TokensMade
<1>6. Live' = Live \cup {t}
  BY <1>2, <1>4 DEF Live
<1>7. SessionTypeOK'
  BY <1>1, <1>2, <1>3 DEF SInv, SessionTypeOK
<1>8. TokensMade'
  <2>1. \A u \in Tokens : u \in Live' \/ u \in given' \/ u \in login' => made'[u] # Nothing
    BY <1>1, <1>2, <1>4, <1>6 DEF SInv, TokensMade
  <2>2. \A u \in login : u \in Tokens /\ u # work[x].token /\ made[u] # s
    BY <1>2 DEF SInv, SessionTypeOK, TokensMade
  <2>3. \A u \in login', v \in Tokens : made'[v] = made'[u] => v = u
    BY <1>1, <1>4, <1>5, <2>2 DEF SInv, SessionTypeOK, TokensMade
  <2> QED
    BY <1>1, <2>1, <2>3 DEF SInv, TokensMade
<1>9. \A y \in Refreshes : work[y].at # "idle" =>
          work[y].token \in Tokens \ {t} /\ work'[y].token = work[y].token
  BY <1>3, <1>4, <1>5 DEF SInv, SessionTypeOK, WorkSound
<1>10. \A y \in Refreshes : WorkSound(y)'
  <2> SUFFICES ASSUME NEW y \in Refreshes PROVE WorkSound(y)'
    OBVIOUS
  <2>1. CASE y = x
    BY <1>1, <1>2, <1>3, <1>4, <1>5, <1>9, <2>1 DEF WorkSound
  <2>2. CASE y # x /\ work[y].at # "idle"
    <3>1. WorkSound(y) /\ made[work[y].token] # Nothing /\ made'[work[y].token] = made[work[y].token]
      BY <1>4, <1>9, <2>2 DEF SInv, WorkSound, TokensMade
    <3>2. work[y].at = "commit" => work[y].next \in Tokens \ {t}
      BY <1>1, <2>2, <3>1 DEF WorkSound
    <3> QED
      BY <1>1, <1>4, <2>2, <3>1, <3>2 DEF WorkSound
  <2>3. CASE y # x /\ work[y].at = "idle"
    BY <1>4, <2>3 DEF WorkSound
  <2> QED
    BY <2>1, <2>2, <2>3
<1>11. \A q \in Sessions : /\ LiveOf(q)' = IF q = s THEN LiveOf(q) \cup {t} ELSE LiveOf(q)
                           /\ Pending(q)' = Pending(q) \ {x}
  <2> SUFFICES ASSUME NEW q \in Sessions
               PROVE  /\ LiveOf(q)' = IF q = s THEN LiveOf(q) \cup {t} ELSE LiveOf(q)
                      /\ Pending(q)' = Pending(q) \ {x}
    OBVIOUS
  <2>1. LiveOf(q)' = IF q = s THEN LiveOf(q) \cup {t} ELSE LiveOf(q)
    BY <1>4, <1>5, <1>6 DEF LiveOf, Live
  <2>2. Pending(q)' = Pending(q) \ {x}
    BY <1>3, <1>4, <1>9 DEF Pending
  <2> QED
    BY <2>1, <2>2
<1>12. x \in Pending(s)
  BY <1>0 DEF Pending
<1>13. \A q \in Sessions \ forked' : Single(q)'
  <2> SUFFICES ASSUME NEW q \in Sessions \ forked PROVE Single(q)'
    BY <1>1
  <2>1. Single(q)
    BY DEF SInv
  <2>2. CASE q = s
    <3>1. Pending(q)' = {} /\ LiveOf(q)' = {t}
      BY <1>0, <1>11, <1>12, <2>1, <2>2 DEF Single
    <3> QED
      BY <3>1 DEF Single
  <2>3. CASE q # s
    <3>1. LiveOf(q)' = LiveOf(q)
      BY <1>11, <2>3
    <3>2. \A y \in Pending(q)' : y \in Pending(q) /\ work'[y] = work[y]
      BY <1>4, <1>11 DEF Pending
    <3> QED
      BY <2>1, <3>1, <3>2 DEF Single
  <2> QED
    BY <2>2, <2>3
<1>14. ASSUME NEW q \in Sessions \ broken', NEW u \in Tokens, made'[u] = q PROVE Continued(q)'
  <2>1. CASE q = s
    <3>1. t \in LiveOf(q)' /\ work'[x].at = "commit" /\ work'[x].next = t
      BY <1>3, <1>4, <1>11, <2>1
    <3> QED
      BY <3>1 DEF Continued
  <2>2. CASE q # s
    <3>1. Continued(q) /\ LiveOf(q)' = LiveOf(q)
      BY <1>1, <1>4, <1>11, <1>14, <2>2 DEF SInv
    <3>2. Pending(q)' = Pending(q)
      BY <1>11, <2>2 DEF Pending
    <3>3. \A y \in Refreshes : y # x => work'[y] = work[y]
      BY <1>4
    <3>4. x \notin Pending(q) /\ work[x].at # "commit"
      BY <1>0, <2>2 DEF Pending
    <3> QED
      BY <1>1, <3>1, <3>2, <3>3, <3>4 DEF Continued
  <2> QED
    BY <2>1, <2>2
<1> QED
  BY <1>7, <1>8, <1>10, <1>13, <1>14 DEF SInv

LEMMA AnswerKeeps ==
  ASSUME SInv, NEW x \in Refreshes, Answer(x)
  PROVE  SInv'
<1> DEFINE t == work[x].next
<1>1. /\ work[x].at = "commit"
      /\ given' = given \cup {t}
      /\ work' = [work EXCEPT ![x] = Idle]
      /\ UNCHANGED <<owner, made, login, forked, broken>>
  BY DEF Answer
<1>2. /\ t \in Tokens /\ t \notin login /\ made[t] # Nothing
  BY <1>1 DEF SInv, WorkSound, SessionTypeOK, TokensMade
<1>3. /\ Idle \in Refresh /\ Idle.at = "idle"
      /\ \A y \in Refreshes : work'[y] = IF y = x THEN Idle ELSE work[y]
  BY <1>1 DEF Idle, Refresh, SInv, SessionTypeOK
<1>4. SessionTypeOK'
  BY <1>1, <1>2, <1>3 DEF SInv, SessionTypeOK
<1>5. TokensMade'
  BY <1>1, <1>2 DEF SInv, TokensMade, Live
<1>6. \A y \in Refreshes : WorkSound(y)'
  BY <1>1, <1>3 DEF SInv, WorkSound
<1>7. \A s \in Sessions : LiveOf(s)' = LiveOf(s) /\ Pending(s)' = Pending(s)
  BY <1>1, <1>3 DEF LiveOf, Live, Pending
<1>8. \A s \in Sessions : \A y \in Pending(s) : work'[y] = work[y]
  BY <1>1, <1>3 DEF Pending
<1>9. \A s \in Sessions \ forked' : Single(s)'
  BY <1>1, <1>7, <1>8 DEF SInv, Single
<1>10. \A s \in Sessions : Continued(s) => Continued(s)'
  BY <1>1, <1>3, <1>7, <1>8 DEF Continued
<1> QED
  BY <1>1, <1>4, <1>5, <1>6, <1>9, <1>10 DEF SInv

LEMMA RefreshFailsKeeps ==
  ASSUME SInv, NEW x \in Refreshes, RefreshFails(x)
  PROVE  SInv'
<1> DEFINE q == made[work[x].token]
<1>1. /\ work[x].at # "idle"
      /\ work' = [work EXCEPT ![x] = Idle]
      /\ broken' = IF work[x].at = "revoke" THEN broken ELSE broken \cup {q}
      /\ UNCHANGED <<owner, made, given, login, forked>>
  BY DEF RefreshFails
<1>2. q \in Sessions
  BY <1>1 DEF SInv, WorkSound, SessionTypeOK, TokensMade
<1>3. /\ Idle \in Refresh /\ Idle.at = "idle"
      /\ \A y \in Refreshes : work'[y] = IF y = x THEN Idle ELSE work[y]
  BY <1>1 DEF Idle, Refresh, SInv, SessionTypeOK
<1>4. SessionTypeOK' /\ TokensMade'
  BY <1>1, <1>2, <1>3 DEF SInv, SessionTypeOK, TokensMade, Live
<1>5. \A y \in Refreshes : WorkSound(y)'
  BY <1>1, <1>3 DEF SInv, WorkSound
<1>6. \A s \in Sessions : LiveOf(s)' = LiveOf(s) /\ Pending(s)' = Pending(s) \ {x}
  BY <1>1, <1>3 DEF LiveOf, Live, Pending
<1>7. \A s \in Sessions : \A y \in Pending(s) \ {x} : work'[y] = work[y]
  BY <1>3 DEF Pending
<1>8. \A s \in Sessions \ forked' : Single(s)'
  BY <1>1, <1>6, <1>7 DEF SInv, Single
<1>9. ASSUME NEW s \in Sessions \ broken', Continued(s) PROVE Continued(s)'
  <2>1. CASE work[x].at = "revoke"
    BY <1>1, <1>3, <1>6, <1>7, <1>9, <2>1 DEF Continued
  <2>2. CASE work[x].at # "revoke"
    <3>1. s # q /\ x \notin Pending(s)
      BY <1>1, <2>2 DEF Pending
    <3>2. work[x].at = "commit" => work[x].next \notin LiveOf(s)
      BY <3>1 DEF LiveOf, SInv, WorkSound
    <3> QED
      BY <1>1, <1>3, <1>6, <1>7, <1>9, <3>1, <3>2 DEF Continued
  <2> QED
    BY <2>1, <2>2
<1> QED
  BY <1>1, <1>4, <1>5, <1>8, <1>9 DEF SInv

LEMMA EndTokenKeeps ==
  ASSUME SInv, NEW t \in Tokens, EndToken(t)
  PROVE  SInv'
<1>1. /\ t \in Live
      /\ owner' = [owner EXCEPT ![t] = Nothing]
      /\ broken' = broken \cup {made[t]}
      /\ UNCHANGED <<made, given, login, work, forked>>
  BY DEF EndToken
<1>2. made[t] \in Sessions /\ Live' = Live \ {t}
  BY <1>1 DEF SInv, SessionTypeOK, TokensMade, Live
<1>3. SessionTypeOK' /\ TokensMade'
  BY <1>1, <1>2 DEF SInv, SessionTypeOK, TokensMade
<1>4. \A x \in Refreshes : WorkSound(x)'
  BY <1>1 DEF SInv, WorkSound
<1>5. \A s \in Sessions : LiveOf(s)' = LiveOf(s) \ {t} /\ Pending(s)' = Pending(s)
  BY <1>1, <1>2 DEF LiveOf, Pending
<1>6. \A s \in Sessions \ forked' : Single(s)'
  BY <1>1, <1>5 DEF SInv, Single
<1>7. \A s \in Sessions \ broken' : LiveOf(s)' = LiveOf(s)
  BY <1>1, <1>5 DEF LiveOf
<1>8. \A s \in Sessions \ broken' : Continued(s) => Continued(s)'
  BY <1>1, <1>5, <1>7 DEF Continued
<1> QED
  BY <1>1, <1>3, <1>4, <1>6, <1>8 DEF SInv

-----------------------------------------------------------------------------
(* Registration and sessions together *)

IInv == RInv /\ SInv

LEMMA SessionsStutter == SInv /\ UNCHANGED sessions => SInv'
<1> SUFFICES ASSUME SInv, UNCHANGED sessions PROVE SInv'
  OBVIOUS
<1>1. UNCHANGED <<owner, made, given, login, work, forked, broken>>
  BY DEF sessions
<1>2. SessionTypeOK' /\ TokensMade' /\ \A x \in Refreshes : WorkSound(x)'
  BY <1>1 DEF SInv, SessionTypeOK, TokensMade, Live, WorkSound
<1>3. \A s \in Sessions : LiveOf(s)' = LiveOf(s) /\ Pending(s)' = Pending(s)
  BY <1>1 DEF LiveOf, Live, Pending
<1>4. \A s \in Sessions : (Single(s) => Single(s)') /\ (Continued(s) => Continued(s)')
  BY <1>1, <1>3 DEF Single, Continued
<1> QED
  BY <1>1, <1>2, <1>4 DEF SInv

LEMMA SessionNextInv == ASSUME RInv, SInv, SessionNext PROVE SInv'
<1>1. users \subseteq Accounts
  BY DEF RInv, RegistrationTypeOK
<1>2. ASSUME NEW t \in Tokens, LogIn(t) \/ EndToken(t) PROVE SInv'
  BY <1>1, <1>2, LoginStoreKeeps, LoginCommitKeeps, LoginFailsKeeps, EndTokenKeeps DEF LogIn
<1>3. ASSUME NEW x \in Refreshes, Rotate(x) PROVE SInv'
  BY <1>3, VerifyKeeps, CreateKeeps, RevokeKeeps, AnswerKeeps, RefreshFailsKeeps DEF Rotate
<1> QED
  BY <1>2, <1>3 DEF SessionNext

LEMMA InitInv == Init => IInv
  BY RegistrationInitInv, SessionInitInv DEF Init, IInv

LEMMA NextInv == IInv /\ [Next]_vars => IInv'
<1> SUFFICES ASSUME IInv, [Next]_vars PROVE IInv'
  OBVIOUS
<1>1. CASE RegistrationNext /\ UNCHANGED sessions
  BY <1>1, RegistrationNextInv, SessionsStutter DEF IInv
<1>2. CASE SessionNext /\ UNCHANGED registration
  BY <1>2, RegistrationNextInv, SessionNextInv DEF IInv
<1>3. CASE UNCHANGED vars
  BY <1>3, RegistrationNextInv, SessionsStutter DEF IInv, vars
<1> QED
  BY <1>1, <1>2, <1>3 DEF Next

\* The invariant of accounts and sessions holds in every state.
THEOREM Invariance == Spec => []IInv
  BY InitInv, NextInv, PTL DEF Spec

\* The variables of accounts and sessions keep their types.
THEOREM TypeCorrect == Spec => []TypeOK
<1>1. IInv => TypeOK
  BY DEF IInv, RInv, SInv, SessionTypeOK, TypeOK
<1> QED
  BY <1>1, Invariance, PTL

\* The unique index on users.email keeps phone-only accounts apart as well.
THEOREM NumbersIdentify == Spec => []PhoneOnlyIsUnique
<1>1. IInv => PhoneOnlyIsUnique
  BY OneOfEachNumber DEF IInv
<1> QED
  BY <1>1, Invariance, PTL

\* Rotation keeps one live token in a session whose refreshes do not overlap
\* on a token, whatever else fails or ends.
THEOREM RotationKeepsOne == Spec => []OneLiveToken
<1>1. IInv => OneLiveToken
  BY DEF IInv, SInv, Single, OneLiveToken
<1> QED
  BY <1>1, Invariance, PTL

\* A client loses its session only by a failure, a logout or an expiry of its own.
THEOREM TokensAreKept == Spec => []ClientKeepsToken
<1>1. IInv => ClientKeepsToken
  <2> SUFFICES ASSUME IInv, NEW s \in Sessions \ (forked \cup broken), NEW t \in given,
                      made[t] = s, Refreshing(s) = {}
               PROVE  \E u \in given : u \in LiveOf(s)
    BY DEF ClientKeepsToken
  <2>1. t \in Tokens /\ s # Nothing /\ Continued(s)
    BY NothingAssumption DEF IInv, SInv, SessionTypeOK
  <2>2. Pending(s) = {}
    BY DEF Pending, Refreshing
  <2>3. PICK u \in LiveOf(s) : \/ u \in given \cup login
                               \/ \E x \in Refreshes : work[x].at = "commit" /\ work[x].next = u
    BY <2>1, <2>2 DEF Continued
  <2>4. u \in Tokens /\ made[u] = s
    BY DEF LiveOf, Live
  <2>5. \A x \in Refreshes : work[x].at = "commit" => work[x].next # u
    BY <2>4 DEF Refreshing, IInv, SInv, WorkSound
  <2>6. u \notin login
    BY <2>1, <2>4 DEF IInv, SInv, TokensMade
  <2> QED
    BY <2>3, <2>5, <2>6
<1> QED
  BY <1>1, Invariance, PTL

\* Nothing makes a token of a session that is over.
LEMMA OverStays ==
  ASSUME IInv, Next, NEW s \in Sessions, Over(s)
  PROVE  Over(s)'
<1>1. PICK t \in Tokens : made[t] = s
  BY DEF Over
<1>2. /\ s # Nothing /\ LiveOf(s) = {} /\ Refreshing(s) = {}
      /\ \A x \in Refreshes : work[x].at # "idle" => made[work[x].token] # s
  BY NothingAssumption DEF Over, Refreshing
<1>3. SessionTypeOK /\ \A x \in Refreshes : WorkSound(x)
  BY DEF IInv, SInv
<1>4. CASE UNCHANGED sessions
  BY <1>1, <1>2, <1>4 DEF sessions, Over, LiveOf, Live, Refreshing
<1>5. ASSUME NEW u \in Tokens, NEW r \in Sessions, NEW a \in Accounts, LoginStore(r, a, u)
      PROVE  Over(s)'
  <2>1. /\ made[u] = Nothing /\ r # s
        /\ owner' = [owner EXCEPT ![u] = a] /\ made' = [made EXCEPT ![u] = r]
        /\ work' = work
    BY <1>1, <1>5 DEF LoginStore, Store, Fresh
  <2>2. \A v \in Tokens \ {u} : owner'[v] = owner[v] /\ made'[v] = made[v]
    BY <1>3, <2>1 DEF SessionTypeOK
  <2>3. made'[u] = r /\ made'[t] = s
    BY <1>1, <1>2, <1>3, <2>1 DEF SessionTypeOK
  <2>4. LiveOf(s)' = {}
    BY <1>2, <2>1, <2>2, <2>3 DEF LiveOf, Live
  <2>5. Refreshing(s)' = {}
    BY <1>2, <1>3, <2>1, <2>2, <2>3 DEF Refreshing, SessionTypeOK, WorkSound
  <2> QED
    BY <2>3, <2>4, <2>5 DEF Over
<1>6. ASSUME NEW u \in Tokens, LoginCommit(u) \/ LoginFails(u) PROVE Over(s)'
  BY <1>1, <1>2, <1>6 DEF LoginCommit, LoginFails, Over, LiveOf, Live, Refreshing
<1>7. ASSUME NEW u \in Tokens, EndToken(u) PROVE Over(s)'
  <2>1. \A v \in Tokens : owner[v] = Nothing => owner'[v] = Nothing
    BY <1>3, <1>7 DEF EndToken, SessionTypeOK
  <2> QED
    BY <1>1, <1>2, <1>7, <2>1 DEF EndToken, Over, LiveOf, Live, Refreshing
<1>8. ASSUME NEW x \in Refreshes, NEW u \in Tokens, Verify(x, u) PROVE Over(s)'
  <2>1. /\ made[u] # s /\ UNCHANGED <<owner, made>>
        /\ \A y \in Refreshes : work'[y] = IF y = x THEN Verified(u, owner[u]) ELSE work[y]
    BY <1>2, <1>3, <1>8 DEF Verify, LiveOf, SessionTypeOK
  <2>2. Verified(u, owner[u]).token = u
    BY DEF Verified
  <2>3. Refreshing(s)' = {}
    BY <1>2, <2>1, <2>2 DEF Refreshing
  <2> QED
    BY <1>1, <1>2, <2>1, <2>3 DEF Over, LiveOf, Live
<1>9. ASSUME NEW x \in Refreshes, Revoke(x) \/ Answer(x) \/ RefreshFails(x) PROVE Over(s)'
  <2>1. /\ \A y \in Refreshes \ {x} : work'[y] = work[y]
        /\ work'[x].at # "idle" => work'[x].token = work[x].token /\ work[x].at # "idle"
        /\ made' = made
        /\ \A v \in Tokens : owner[v] = Nothing => owner'[v] = Nothing
    <3>1. work[x] \in Refresh
      BY <1>3 DEF SessionTypeOK
    <3>2. CASE Revoke(x)
      BY <1>3, <3>1, <3>2 DEF Revoke, SessionTypeOK, Refresh
    <3>3. CASE Answer(x) \/ RefreshFails(x)
      BY <1>3, <3>1, <3>3 DEF Answer, RefreshFails, SessionTypeOK, Refresh, Idle
    <3> QED
      BY <1>9, <3>2, <3>3
  <2>2. Refreshing(s)' = {}
    BY <1>2, <2>1 DEF Refreshing
  <2>3. LiveOf(s)' = {}
    BY <1>2, <2>1 DEF LiveOf, Live
  <2> QED
    BY <1>1, <2>1, <2>2, <2>3 DEF Over
<1>10. ASSUME NEW x \in Refreshes, NEW u \in Tokens, Create(x, u) PROVE Over(s)'
  <2>1. /\ made[u] = Nothing /\ made[work[x].token] # s /\ work[x].at = "create"
        /\ work[x] \in Refresh
        /\ made' = [made EXCEPT ![u] = made[work[x].token]]
        /\ owner' = [owner EXCEPT ![u] = work[x].user]
        /\ work' = [work EXCEPT ![x].at = "commit", ![x].next = u]
    BY <1>2, <1>3, <1>10 DEF Create, Store, Fresh, SessionTypeOK
  <2>2. /\ \A y \in Refreshes \ {x} : work'[y] = work[y]
        /\ work'[x].token = work[x].token
    BY <1>3, <2>1 DEF SessionTypeOK, Refresh
  <2>3. /\ \A v \in Tokens \ {u} : owner'[v] = owner[v] /\ made'[v] = made[v]
        /\ made'[u] # s /\ made'[t] = s
    BY <1>1, <1>2, <1>3, <2>1 DEF SessionTypeOK
  <2>4. LiveOf(s)' = {}
    BY <1>2, <2>3 DEF LiveOf, Live
  <2>5. \A y \in Refreshes : work[y].at # "idle" => work[y].token \in Tokens
    BY <1>3 DEF SessionTypeOK, WorkSound
  <2>6. \A v \in Tokens : made[v] # s => made'[v] # s
    BY <2>3
  <2>7. \A y \in Refreshes : work'[y].at # "idle" =>
            work'[y].token \in Tokens /\ made[work'[y].token] # s
    <3>1. \A y \in Refreshes \ {x} : work'[y].at # "idle" =>
              work'[y].token \in Tokens /\ made[work'[y].token] # s
      BY <1>2, <2>2, <2>5
    <3>2. work[x].at # "idle"
      BY <2>1
    <3>3. work'[x].token \in Tokens /\ made[work'[x].token] # s
      BY <2>1, <2>2, <2>5, <3>2
    <3> QED
      BY <3>1, <3>3
  <2>8. Refreshing(s)' = {}
    BY <2>6, <2>7 DEF Refreshing
  <2> QED
    BY <2>3, <2>4, <2>8 DEF Over
<1> QED
  BY <1>4, <1>5, <1>6, <1>7, <1>8, <1>9, <1>10 DEF Next, SessionNext, LogIn, Rotate

\* A session that is over stays over: what was exchanged, revoked by a logout or
\* has expired is of no use, and no request in flight brings it back.
THEOREM OverForGood == Spec => EndedStaysEnded
<1>1. IInv /\ [Next]_vars => [\A s \in Sessions : Over(s) => Over(s)']_vars
  BY OverStays
<1> QED
  BY <1>1, Invariance, PTL DEF Spec, EndedStaysEnded

=============================================================================
