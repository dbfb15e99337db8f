----------------------------- MODULE Registration -----------------------------
(***************************************************************************)
(* The creation of user accounts: POST /auth/register and POST             *)
(* /admin/users.  Both look for the email address and then for the phone   *)
(* number among the committed accounts, hash the password, insert and      *)
(* commit.  The table has a unique index on the address and none on the    *)
(* number.  An account made by the second route may have a number only: it *)
(* gets an address made of the number, and perhaps a volunteer profile.    *)
(*                                                                         *)
(* A request that is refused changes nothing and is left out, as is one    *)
(* whose role or organization the caller must not create.                  *)
(***************************************************************************)
CONSTANTS
    Accounts,   \* accounts, and the requests that create them
    Emails,     \* addresses people have, lower case
    Phones,     \* normalized numbers
    Nothing     \* no value

ASSUME ContactsAssumption == Emails \cap Phones = {} /\ Nothing \notin Emails \cup Phones

VARIABLES
    users,      \* the accounts that are committed
    forms,      \* what each account was, or is to be, created from
    profiles,   \* the accounts that have a row in volunteers
    open        \* where the request of each account is

registration == <<users, forms, profiles, open>>

-----------------------------------------------------------------------------
\* RegisterRequest and AdminUserCreate: volunteer stands for the role and for
\* the wish for a profile.
Form == {f \in [admin : BOOLEAN, email : Emails \cup {Nothing},
                phone : Phones \cup {Nothing}, volunteer : BOOLEAN] :
            IF f.admin THEN f.email # Nothing \/ f.phone # Nothing ELSE f.email # Nothing}

Blank == [admin |-> FALSE, email |-> Nothing, phone |-> Nothing, volunteer |-> FALSE]

\* Between the steps of a request: it has looked for nothing, for the address,
\* for the number as well, or has inserted the row.
Step == {"idle", "phone", "insert", "commit"}

RegistrationTypeOK ==
    /\ users \subseteq Accounts
    /\ forms \in [Accounts -> Form \cup {Blank}]
    /\ profiles \subseteq Accounts
    /\ open \in [Accounts -> Step]

RegistrationInit ==
    /\ users = {}
    /\ forms = [a \in Accounts |-> Blank]
    /\ profiles = {}
    /\ open = [a \in Accounts |-> "idle"]

\* users.email: without an address it is phone_<digits>@phone.hopeaid.local,
\* which nobody has, and which tells the numbers apart.
AddressOf(f) == IF f.email = Nothing THEN f.phone ELSE f.email

PhoneOnly(a) == forms[a].email = Nothing

SameAddress(a, b) == AddressOf(forms[a]) = AddressOf(forms[b])

-----------------------------------------------------------------------------
\* SELECT ... WHERE users.email = ...
LookForEmail(a, f) ==
    /\ a \notin users /\ open[a] = "idle"
    /\ \A u \in users : AddressOf(forms[u]) # AddressOf(f)
    /\ forms' = [forms EXCEPT ![a] = f]
    /\ open' = [open EXCEPT ![a] = IF f.phone = Nothing THEN "insert" ELSE "phone"]
    /\ UNCHANGED <<users, profiles>>

\* SELECT ... WHERE users.phone = ...
LookForPhone(a) ==
    /\ open[a] = "phone"
    /\ \A u \in users : forms[u].phone # forms[a].phone
    /\ open' = [open EXCEPT ![a] = "insert"]
    /\ UNCHANGED <<users, forms, profiles>>

\* Mutant of Insert: the unique index is missing.
InsertUnchecked(a) ==
    /\ open[a] = "insert"
    /\ open' = [open EXCEPT ![a] = "commit"]
    /\ UNCHANGED <<users, forms, profiles>>

\* The flush.  The unique index makes it wait for a transaction that has
\* inserted the same address, and fail if that commits (see Rollback).
Insert(a) ==
    /\ open[a] = "insert"
    /\ \A b \in Accounts : b \in users \/ open[b] = "commit" => ~SameAddress(a, b)
    /\ open' = [open EXCEPT ![a] = "commit"]
    /\ UNCHANGED <<users, forms, profiles>>

Commit(a) ==
    /\ open[a] = "commit"
    /\ users' = users \cup {a}
    /\ profiles' = IF forms[a].admin /\ forms[a].volunteer THEN profiles \cup {a} ELSE profiles
    /\ open' = [open EXCEPT ![a] = "idle"]
    /\ UNCHANGED forms

\* The number is taken, the index refuses the address, or something fails.
Rollback(a) ==
    /\ open[a] # "idle"
    /\ open' = [open EXCEPT ![a] = "idle"]
    /\ forms' = [forms EXCEPT ![a] = Blank]
    /\ UNCHANGED <<users, profiles>>

CreateAccount(a) ==
    \/ \E f \in Form : LookForEmail(a, f)
    \/ LookForPhone(a)
    \/ Insert(a)
    \/ Commit(a)
    \/ Rollback(a)

RegistrationNext == \E a \in Accounts : CreateAccount(a)

RegistrationSpec == RegistrationInit /\ [][RegistrationNext]_registration

-----------------------------------------------------------------------------
\* Among the accounts that have a number only, a number identifies one, even
\* of accounts created at the same time and though numbers have no index.
PhoneOnlyIsUnique ==
    \A a, b \in users :
        a # b /\ PhoneOnly(a) /\ PhoneOnly(b) => forms[a].phone # forms[b].phone

=============================================================================
