---------------------------- MODULE NumberRegister ----------------------------
(***************************************************************************)
(* What case numbers promise: under each prefix the cases form an append-  *)
(* only register, and the number of a case is its position in it.          *)
(***************************************************************************)
EXTENDS Sequences

CONSTANTS Prefixes, Requests

VARIABLE register   \* for each prefix the creations that succeeded, in order

Init == register = [p \in Prefixes |-> <<>>]

\* One creation takes the next position of one prefix.
Next ==
    \E p \in Prefixes, r \in Requests :
        register' = [register EXCEPT ![p] = Append(@, r)]

Spec == Init /\ [][Next]_register

=============================================================================
