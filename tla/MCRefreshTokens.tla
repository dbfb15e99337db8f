---------------------------- MODULE MCRefreshTokens ----------------------------
\* A finite instance of RefreshTokens: what has no order is interchangeable.
EXTENDS RefreshTokens, TLC

Symmetry ==
    Permutations(Accounts) \cup Permutations(Emails) \cup Permutations(Phones)
        \cup Permutations(Sessions) \cup Permutations(Refreshes) \cup Permutations(Tokens)

=============================================================================
