------------------------------ MODULE MCInventory ------------------------------
\* Finite instances of Inventory.
EXTENDS Inventory, TLC

Symmetry == Permutations(Requests)

\* Whole hundredths, and amounts the column rounds.
Whole == {-2, 0, 2, 4}
Fractions == {-2, -1, 0, 1, 2, 4}
=============================================================================
