--------------------------- MODULE MCCS2Inventory ---------------------------
(* CS2Inventory for TLC: accounts and requests are interchangeable.        *)
EXTENDS CS2Inventory, TLC

Symmetry == Permutations(Accounts) \cup Permutations(Tasks)
=============================================================================
