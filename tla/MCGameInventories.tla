-------------------------- MODULE MCGameInventories --------------------------
(* GameInventories for TLC: accounts and executions are interchangeable.    *)
EXTENDS GameInventories, TLC

Symmetry == Permutations(Accounts) \cup Permutations(Refreshers)
=============================================================================
