--------------------------- MODULE MCUserWallets ---------------------------
(* Model-checking instances of UserWallets.                                *)
EXTENDS UserWallets, TLC

Symmetry == Permutations(Addresses) \cup Permutations(Requests)
=============================================================================
