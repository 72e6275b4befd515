------------------------------- MODULE MCFaucet -------------------------------
(* Model-checking instance of Faucet.                                      *)
EXTENDS Faucet, TLC

Symmetry == Permutations(Users) \cup Permutations(Claims) \cup Permutations(Requests)
=============================================================================
