---------------------------- MODULE MCSiweLogin ----------------------------
(* Model-checking instances of SiweLogin.                                  *)
EXTENDS SiweLogin, TLC

Symmetry ==
    Permutations(Nonces) \cup Permutations(Challenges)
        \cup Permutations(SessionIds) \cup Permutations(Requests)
=============================================================================
