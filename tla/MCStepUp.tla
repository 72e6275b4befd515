------------------------------ MODULE MCStepUp ------------------------------
(* Model-checking instances of StepUp.                                     *)
EXTENDS StepUp, TLC

Symmetry ==
    Permutations(Keys) \cup Permutations(Challenges) \cup Permutations(Proofs)
        \cup Permutations(Requests)
=============================================================================
