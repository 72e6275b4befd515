------------------------- MODULE MCConnectionSlots -------------------------
(* Model-checking instances of ConnectionSlots.                            *)
EXTENDS ConnectionSlots, TLC

Symmetry == Permutations(Requests) \cup Permutations(Conns)
=============================================================================
