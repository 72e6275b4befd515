---------------------------- MODULE MCDeployments ----------------------------
(* Model-checking instances of Deployments.                                *)
EXTENDS Deployments, TLC
=============================================================================
