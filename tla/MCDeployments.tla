--------------------------- MODULE MCDeployments ---------------------------
(* Instances of Deployments for TLC: at most two requests, and one or two  *)
(* cluster names.                                                          *)
EXTENDS Deployments

CONSTANTS r1, r2, n1, n2

=============================================================================
