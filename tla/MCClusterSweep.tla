--------------------------- MODULE MCClusterSweep ---------------------------
(* Instances of ClusterSweep for TLC: five clusters, four of them in one   *)
(* project, fetched two at a time.                                         *)
EXTENDS ClusterSweep

CONSTANTS p1, p2

MCProject == [c \in 1..5 |-> IF c = 5 THEN p2 ELSE p1]

=============================================================================
