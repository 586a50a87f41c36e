-------------------------- MODULE MCClusterHealth --------------------------
(* Instances of ClusterHealth for TLC: two hosts, a refresh beside the     *)
(* sweep.                                                                  *)
EXTENDS ClusterHealth

CONSTANTS h1, h2, f1

\* Both hosts are deployed, nothing fails or changes, something is deleted.
QuietCourse == [deployed |-> {h1, h2}, faults |-> 0, changes |-> 0, deletes |-> 1]

\* The second host may join.
ChangingCourse == [deployed |-> {h1}, faults |-> 0, changes |-> 1, deletes |-> 0]

\* A call may fail.
FailingCourse == [deployed |-> {h1, h2}, faults |-> 1, changes |-> 0, deletes |-> 0]

QuietCourses == {QuietCourse}
AllCourses   == {QuietCourse, ChangingCourse, FailingCourse}

=============================================================================
