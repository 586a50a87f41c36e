---------------------------- MODULE MCPgUpgrade ----------------------------
(* An instance of PgUpgrade for TLC: three hosts.                          *)
EXTENDS PgUpgrade

CONSTANTS h1, h2, h3

Course(u, r, f, a) == [upgrades |-> u, rollbacks |-> r, faults |-> f, accidents |-> a]

\* A host goes down in an upgrade or the rollback after it; two upgrades with a
\* failure; two failures, in an upgrade and its rollbacks.
AllCourses == {Course(1, 1, 1, 1), Course(2, 1, 1, 0), Course(1, 2, 2, 0)}

=============================================================================
