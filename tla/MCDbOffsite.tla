----------------------------- MODULE MCDbOffsite -----------------------------
EXTENDS DbOffsite, TLC

CONSTANTS p1, p2, v1, v2

\* Backups with their uploads, and whatever reads a dump: the two share the backups only.
BackupPlan == [commands |-> {"provision", "backup", "upload"}, engines |-> {"postgres"},
               seconds |-> 3, begun |-> 4]
VerifyPlan == [commands |-> {"provision", "credential", "backup", "restore", "verify", "restore-verify",
                             "offsite-verify"},
               engines |-> {"mysql", "postgres"}, seconds |-> 2, begun |-> 4]
EveryPlan == {BackupPlan, VerifyPlan}

\* One backup and one restore verification.
MysqlPlan == {[commands |-> {"provision", "backup", "restore-verify"}, engines |-> {"mysql"},
               seconds |-> 1, begun |-> 3]}

\* The processes are alike, and so are the versions of the data.
Symmetry == Permutations({p1, p2}) \cup Permutations(Versions)

=============================================================================
