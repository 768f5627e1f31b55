----------------------------- MODULE MCUpdates -----------------------------
EXTENDS Updates
CONSTANTS git, dir, p
Both == {git, dir}
OnlyGit == {git}
OnePup == {p}
TwoThenOne == [s \in Sources |-> IF s \in Git THEN 2 ELSE 1]
Budget(jobs, edits, trouble) == [jobs |-> jobs, edits |-> edits, trouble |-> trouble]
SmallBudgets == {Budget(1, 0, 1), Budget(1, 1, 0), Budget(0, 2, 1), Budget(0, 3, 0)}
TwoAdmins == {"admin", "dev"}
Goroutines == Admins \cup {"store", "updater", "loop", "periodic", "done", "clear"}
=============================================================================
