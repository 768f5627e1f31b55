------------------------------ MODULE JobStore ------------------------------
(***************************************************************************)
(* JobManager (pkg/jobs.go): the job rows persisted in SQLite and the      *)
(* in-memory cache activeJobs that shadows them.  Every operation here     *)
(* runs under jobsMutex, so each one is a single action; the two bulk SQL  *)
(* statements that do not take the mutex are single statements of the      *)
(* database and are atomic as well.                                        *)
(*                                                                         *)
(* Of a record only its status is kept: it is what every guard of the      *)
(* manager tests.  A cached record is a pointer the manager mutates before *)
(* it writes the row, so a failed write leaves cache and row apart; the    *)
(* parameter ok of an operation is the outcome of its store.Set.           *)
(***************************************************************************)
EXTENDS Naturals

CONSTANTS
  Jobs,           \* job identifiers (16 random bytes each: never reused)
  StoreOutcomes   \* outcomes of a write to SQLite; {TRUE} when none fails

ASSUME StoreOutcomesAssumption ==
  StoreOutcomes \subseteq BOOLEAN /\ TRUE \in StoreOutcomes

VARIABLES
  db,        \* db[j]: status of j's row, "none" when there is no row
  cache,     \* cache[j]: status of j's record in activeJobs, or "none"
  recorded   \* history: the jobs for which a row was ever created

storeVars == <<db, cache, recorded>>

Active   == {"queued", "in_progress"}
Terminal == {"completed", "failed", "orphaned"}
Status   == Active \cup Terminal
Absent   == "none"

StoreTypeOK ==
  /\ db \in [Jobs -> Status \cup {Absent}]
  /\ cache \in [Jobs -> Status \cup {Absent}]
  /\ recorded \subseteq Jobs

StoreInit ==
  /\ db = [j \in Jobs |-> Absent]
  /\ cache = [j \in Jobs |-> Absent]
  /\ recorded = {}

-----------------------------------------------------------------------------
\* The record an operation works on: the cached one, else the row.
Loaded(j) == IF cache[j] # Absent THEN cache[j] ELSE db[j]

\* The record was found ("job not found" otherwise).
Known(j) == Loaded(j) # Absent

ActiveRows == {j \in Jobs : db[j] \in Active}

\* store.Set: the row is replaced unless the write fails.
SetRow(j, v, ok) == db' = IF ok THEN [db EXCEPT ![j] = v] ELSE db

Written(S) == IF FALSE \in StoreOutcomes THEN SUBSET S ELSE {S}

CreateJobRecord(j, ok) ==
  /\ SetRow(j, "queued", ok)
  /\ cache' = IF ok THEN [cache EXCEPT ![j] = "queued"] ELSE cache
  /\ recorded' = IF ok THEN recorded \cup {j} ELSE recorded

\* Loads a missing record from the store into activeJobs, whatever its status.
UpdateJobPupID(j, ok) ==
  /\ UNCHANGED recorded
  /\ IF Known(j)
       THEN cache' = [cache EXCEPT ![j] = Loaded(j)] /\ SetRow(j, Loaded(j), ok)
       ELSE UNCHANGED <<db, cache>>

\* The first progress report moves a queued job to in_progress; like
\* UpdateJobPupID it loads a missing record into activeJobs.
UpdateJobProgress(j, ok) ==
  LET status == IF Loaded(j) = "queued" THEN "in_progress" ELSE Loaded(j)
  IN  /\ UNCHANGED recorded
      /\ IF Known(j)
           THEN cache' = [cache EXCEPT ![j] = status] /\ SetRow(j, status, ok)
           ELSE UNCHANGED <<db, cache>>

\* Mutant: a status the clients do not know.
OutcomeError(err) == IF err THEN "error" ELSE "completed"

Outcome(err) == IF err THEN "failed" ELSE "completed"

\* No test of the status: the last caller decides the outcome.
CompleteJob(j, err, ok) ==
  /\ UNCHANGED recorded
  /\ IF Known(j)
       THEN cache' = [cache EXCEPT ![j] = Absent] /\ SetRow(j, Outcome(err), ok)
       ELSE UNCHANGED <<db, cache>>

\* Mutant: no test of the status.
MarkJobOrphanedAlways(j, ok) ==
  /\ UNCHANGED recorded
  /\ IF Known(j)
       THEN cache' = [cache EXCEPT ![j] = Absent] /\ SetRow(j, "orphaned", ok)
       ELSE UNCHANGED <<db, cache>>

\* Mutant: a record that is not in activeJobs is taken for finished.
MarkJobOrphanedCached(j, ok) ==
  /\ UNCHANGED recorded
  /\ IF cache[j] \in Active
       THEN cache' = [cache EXCEPT ![j] = Absent] /\ SetRow(j, "orphaned", ok)
       ELSE UNCHANGED <<db, cache>>

MarkJobOrphaned(j, ok) ==
  /\ UNCHANGED recorded
  /\ IF Loaded(j) \in Active
       THEN cache' = [cache EXCEPT ![j] = Absent] /\ SetRow(j, "orphaned", ok)
       ELSE UNCHANGED <<db, cache>>

\* Mutant: the cached record stays.
DeleteRowOnly(j, ok) == SetRow(j, Absent, ok) /\ UNCHANGED <<cache, recorded>>

\* The cache entry goes first, even when the row then cannot be deleted.
DeleteJob(j, ok) ==
  /\ cache' = [cache EXCEPT ![j] = Absent]
  /\ SetRow(j, Absent, ok)
  /\ UNCHANGED recorded

\* Mutant: the cached records stay.
ClearAllRows == db' = [j \in Jobs |-> Absent] /\ UNCHANGED <<cache, recorded>>

ClearAllJobs ==
  /\ db' = [j \in Jobs |-> Absent]
  /\ cache' = [j \in Jobs |-> Absent]
  /\ UNCHANGED recorded

\* One DELETE of the terminal rows in old (finished before the cutoff); it
\* neither takes jobsMutex nor looks at activeJobs.
ClearCompletedJobs(old) ==
  /\ db' = [j \in Jobs |->
              IF j \in old /\ db[j] \in Terminal THEN Absent ELSE db[j]]
  /\ UNCHANGED <<cache, recorded>>

-----------------------------------------------------------------------------
(***************************************************************************)
(* Startup (cmd/dogeboxd/server.go): a new process has an empty cache and  *)
(* runs the three recoveries below before anything else uses the manager.  *)
(***************************************************************************)
NewJobManager ==
  /\ cache' = [j \in Jobs |-> Absent]
  /\ UNCHANGED <<db, recorded>>

\* The interrupted system updates whose target version is now installed.
ReconcileCompletedSystemUpdateJobs(matched) ==
  /\ db' = [j \in Jobs |-> IF j \in matched THEN "completed" ELSE db[j]]
  /\ cache' = [j \in Jobs |-> IF j \in matched THEN Absent ELSE cache[j]]
  /\ UNCHANGED recorded

\* Fails the rows of interrupted that could be written, then drops the cached
\* active records of system updates.
ClearInterruptedSystemJobs(interrupted, written) ==
  /\ db' = [j \in Jobs |-> IF j \in written THEN "failed" ELSE db[j]]
  /\ cache' = [j \in Jobs |-> IF j \in interrupted /\ written = interrupted
                                THEN Absent ELSE cache[j]]
  /\ UNCHANGED recorded

\* old: the jobs started before the cutoff.
ClearOrphanedJobs(old) ==
  /\ db' = [j \in Jobs |->
              IF j \in old /\ db[j] \in Active THEN "failed" ELSE db[j]]
  /\ cache' = [j \in Jobs |->
              IF j \in old /\ cache[j] \in Active THEN Absent ELSE cache[j]]
  /\ UNCHANGED recorded

-----------------------------------------------------------------------------
(***************************************************************************)
(* The manager under every sequence of calls: no assumption is made here   *)
(* on who calls what, only that a job identifier is recorded once and that *)
(* the recoveries run while nothing is cached.                             *)
(***************************************************************************)
JobCall(j) ==
  \E ok \in StoreOutcomes :
    \/ j \notin recorded /\ CreateJobRecord(j, ok)
    \/ UpdateJobPupID(j, ok)
    \/ UpdateJobProgress(j, ok)
    \/ \E err \in BOOLEAN : CompleteJob(j, err, ok)
    \/ MarkJobOrphaned(j, ok)
    \/ DeleteJob(j, ok)

BulkCall ==
  \/ ClearAllJobs
  \/ NewJobManager
  \/ \E S \in SUBSET Jobs : ClearCompletedJobs(S)

RecoveryCall ==
  /\ \A j \in Jobs : cache[j] = Absent
  /\ \/ \E S \in SUBSET ActiveRows : ReconcileCompletedSystemUpdateJobs(S)
     \/ \E S \in SUBSET ActiveRows :
          \E W \in Written(S) : ClearInterruptedSystemJobs(S, W)
     \/ \E S \in SUBSET Jobs : ClearOrphanedJobs(S)

StoreNext == (\E j \in Jobs : JobCall(j)) \/ BulkCall \/ RecoveryCall

StoreSpec == StoreInit /\ [][StoreNext]_storeVars

-----------------------------------------------------------------------------
\* A record the cache holds as active has an active row: whatever write fails
\* and whatever bulk delete runs, the manager never revives a finished or a
\* deleted job from its cache (the row is written back from the cached record
\* by every progress report).
CachedActiveIsStored ==
  \A j \in Jobs : cache[j] \in Active => db[j] \in Active

\* Only a job that CreateJobRecord recorded has a row or a cached record.
OnlyRecordedKnown == \A j \in Jobs : Known(j) => j \in recorded

\* A finished job never becomes active again, whoever reports progress late:
\* only "queued" is moved by UpdateJobProgress.
FinishedStaysFinished ==
  [][\A j \in Jobs : db[j] \in Terminal => db'[j] \notin Active]_storeVars

\* A deleted active job is not brought back as active: after DeleteJob,
\* ClearAllJobs or ClearCompletedJobs no late call recreates an active row.
DeletedStaysInactive ==
  [][\A j \in recorded : db[j] = Absent => db'[j] \notin Active]_storeVars
=============================================================================
