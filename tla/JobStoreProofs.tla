--------------------------- MODULE JobStoreProofs ---------------------------
(***************************************************************************)
(* What JobManager guarantees under every sequence of calls, for any set   *)
(* of jobs and whether or not writes to SQLite can fail.                   *)
(***************************************************************************)
EXTENDS JobStore, TLAPS

LEMMA StoreOutcomesBoolean == \A ok \in StoreOutcomes : ok \in BOOLEAN
  BY StoreOutcomesAssumption

\* The statuses of rows and cached records are statuses, and only jobs are
\* recorded (createJobRecord and every operation of pkg/jobs.go).
THEOREM StoreTyping == StoreSpec => []StoreTypeOK
<1>1. StoreInit => StoreTypeOK
  BY DEF StoreInit, StoreTypeOK, Absent
<1>2. StoreTypeOK /\ [StoreNext]_storeVars => StoreTypeOK'
  <2> SUFFICES ASSUME StoreTypeOK, [StoreNext]_storeVars PROVE StoreTypeOK'
    OBVIOUS
  <2> USE DEF StoreTypeOK, Status, Active, Terminal, Absent
  <2>1. CASE UNCHANGED storeVars
    BY <2>1 DEF storeVars
  <2>2. ASSUME NEW j \in Jobs, JobCall(j) PROVE StoreTypeOK'
    BY <2>2, StoreOutcomesBoolean
       DEF JobCall, CreateJobRecord, UpdateJobPupID, UpdateJobProgress,
           CompleteJob, MarkJobOrphaned, DeleteJob, SetRow, Known, Loaded, Outcome
  <2>3. CASE BulkCall
    BY <2>3 DEF BulkCall, ClearAllJobs, NewJobManager, ClearCompletedJobs
  <2>4. CASE RecoveryCall
    <3>1. ASSUME NEW S \in SUBSET ActiveRows,
                 ReconcileCompletedSystemUpdateJobs(S)
          PROVE  StoreTypeOK'
      BY <3>1 DEF ReconcileCompletedSystemUpdateJobs
    <3>2. ASSUME NEW S \in SUBSET ActiveRows, NEW W \in Written(S),
                 ClearInterruptedSystemJobs(S, W)
          PROVE  StoreTypeOK'
      BY <3>2 DEF ClearInterruptedSystemJobs
    <3>3. ASSUME NEW S \in SUBSET Jobs, ClearOrphanedJobs(S)
          PROVE  StoreTypeOK'
      BY <3>3 DEF ClearOrphanedJobs
    <3> QED
      BY <2>4, <3>1, <3>2, <3>3 DEF RecoveryCall
  <2> QED
    BY <2>1, <2>2, <2>3, <2>4 DEF StoreNext
<1> QED
  BY <1>1, <1>2, PTL DEF StoreSpec

-----------------------------------------------------------------------------
(***************************************************************************)
(* The inductive invariant: besides the typing and CachedActiveIsStored,   *)
(* that only recorded jobs have a row or a cached record (CreateJobRecord  *)
(* is the only operation that makes either out of nothing).                *)
(***************************************************************************)
StoreInv == StoreTypeOK /\ CachedActiveIsStored /\ OnlyRecordedKnown

\* What a step may not do to the row of a job recorded before it.
RowsKept ==
  \A j \in Jobs :
    db[j] \in Terminal \/ (db[j] = Absent /\ j \in recorded)
      => db'[j] \notin Active

LEMMA JobCallSafe ==
  ASSUME StoreInv, NEW j \in Jobs, JobCall(j)
  PROVE  CachedActiveIsStored' /\ OnlyRecordedKnown' /\ RowsKept
<1> USE DEF StoreInv, StoreTypeOK, CachedActiveIsStored, OnlyRecordedKnown,
            RowsKept, Known, Loaded, SetRow, Status, Active, Terminal, Absent
<1> PICK ok \in StoreOutcomes :
      \/ j \notin recorded /\ CreateJobRecord(j, ok)
      \/ UpdateJobPupID(j, ok)
      \/ UpdateJobProgress(j, ok)
      \/ \E err \in BOOLEAN : CompleteJob(j, err, ok)
      \/ MarkJobOrphaned(j, ok)
      \/ DeleteJob(j, ok)
  BY DEF JobCall
<1>1. CASE j \notin recorded /\ CreateJobRecord(j, ok)
  BY <1>1 DEF CreateJobRecord
<1>2. CASE UpdateJobPupID(j, ok)
  BY <1>2 DEF UpdateJobPupID
<1>3. CASE UpdateJobProgress(j, ok)
  BY <1>3 DEF UpdateJobProgress
<1>4. ASSUME NEW err \in BOOLEAN, CompleteJob(j, err, ok)
      PROVE  CachedActiveIsStored' /\ OnlyRecordedKnown' /\ RowsKept
  BY <1>4 DEF CompleteJob, Outcome
<1>5. CASE MarkJobOrphaned(j, ok)
  BY <1>5 DEF MarkJobOrphaned
<1>6. CASE DeleteJob(j, ok)
  BY <1>6 DEF DeleteJob
<1> QED
  BY <1>1, <1>2, <1>3, <1>4, <1>5, <1>6

LEMMA StoreStep ==
  ASSUME StoreInv, [StoreNext]_storeVars
  PROVE  CachedActiveIsStored' /\ OnlyRecordedKnown' /\ RowsKept
<1> USE DEF StoreInv, StoreTypeOK, CachedActiveIsStored, OnlyRecordedKnown,
            RowsKept, Known, Loaded, Status, Active, Terminal, Absent
<1>1. CASE UNCHANGED storeVars
  BY <1>1 DEF storeVars
<1>2. CASE \E j \in Jobs : JobCall(j)
  BY <1>2, JobCallSafe
<1>3. CASE BulkCall
  <2>1. CASE ClearAllJobs
    BY <2>1 DEF ClearAllJobs
  <2>2. CASE NewJobManager
    BY <2>2 DEF NewJobManager
  <2>3. ASSUME NEW S \in SUBSET Jobs, ClearCompletedJobs(S)
        PROVE  CachedActiveIsStored' /\ OnlyRecordedKnown' /\ RowsKept
    BY <2>3 DEF ClearCompletedJobs
  <2> QED
    BY <1>3, <2>1, <2>2, <2>3 DEF BulkCall
<1>4. CASE RecoveryCall
  <2>1. ASSUME NEW S \in SUBSET ActiveRows, ReconcileCompletedSystemUpdateJobs(S)
        PROVE  CachedActiveIsStored' /\ OnlyRecordedKnown' /\ RowsKept
    BY <2>1, <1>4 DEF RecoveryCall, ReconcileCompletedSystemUpdateJobs, ActiveRows
  <2>2. ASSUME NEW S \in SUBSET ActiveRows, NEW W \in SUBSET S,
               ClearInterruptedSystemJobs(S, W)
        PROVE  CachedActiveIsStored' /\ OnlyRecordedKnown' /\ RowsKept
    BY <2>2, <1>4 DEF RecoveryCall, ClearInterruptedSystemJobs, ActiveRows
  <2>3. ASSUME NEW S \in SUBSET Jobs, ClearOrphanedJobs(S)
        PROVE  CachedActiveIsStored' /\ OnlyRecordedKnown' /\ RowsKept
    BY <2>3, <1>4 DEF RecoveryCall, ClearOrphanedJobs
  <2>4. \A S : Written(S) \subseteq SUBSET S
    BY DEF Written
  <2> QED
    BY <1>4, <2>1, <2>2, <2>3, <2>4 DEF RecoveryCall
<1> QED
  BY <1>1, <1>2, <1>3, <1>4 DEF StoreNext

THEOREM StoreInvariant == StoreSpec => []StoreInv
<1>1. StoreInit => CachedActiveIsStored /\ OnlyRecordedKnown
  BY DEF StoreInit, CachedActiveIsStored, OnlyRecordedKnown, Known, Loaded,
         Active, Absent
<1>2. StoreTypeOK /\ StoreTypeOK' /\ CachedActiveIsStored /\ OnlyRecordedKnown
        /\ [StoreNext]_storeVars => CachedActiveIsStored' /\ OnlyRecordedKnown'
  BY StoreStep DEF StoreInv
<1> QED
  BY <1>1, <1>2, StoreTyping, PTL DEF StoreSpec, StoreInv

-----------------------------------------------------------------------------
\* A record cached as active always has an active row: the cache never keeps
\* alive what the table has finished or lost (pkg/jobs.go, every operation).
THEOREM CacheNeverOutlivesRow == StoreSpec => []CachedActiveIsStored
  BY StoreInvariant, PTL DEF StoreInv

\* No call, in whatever order, takes a finished job back to queued or
\* in_progress (the status test of UpdateJobProgress, jobs.go:159).
THEOREM FinishedIsFinal == StoreSpec => FinishedStaysFinished
<1>1. StoreInv /\ [StoreNext]_storeVars
        => [\A j \in Jobs : db[j] \in Terminal => db'[j] \notin Active]_storeVars
  BY StoreStep DEF RowsKept
<1> QED
  BY <1>1, StoreInvariant, PTL DEF StoreSpec, FinishedStaysFinished

\* Neither does any call bring a deleted job back as an active one.
THEOREM DeletedIsInactive == StoreSpec => DeletedStaysInactive
<1>1. StoreInv /\ [StoreNext]_storeVars
        => [\A j \in recorded : db[j] = Absent => db'[j] \notin Active]_storeVars
  BY StoreStep DEF RowsKept, StoreInv, StoreTypeOK
<1> QED
  BY <1>1, StoreInvariant, PTL DEF StoreSpec, DeletedStaysInactive
=============================================================================
