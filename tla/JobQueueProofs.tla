--------------------------- MODULE JobQueueProofs ---------------------------
(***************************************************************************)
(* The safety of the job queue, for any number of jobs of any kinds, any   *)
(* set of scanners and web clients, any number of restarts and failing     *)
(* writes: the inductive invariant IInv of JobQueueInv and what follows    *)
(* from it; that the queue is a lawful user of the job manager, and that   *)
(* it implements JobSpec.                                                  *)
(***************************************************************************)
EXTENDS JobQueueInv, JobStoreProofs, SequenceTheorems, TLAPS

(* Sequences without repetitions. *)
LEMMA TailFacts ==
  ASSUME NEW S, NEW s \in Seq(S), s # <<>>
  PROVE  /\ Head(s) \in S /\ Tail(s) \in Seq(S)
         /\ Head(s) \in ToSet(s)
         /\ ToSet(Tail(s)) \subseteq ToSet(s)
         /\ ToSet(s) \subseteq S
         /\ IsInjective(s) => /\ Head(s) \notin ToSet(Tail(s))
                              /\ IsInjective(Tail(s))
<1>1. Len(s) \in Nat /\ Len(s) > 0 /\ DOMAIN s = 1 .. Len(s) /\ Head(s) = s[1]
  OBVIOUS
<1>2. Tail(s) \in Seq(S) /\ Len(Tail(s)) = Len(s) - 1
      /\ DOMAIN Tail(s) = 1 .. Len(s) - 1
      /\ \A i \in 1 .. Len(s) - 1 : Tail(s)[i] = s[i + 1]
  OBVIOUS
<1>3. \A i \in 1 .. Len(s) : s[i] \in S
  BY <1>1
<1>4. ToSet(Tail(s)) \subseteq ToSet(s)
  <2> SUFFICES ASSUME NEW i \in 1 .. Len(s) - 1 PROVE Tail(s)[i] \in ToSet(s)
    BY <1>2 DEF ToSet
  <2>1. i + 1 \in DOMAIN s /\ Tail(s)[i] = s[i + 1]
    BY <1>1, <1>2
  <2> QED
    BY <2>1 DEF ToSet
<1>5. ASSUME IsInjective(s)
      PROVE  Head(s) \notin ToSet(Tail(s)) /\ IsInjective(Tail(s))
  <2>1. \A i \in 1 .. Len(s) - 1 : i + 1 \in DOMAIN s /\ 1 \in DOMAIN s
    BY <1>1
  <2>2. \A i \in 1 .. Len(s) - 1 : s[i + 1] # s[1]
    BY <1>5, <2>1 DEF IsInjective
  <2>3. \A i, k \in 1 .. Len(s) - 1 : s[i + 1] = s[k + 1] => i = k
    BY <1>5, <2>1 DEF IsInjective
  <2> QED
    BY <1>1, <1>2, <2>2, <2>3 DEF IsInjective, ToSet
<1> QED
  BY <1>1, <1>2, <1>3, <1>4, <1>5 DEF ToSet

LEMMA AppendFacts ==
  ASSUME NEW S, NEW s \in Seq(S), NEW x \in S
  PROVE  /\ Append(s, x) \in Seq(S)
         /\ ToSet(Append(s, x)) = ToSet(s) \cup {x}
         /\ IsInjective(s) /\ x \notin ToSet(s) => IsInjective(Append(s, x))
<1>1. /\ Append(s, x) \in Seq(S)
      /\ DOMAIN s = 1 .. Len(s) /\ Len(s) \in Nat
      /\ DOMAIN Append(s, x) = 1 .. Len(s) + 1
      /\ \A i \in 1 .. Len(s) : Append(s, x)[i] = s[i]
      /\ Append(s, x)[Len(s) + 1] = x
  OBVIOUS
<1>2. 1 .. Len(s) + 1 = (1 .. Len(s)) \cup {Len(s) + 1}
  BY <1>1
<1>3. ToSet(Append(s, x)) = ToSet(s) \cup {x}
  BY <1>1, <1>2 DEF ToSet
<1>4. IsInjective(s) /\ x \notin ToSet(s) => IsInjective(Append(s, x))
  BY <1>1, <1>2 DEF IsInjective, ToSet
<1> QED
  BY <1>1, <1>3, <1>4

LEMMA RemoveFacts ==
  ASSUME NEW S, NEW s \in Seq(S), NEW i \in DOMAIN s
  PROVE  /\ RemoveAt(s, i) \in Seq(S)
         /\ ToSet(RemoveAt(s, i)) \subseteq ToSet(s)
         /\ IsInjective(s) => /\ s[i] \notin ToSet(RemoveAt(s, i))
                              /\ IsInjective(RemoveAt(s, i))
<1> DEFINE r == RemoveAt(s, i)
           from(k) == IF k < i THEN k ELSE k + 1
<1>1. Len(s) \in Nat /\ i \in 1 .. Len(s) /\ DOMAIN s = 1 .. Len(s)
  OBVIOUS
<1>2. r \in Seq(S) /\ DOMAIN r = 1 .. Len(s) - 1
      /\ \A k \in 1 .. Len(s) - 1 : r[k] = s[from(k)]
  <2> DEFINE a == SubSeq(s, 1, i - 1)
             b == SubSeq(s, i + 1, Len(s))
  <2>1. a \in Seq(S) /\ Len(a) = i - 1 /\ \A k \in 1 .. i - 1 : a[k] = s[k]
    BY <1>1, SubSeqProperties
  <2>2. /\ b \in Seq(S) /\ Len(b) = Len(s) - i
        /\ \A k \in 1 .. Len(s) - i : b[k] = s[k + i]
    BY <1>1, SubSeqProperties
  <2> HIDE DEF a, b
  <2>3. /\ a \o b \in Seq(S) /\ Len(a \o b) = Len(s) - 1
        /\ \A k \in 1 .. Len(s) - 1 :
             (a \o b)[k] = IF k <= i - 1 THEN a[k] ELSE b[k - (i - 1)]
    <3>1. Len(a) + Len(b) = Len(s) - 1
      BY <1>1, <2>1, <2>2
    <3>2. /\ a \o b \in Seq(S) /\ Len(a \o b) = Len(a) + Len(b)
          /\ \A k \in 1 .. Len(a) + Len(b) :
               (a \o b)[k] = IF k <= Len(a) THEN a[k] ELSE b[k - Len(a)]
      BY <2>1, <2>2, ConcatProperties
    <3> QED
      BY <3>1, <3>2, <2>1
  <2>4. DOMAIN (a \o b) = 1 .. Len(s) - 1
    BY <2>3, LenProperties
  <2>5. ASSUME NEW k \in 1 .. Len(s) - 1 PROVE (a \o b)[k] = s[from(k)]
    <3>1. CASE k <= i - 1
      <4>1. k \in 1 .. i - 1 /\ k < i
        BY <1>1, <3>1
      <4> QED
        BY <2>1, <2>3, <3>1, <4>1
    <3>2. CASE ~(k <= i - 1)
      <4>1. k - (i - 1) \in 1 .. Len(s) - i /\ (k - (i - 1)) + i = k + 1 /\ ~(k < i)
        BY <1>1, <3>2
      <4> QED
        BY <2>2, <2>3, <3>2, <4>1
    <3> QED
      BY <3>1, <3>2
  <2> QED
    BY <2>3, <2>4, <2>5 DEF a, b, RemoveAt
<1>3. \A k \in 1 .. Len(s) - 1 : from(k) \in 1 .. Len(s) /\ from(k) # i
  BY <1>1
<1>4. \A k, m \in 1 .. Len(s) - 1 : from(k) = from(m) => k = m
  BY <1>1
<1> HIDE DEF r, from
<1>5. ToSet(r) \subseteq ToSet(s)
  BY <1>1, <1>2, <1>3 DEF ToSet
<1>6. IsInjective(s) => s[i] \notin ToSet(r) /\ IsInjective(r)
  <2> SUFFICES ASSUME IsInjective(s)
               PROVE  s[i] \notin ToSet(r) /\ IsInjective(r)
    OBVIOUS
  <2>1. \A k, m \in 1 .. Len(s) : s[k] = s[m] => k = m
    BY <1>1 DEF IsInjective
  <2>2. \A k \in 1 .. Len(s) - 1 : r[k] # s[i]
    BY <1>1, <1>2, <1>3, <2>1
  <2>3. \A k, m \in 1 .. Len(s) - 1 : r[k] = r[m] => k = m
    BY <1>2, <1>3, <1>4, <2>1
  <2> QED
    BY <1>2, <2>2, <2>3 DEF ToSet, IsInjective
<1> QED
  BY <1>2, <1>5, <1>6 DEF r

-----------------------------------------------------------------------------
(* The store operations, as the queue uses them. *)
NoNewOrphan(S) ==
  \A i \in S : db[i] # "orphaned" /\ cache[i] # "orphaned"
                 => db'[i] # "orphaned" /\ cache'[i] # "orphaned"

StoreKept == StoreTypeOK' /\ OnlyRecordedKnown' /\ recorded' = recorded

\* No job that has a record comes (back) into flight.
NoNewFlight == \A i \in recorded : InFlight(i)' => InFlight(i)

LEMMA RecordOperations ==
  ASSUME StoreTypeOK, OnlyRecordedKnown, NEW j \in Jobs, NEW ok \in BOOLEAN
  PROVE  /\ UpdateJobPupID(j, ok) => StoreKept /\ NoNewOrphan(Jobs)
         /\ UpdateJobProgress(j, ok) => StoreKept /\ NoNewOrphan(Jobs)
         /\ \A err : CompleteJob(j, err, ok) => StoreKept /\ NoNewOrphan(Jobs)
         /\ DeleteJob(j, ok) => StoreKept /\ NoNewOrphan(Jobs)
         /\ MarkJobOrphaned(j, ok) => StoreKept /\ NoNewOrphan(Jobs \ {j})
         /\ CreateJobRecord(j, ok) =>
              /\ StoreTypeOK' /\ OnlyRecordedKnown' /\ NoNewOrphan(Jobs)
              /\ recorded' = IF ok THEN recorded \cup {j} ELSE recorded
<1> USE DEF StoreTypeOK, OnlyRecordedKnown, StoreKept, NoNewOrphan, SetRow,
            Known, Loaded, Status, Active, Terminal, Absent
<1>1. UpdateJobPupID(j, ok) => StoreKept /\ NoNewOrphan(Jobs)
  BY DEF UpdateJobPupID
<1>2. UpdateJobProgress(j, ok) => StoreKept /\ NoNewOrphan(Jobs)
  BY DEF UpdateJobProgress
<1>3. \A err : CompleteJob(j, err, ok) => StoreKept /\ NoNewOrphan(Jobs)
  BY DEF CompleteJob, Outcome
<1>4. DeleteJob(j, ok) => StoreKept /\ NoNewOrphan(Jobs)
  BY DEF DeleteJob
<1>5. MarkJobOrphaned(j, ok) => StoreKept /\ NoNewOrphan(Jobs \ {j})
  BY DEF MarkJobOrphaned
<1>6. CreateJobRecord(j, ok) =>
        /\ StoreTypeOK' /\ OnlyRecordedKnown' /\ NoNewOrphan(Jobs)
        /\ recorded' = IF ok THEN recorded \cup {j} ELSE recorded
  BY DEF CreateJobRecord
<1> QED
  BY <1>1, <1>2, <1>3, <1>4, <1>5, <1>6

LEMMA BulkOperations ==
  ASSUME StoreTypeOK, OnlyRecordedKnown
  PROVE  /\ ClearAllJobs => StoreKept /\ NoNewOrphan(Jobs)
         /\ NewJobManager => StoreKept /\ NoNewOrphan(Jobs)
         /\ \A S : ClearCompletedJobs(S) => StoreKept /\ NoNewOrphan(Jobs)
         /\ \A S : ClearOrphanedJobs(S) => StoreKept /\ NoNewOrphan(Jobs)
         /\ \A S \in SUBSET ActiveRows :
              ReconcileCompletedSystemUpdateJobs(S) => StoreKept /\ NoNewOrphan(Jobs)
         /\ \A S, W : /\ W \in SUBSET ActiveRows
                      /\ ClearInterruptedSystemJobs(S, W)
                      => StoreKept /\ NoNewOrphan(Jobs)
<1> USE DEF StoreTypeOK, OnlyRecordedKnown, StoreKept, NoNewOrphan, Known, Loaded,
            Status, Active, Terminal, Absent, ActiveRows
<1>1. ClearAllJobs => StoreKept /\ NoNewOrphan(Jobs)
  BY DEF ClearAllJobs
<1>2. NewJobManager => StoreKept /\ NoNewOrphan(Jobs)
  BY DEF NewJobManager
<1>3. \A S : ClearCompletedJobs(S) => StoreKept /\ NoNewOrphan(Jobs)
  BY DEF ClearCompletedJobs
<1>4. \A S : ClearOrphanedJobs(S) => StoreKept /\ NoNewOrphan(Jobs)
  BY DEF ClearOrphanedJobs
<1>5. \A S \in SUBSET ActiveRows :
        ReconcileCompletedSystemUpdateJobs(S) => StoreKept /\ NoNewOrphan(Jobs)
  BY DEF ReconcileCompletedSystemUpdateJobs
<1>6. \A S, W : W \in SUBSET ActiveRows /\ ClearInterruptedSystemJobs(S, W)
                 => StoreKept /\ NoNewOrphan(Jobs)
  BY DEF ClearInterruptedSystemJobs
<1> QED
  BY <1>1, <1>2, <1>3, <1>4, <1>5, <1>6

-----------------------------------------------------------------------------
(* FlowInv, one lemma per group of actions. *)
LEMMA AddActionFlow ==
  ASSUME FlowInv, NEW j \in Jobs, AddAction(j)
  PROVE  FlowInv' /\ NoNewFlight
<1> USE DEF FlowInv, AddAction, storeVars, queueVars, loopVars, webVars
<1>1. /\ inbox \in Seq(Jobs) /\ inbox' = Append(inbox, j)
      /\ ToSet(inbox') = ToSet(inbox) \cup {j}
      /\ inbox' \in Seq(Jobs) /\ IsInjective(inbox')
  BY AppendFacts DEF TypeOK, AheadInv
<1>2. TypeOK'
  BY <1>1 DEF TypeOK, StoreTypeOK
<1>3. Unsplit' = Unsplit /\ Ahead' = Ahead /\ Kids(Unsplit)' = Kids(Unsplit)
  BY <1>1 DEF Unsplit, Ahead, Kids
<1>4. AheadInv'
  BY <1>1, <1>3 DEF AheadInv
<1>5. OnlyRecordedKnown' /\ SlotInv' /\ QueuedOnce' /\ VisibleInv'
  BY DEF OnlyRecordedKnown, Known, Loaded, SlotInv, QueuedOnce, VisibleInv
<1>6. NoNewFlight
  <2>1. j \notin recorded
    BY DEF AheadInv, Ahead, Unsplit
  <2> QED
    BY <1>1, <2>1 DEF NoNewFlight, InFlight
<1> QED
  BY <1>2, <1>4, <1>5, <1>6

LEMMA ReceiveJobFlow ==
  ASSUME FlowInv, ReceiveJob
  PROVE  FlowInv' /\ NoNewFlight
<1> USE DEF FlowInv, ReceiveJob, Goto, storeVars, queueVars, webVars
<1> DEFINE j == Head(inbox)
<1>1. /\ j \in Jobs /\ j \in ToSet(inbox) /\ inbox' = Tail(inbox)
      /\ ToSet(inbox') \subseteq ToSet(inbox) /\ j \notin ToSet(inbox')
      /\ inbox' \in Seq(Jobs) /\ IsInjective(inbox')
  BY TailFacts DEF TypeOK, AheadInv
<1>2. /\ todo' \in Seq(Jobs) /\ IsInjective(todo')
      /\ ToSet(todo') \subseteq {j} \cup ToSet(SubJobs[j])
  <2>1. <<j>> \in Seq(Jobs) /\ ToSet(<<j>>) = {j} /\ IsInjective(<<j>>)
    BY <1>1 DEF ToSet, IsInjective
  <2>2. <<>> \in Seq(Jobs) /\ ToSet(<<>>) = {} /\ IsInjective(<<>>)
    BY DEF ToSet, IsInjective
  <2>3. SubJobs[j] \in Seq(Jobs) /\ IsInjective(SubJobs[j])
    BY <1>1, JobQueueAssumption
  <2> QED
    BY <2>1, <2>2, <2>3
<1>3. TypeOK'
  BY <1>1, <1>2 DEF TypeOK, StoreTypeOK
<1>4. /\ Unsplit' \subseteq Unsplit \ {j} /\ j \in Unsplit
      /\ Unsplit \subseteq Jobs
      /\ Kids(Unsplit)' = Kids(Unsplit')
  BY <1>1, TailFacts DEF Unsplit, AheadInv, TypeOK, Kids, ToSet
<1>5. /\ Kids(Unsplit)' \subseteq Kids(Unsplit)
      /\ ToSet(SubJobs[j]) \subseteq Kids(Unsplit) \cap Children
  BY <1>1, <1>4 DEF Kids, Children
<1>6. ToSet(SubJobs[j]) \cap Kids(Unsplit)' = {}
  BY <1>1, <1>4, JobQueueAssumption DEF Kids
<1>7. j \notin Kids(Unsplit)'
  BY <1>4, <1>5 DEF AheadInv, Children, Kids
<1>8. ToSet(todo') \cap (Unsplit' \cup Kids(Unsplit)') = {}
  BY <1>2, <1>4, <1>5, <1>6, <1>7 DEF AheadInv
<1>9. Ahead' \subseteq Ahead
  BY <1>2, <1>4, <1>5 DEF Ahead
<1>10. AheadInv'
  <2>1. Unsplit' \cap Children = {} /\ fresh' \cap ToSet(inbox') = {}
    BY <1>1, <1>4 DEF AheadInv
  <2>2. Ahead' \cap (recorded' \cup ToSet(queue') \cup {mj', current'}) = {}
    BY <1>9 DEF AheadInv
  <2> QED
    BY <1>1, <1>2, <1>8, <2>1, <2>2 DEF AheadInv
<1>11. OnlyRecordedKnown' /\ SlotInv' /\ QueuedOnce' /\ VisibleInv'
  BY DEF OnlyRecordedKnown, Known, Loaded, SlotInv, QueuedOnce, VisibleInv,
         Holding, OwnWork
<1>12. NoNewFlight
  <2>1. ToSet(todo') \cap recorded = {}
    BY <1>2, <1>4, <1>5 DEF AheadInv, Ahead
  <2>2. mj = NoJob /\ NoJob \notin recorded
    BY JobQueueAssumption DEF SlotInv, Holding, TypeOK, StoreTypeOK
  <2> QED
    BY <1>1, <2>1, <2>2 DEF NoNewFlight, InFlight
<1> QED
  BY <1>3, <1>10, <1>11, <1>12

\* The moves of the main loop that take no job from one place to another.
Moves ==
  {<<"pumplog", "handover">>, <<"finlog", "complete">>, <<"complete", "finerr">>,
   <<"finerr", "finactive">>, <<"finactive", "fincomplete">>,
   <<"finactive", "finclear">>, <<"fincomplete", "finclear">>,
   <<"dispatch", "finerr">>, <<"dispatch", "enqueue">>, <<"dispatch", "direct">>,
   <<"direct", "finerr">>, <<"select", "scan">>, <<"scan", "select">>,
   <<"next", "select">>, <<"boot", "interrupted">>, <<"interrupted", "stale">>,
   <<"stale", "select">>}

LEMMA MoveFlow ==
  ASSUME FlowInv, TypeOK', StoreKept, pc' = pc \/ <<pc, pc'>> \in Moves,
         UNCHANGED <<fresh, inbox, queueVars, mj, todo>>,
         UNCHANGED updater \/ /\ updater.st = "work" /\ updater'.st = "done"
                              /\ updater'.job = updater.job
  PROVE  FlowInv' /\ NoNewFlight
<1> USE DEF FlowInv, queueVars, StoreKept
<1>1. AheadInv' /\ QueuedOnce'
  BY DEF AheadInv, Ahead, Unsplit, Kids, QueuedOnce, Moves
<1>2. SlotInv'
  <2>1. pc' \in Holding <=> pc \in Holding
    BY DEF Moves, Holding
  <2>2. pc' \in {"pumplog", "handover"} => pc \in {"pumplog", "handover"}
    BY DEF Moves
  <2>3. pc' \in {"pumplog", "handover", "finlog", "complete", "unlock"}
          => pc \in {"pumplog", "handover", "finlog", "complete", "unlock"}
    BY DEF Moves
  <2>4. pc' \in {"create", "dispatch", "enqueue", "direct"}
          => pc \in {"create", "dispatch", "enqueue", "direct"}
    BY DEF Moves
  <2> QED
    BY <2>1, <2>2, <2>3, <2>4 DEF SlotInv
<1>3. VisibleInv'
  <2>1. pc' \in OwnWork => pc \in OwnWork \/ pc = "complete"
    BY DEF Moves, OwnWork
  <2>2. pc' = "create" => pc = "create"
    BY DEF Moves
  <2> QED
    BY <2>1, <2>2 DEF VisibleInv, SlotInv
<1>4. NoNewFlight
  <2>1. pc' \notin {"finclear", "unlock"} => pc \notin {"finclear", "unlock"}
    BY DEF Moves
  <2> QED
    BY <2>1 DEF NoNewFlight, InFlight
<1> QED
  BY <1>1, <1>2, <1>3, <1>4

LEMMA StoreUnchanged ==
  ASSUME FlowInv, UNCHANGED storeVars
  PROVE  StoreKept /\ NoNewOrphan(Jobs)
BY DEF FlowInv, TypeOK, StoreKept, NoNewOrphan, storeVars, StoreTypeOK,
       OnlyRecordedKnown, Known, Loaded

\* The steps of the main loop, the updater, the scans and the web handlers
\* that leave the places of all jobs alone.
LEMMA StillFlow ==
  ASSUME FlowInv,
         \/ NothingLeft \/ DispatchPup \/ DirectLog \/ DirectFinish \/ PumpLog
         \/ UpdaterLog \/ UpdaterFinish \/ FinishedLog \/ CompleteFromUpdater
         \/ LogError \/ TestActive \/ CompleteDirect
         \/ BootReconcile \/ BootInterrupted \/ BootStale
         \/ clearAllJobs \/ clearCompletedJobs
  PROVE  FlowInv' /\ NoNewFlight /\ NoNewOrphan(Jobs) /\ recorded' = recorded
<1> USE DEF FlowInv, loopVars, webVars, queueVars, loopStateVars, Goto
<1>a. StoreTypeOK /\ mj \in Jobs \cup {NoJob} /\ updater.job \in Jobs \cup {NoJob}
  BY DEF TypeOK
<1>b. pc \in Holding => mj \in Jobs
  BY DEF TypeOK, SlotInv
<1>c. updater.st # "idle" => updater.job \in Jobs
  BY DEF TypeOK, SlotInv
<1>1. CASE NothingLeft \/ DirectFinish \/ TestActive
  <2>1. StoreKept /\ NoNewOrphan(Jobs)
    BY <1>1, StoreUnchanged DEF NothingLeft, DirectFinish, TestActive
  <2>2. TypeOK'
    BY <1>1, <2>1 DEF NothingLeft, DirectFinish, TestActive, TypeOK, StoreKept
  <2> QED
    BY <1>1, <2>1, <2>2, MoveFlow
       DEF NothingLeft, DirectFinish, TestActive, Moves, StoreKept
<1>2. CASE UpdaterFinish
  <2>1. StoreKept /\ NoNewOrphan(Jobs)
    BY <1>2, StoreUnchanged DEF UpdaterFinish
  <2>2. PICK err \in BOOLEAN : updater' = [updater EXCEPT !.st = "done", !.err = err]
    BY <1>2 DEF UpdaterFinish
  <2>3. updater \in [st : {"idle", "work", "done"}, job : Jobs \cup {NoJob},
                     err : BOOLEAN]
    BY DEF TypeOK
  <2>4. /\ updater' \in [st : {"idle", "work", "done"}, job : Jobs \cup {NoJob},
                         err : BOOLEAN]
        /\ updater'.st = "done" /\ updater'.job = updater.job
    BY <2>2, <2>3
  <2>5. TypeOK'
    BY <1>2, <2>1, <2>4 DEF UpdaterFinish, TypeOK, StoreKept
  <2>6. updater.st = "work"
    BY <1>2 DEF UpdaterFinish
  <2> QED
    BY <1>2, <2>1, <2>4, <2>5, <2>6, MoveFlow DEF UpdaterFinish, StoreKept
<1>3. CASE DispatchPup
  <2>1. StoreKept /\ NoNewOrphan(Jobs)
    BY <1>3, <1>b, StoreUnchanged, RecordOperations, StoreOutcomesBoolean
       DEF DispatchPup, Holding, TypeOK
  <2>2. /\ pc' \in {"finerr", "enqueue"} /\ merr' \in BOOLEAN
        /\ UNCHANGED <<fresh, inbox, queueVars, mj, todo, updater, webVars, crashes>>
    BY <1>3 DEF DispatchPup, TypeOK
  <2>3. TypeOK'
    BY <2>1, <2>2 DEF TypeOK, StoreKept
  <2> QED
    BY <1>3, <2>1, <2>2, <2>3, MoveFlow DEF DispatchPup, Moves, StoreKept
<1>4. CASE DirectLog \/ PumpLog \/ FinishedLog
  <2>1. StoreKept /\ NoNewOrphan(Jobs)
    BY <1>4, <1>b, RecordOperations, StoreOutcomesBoolean
       DEF DirectLog, PumpLog, FinishedLog, Holding, TypeOK
  <2>2. TypeOK'
    BY <1>4, <2>1 DEF DirectLog, PumpLog, FinishedLog, TypeOK, StoreKept
  <2> QED
    BY <1>4, <2>1, <2>2, MoveFlow
       DEF DirectLog, PumpLog, FinishedLog, Moves, StoreKept
<1>5. CASE LogError
  <2>1. StoreKept /\ NoNewOrphan(Jobs)
    BY <1>5, <1>b, StoreUnchanged, RecordOperations, StoreOutcomesBoolean
       DEF LogError, Holding, TypeOK
  <2>2. TypeOK'
    BY <1>5, <2>1 DEF LogError, TypeOK, StoreKept
  <2> QED
    BY <1>5, <2>1, <2>2, MoveFlow DEF LogError, Moves, StoreKept
<1>6. CASE UpdaterLog
  <2>1. StoreKept /\ NoNewOrphan(Jobs)
    BY <1>6, <1>c, RecordOperations, StoreOutcomesBoolean DEF UpdaterLog, TypeOK
  <2>2. TypeOK'
    BY <1>6, <2>1 DEF UpdaterLog, TypeOK, StoreKept
  <2> QED
    BY <1>6, <2>1, <2>2, MoveFlow DEF UpdaterLog, StoreKept
<1>7. CASE CompleteFromUpdater \/ CompleteDirect
  <2>1. StoreKept /\ NoNewOrphan(Jobs)
    BY <1>7, <1>b, RecordOperations, StoreOutcomesBoolean
       DEF CompleteFromUpdater, CompleteDirect, Holding, TypeOK
  <2>2. TypeOK'
    BY <1>7, <2>1 DEF CompleteFromUpdater, CompleteDirect, TypeOK, StoreKept
  <2> QED
    BY <1>7, <2>1, <2>2, MoveFlow
       DEF CompleteFromUpdater, CompleteDirect, Moves, StoreKept
<1>8. CASE BootReconcile
  <2>1. StoreKept /\ NoNewOrphan(Jobs)
    BY <1>8, BulkOperations DEF BootReconcile, Interrupted, TypeOK
  <2>2. TypeOK'
    BY <1>8, <2>1 DEF BootReconcile, TypeOK, StoreKept
  <2> QED
    BY <1>8, <2>1, <2>2, MoveFlow DEF BootReconcile, Moves, StoreKept
<1>9. CASE BootInterrupted \/ BootStale
  <2>1. Written(Interrupted) \subseteq SUBSET ActiveRows
    BY DEF Written, Interrupted
  <2>2. StoreKept /\ NoNewOrphan(Jobs)
    BY <1>9, <2>1, BulkOperations DEF BootInterrupted, BootStale, TypeOK
  <2>3. TypeOK'
    BY <1>9, <2>2 DEF BootInterrupted, BootStale, TypeOK, StoreKept
  <2> QED
    BY <1>9, <2>2, <2>3, MoveFlow DEF BootInterrupted, BootStale, Moves, StoreKept
<1>10. CASE clearAllJobs \/ clearCompletedJobs
  <2>1. StoreKept /\ NoNewOrphan(Jobs)
    BY <1>10, BulkOperations DEF clearAllJobs, clearCompletedJobs, TypeOK
  <2>2. TypeOK'
    BY <1>10, <2>1 DEF clearAllJobs, clearCompletedJobs, TypeOK, StoreKept
  <2> QED
    BY <1>10, <2>1, <2>2, MoveFlow DEF clearAllJobs, clearCompletedJobs, StoreKept
<1> QED
  BY <1>1, <1>2, <1>3, <1>4, <1>5, <1>6, <1>7, <1>8, <1>9, <1>10

LEMMA ToSetFacts ==
  ASSUME NEW S, NEW s \in Seq(S)
  PROVE  ToSet(s) \subseteq S
BY DEF ToSet

LEMMA AheadJobs ==
  ASSUME TypeOK
  PROVE  Ahead \subseteq Jobs /\ NoJob \notin Ahead
<1>1. \A j \in Jobs : ToSet(SubJobs[j]) \subseteq Jobs
  BY JobQueueAssumption, ToSetFacts
<1>2. ToSet(inbox) \subseteq Jobs /\ ToSet(todo) \subseteq Jobs /\ fresh \subseteq Jobs
  BY ToSetFacts DEF TypeOK
<1> QED
  BY <1>1, <1>2, JobQueueAssumption DEF Ahead, Unsplit, Kids

LEMMA TakeJobFlow ==
  ASSUME FlowInv, MarkNonQueued \/ StartUntracked
  PROVE  FlowInv' /\ NoNewFlight
<1> USE DEF FlowInv, Goto, storeVars, queueVars, webVars
<1> DEFINE j == Head(todo)
<1>1. /\ todo \in Seq(Jobs) /\ todo # <<>> /\ IsInjective(todo)
      /\ mj' = j /\ todo' = Tail(todo) /\ pc = "next"
      /\ UNCHANGED <<storeVars, fresh, inbox, queue, current, locked, merr,
                     updater, webVars, crashes>>
  BY DEF MarkNonQueued, StartUntracked, TypeOK, AheadInv
<1>2. /\ j \in Jobs /\ j \in ToSet(todo) /\ j \notin ToSet(todo')
      /\ ToSet(todo') \subseteq ToSet(todo)
      /\ todo' \in Seq(Jobs) /\ IsInjective(todo')
  BY <1>1, TailFacts
<1>3. \/ pc' = "create" /\ nonQueued' = nonQueued \cup {j}
      \/ pc' = "dispatch" /\ nonQueued' = nonQueued
  BY DEF MarkNonQueued, StartUntracked
<1>4. TypeOK'
  <2>1. nonQueued' \subseteq Jobs
    BY <1>2, <1>3 DEF TypeOK
  <2> QED
    BY <1>1, <1>2, <1>3, <2>1 DEF TypeOK, StoreTypeOK
<1>5. /\ Unsplit' = Unsplit /\ Kids(Unsplit)' = Kids(Unsplit)
      /\ Ahead' \subseteq Ahead /\ j \in Ahead /\ j \notin Ahead'
  BY <1>1, <1>2 DEF Unsplit, Kids, Ahead, AheadInv
<1>6. j \notin recorded /\ j \notin ToSet(queue) /\ j # current /\ j # NoJob
  BY <1>2, <1>5, JobQueueAssumption DEF AheadInv
<1>7. AheadInv'
  BY <1>1, <1>2, <1>5, <1>6 DEF AheadInv
<1>8. SlotInv' /\ QueuedOnce' /\ VisibleInv'
  BY <1>1, <1>3, <1>6 DEF SlotInv, QueuedOnce, VisibleInv, Holding, OwnWork
<1>9. OnlyRecordedKnown'
  BY <1>1 DEF OnlyRecordedKnown, Known, Loaded
<1>10. NoNewFlight
  BY <1>1, <1>2 DEF NoNewFlight, InFlight
<1> QED
  BY <1>4, <1>7, <1>8, <1>9, <1>10

LEMMA CreateRecordFlow ==
  ASSUME FlowInv, CreateRecord
  PROVE  FlowInv' /\ NoNewFlight /\ NoNewOrphan(Jobs)
<1> USE DEF FlowInv, Goto, webVars
<1>1. PICK ok \in StoreOutcomes :
        /\ pc = "create" /\ pc' = "dispatch"
        /\ CreateJobRecord(mj, ok)
        /\ nonQueued' = IF ok THEN nonQueued ELSE nonQueued \ {mj}
        /\ UNCHANGED <<fresh, inbox, queue, current, locked, mj, merr, todo,
                       updater, webVars, crashes>>
  BY DEF CreateRecord
<1>2. mj \in Jobs /\ StoreTypeOK /\ ok \in BOOLEAN
  BY <1>1, StoreOutcomesBoolean DEF TypeOK, SlotInv, Holding
<1>3. /\ StoreTypeOK' /\ OnlyRecordedKnown' /\ NoNewOrphan(Jobs)
      /\ recorded' = IF ok THEN recorded \cup {mj} ELSE recorded
  BY <1>1, <1>2, RecordOperations
<1>4. TypeOK'
  BY <1>1, <1>2, <1>3 DEF TypeOK
<1>5. Unsplit' = Unsplit /\ Kids(Unsplit)' = Kids(Unsplit) /\ Ahead' = Ahead
  BY <1>1 DEF Unsplit, Kids, Ahead
<1>6. AheadInv'
  BY <1>1, <1>3, <1>5 DEF AheadInv
<1>7. SlotInv' /\ QueuedOnce'
  BY <1>1 DEF SlotInv, QueuedOnce, Holding
<1>8. VisibleInv'
  BY <1>1, <1>3 DEF VisibleInv, OwnWork, AheadInv
<1>9. NoNewFlight
  BY <1>1 DEF NoNewFlight, InFlight
<1> QED
  BY <1>3, <1>4, <1>6, <1>7, <1>8, <1>9

LEMMA EnqueueFlow ==
  ASSUME FlowInv, enqueue
  PROVE  FlowInv' /\ NoNewFlight
<1> USE DEF FlowInv, storeVars, webVars
<1>1. /\ pc \in {"enqueue", "dispatch"} /\ pc' = "next"
      /\ nonQueued' = nonQueued \ {mj}
      /\ queue' = Append(queue, mj) /\ mj' = NoJob
      /\ UNCHANGED <<storeVars, fresh, inbox, current, locked, merr, todo, updater,
                     webVars, crashes>>
  BY DEF enqueue
<1>2. mj \in Jobs /\ mj # current /\ mj # NoJob
  BY <1>1 DEF TypeOK, SlotInv, Holding
<1>3. /\ queue' \in Seq(Jobs) /\ IsInjective(queue')
      /\ ToSet(queue') = ToSet(queue) \cup {mj}
  BY <1>1, <1>2, AppendFacts DEF TypeOK, QueuedOnce
<1>4. TypeOK'
  BY <1>1, <1>3 DEF TypeOK, StoreTypeOK
<1>5. Unsplit' = Unsplit /\ Kids(Unsplit)' = Kids(Unsplit) /\ Ahead' = Ahead
  BY <1>1 DEF Unsplit, Kids, Ahead
<1>6. AheadInv'
  BY <1>1, <1>3, <1>5, AheadJobs DEF AheadInv
<1>7. SlotInv'
  BY <1>1 DEF SlotInv, Holding
<1>8. QueuedOnce'
  <2>1. NoJob \notin ToSet(queue')
    BY <1>2, <1>3, JobQueueAssumption DEF TypeOK, ToSet
  <2> QED
    BY <1>1, <1>2, <1>3, <2>1 DEF QueuedOnce
<1>9. VisibleInv' /\ OnlyRecordedKnown'
  BY <1>1 DEF VisibleInv, OwnWork, OnlyRecordedKnown, Known, Loaded
<1>10. NoNewFlight
  <2>1. NoJob \notin recorded
    BY JobQueueAssumption DEF TypeOK, StoreTypeOK
  <2> QED
    BY <1>1, <1>3, <2>1 DEF NoNewFlight, InFlight
<1> QED
  BY <1>4, <1>6, <1>7, <1>8, <1>9, <1>10

LEMMA PumpQueueFlow ==
  ASSUME FlowInv, PumpQueue
  PROVE  FlowInv' /\ NoNewFlight
<1> USE DEF FlowInv, Goto, storeVars, webVars, PumpQueue
<1> DEFINE j == Head(queue)
<1>1. /\ j \in Jobs /\ j \in ToSet(queue) /\ j \notin ToSet(queue')
      /\ ToSet(queue') \subseteq ToSet(queue)
      /\ queue' \in Seq(Jobs) /\ IsInjective(queue')
  BY TailFacts DEF TypeOK, QueuedOnce
<1>2. TypeOK'
  BY <1>1 DEF TypeOK, StoreTypeOK
<1>3. /\ Unsplit' = Unsplit /\ Kids(Unsplit)' = Kids(Unsplit) /\ Ahead' = Ahead
      /\ j \notin Ahead
  BY <1>1 DEF Unsplit, Kids, Ahead, AheadInv
<1>4. AheadInv'
  BY <1>1, <1>3 DEF AheadInv
<1>5. SlotInv' /\ QueuedOnce'
  BY <1>1, JobQueueAssumption DEF SlotInv, QueuedOnce, Holding
<1>6. VisibleInv' /\ OnlyRecordedKnown'
  BY DEF VisibleInv, OwnWork, OnlyRecordedKnown, Known, Loaded
<1>7. NoNewFlight
  BY <1>1 DEF NoNewFlight, InFlight
<1> QED
  BY <1>2, <1>4, <1>5, <1>6, <1>7

\* The loop and the updater exchange the current job, or the job is over.
LEMMA SlotFlow ==
  ASSUME FlowInv, HandOver \/ ReceiveDone \/ ClearNonQueued \/ Unlock
  PROVE  FlowInv' /\ NoNewFlight
<1> USE DEF FlowInv, Goto, storeVars, queueVars, webVars
<1>1. /\ UNCHANGED <<storeVars, fresh, inbox, queue, todo, webVars, crashes>>
      /\ mj' \in {mj, current, NoJob} /\ current' \in {current, NoJob}
  BY DEF HandOver, ReceiveDone, ClearNonQueued, Unlock, SlotInv
<1>2. TypeOK'
  <2>1. StoreTypeOK'
    BY <1>1 DEF TypeOK, StoreTypeOK
  <2>2. CASE HandOver
    BY <2>1, <2>2 DEF HandOver, TypeOK
  <2>3. CASE ReceiveDone
    BY <2>1, <2>3 DEF ReceiveDone, Idle, TypeOK
  <2>4. CASE ClearNonQueued
    BY <2>1, <2>4 DEF ClearNonQueued, TypeOK
  <2>5. CASE Unlock
    BY <2>1, <2>5 DEF Unlock, TypeOK
  <2> QED
    BY <2>2, <2>3, <2>4, <2>5
<1>3. Unsplit' = Unsplit /\ Kids(Unsplit)' = Kids(Unsplit) /\ Ahead' = Ahead
  BY <1>1 DEF Unsplit, Kids, Ahead
<1>4. pc' # "create" /\ pc' \notin OwnWork
  BY DEF HandOver, ReceiveDone, ClearNonQueued, Unlock, OwnWork
<1>5. AheadInv'
  BY <1>1, <1>3, <1>4, AheadJobs DEF AheadInv
<1>6. QueuedOnce'
  <2>1. NoJob \notin ToSet(queue)
    BY JobQueueAssumption DEF TypeOK, ToSet
  <2> QED
    BY <1>1, <2>1 DEF QueuedOnce
<1>7. VisibleInv' /\ OnlyRecordedKnown'
  BY <1>1, <1>4 DEF VisibleInv, OnlyRecordedKnown, Known, Loaded
<1>8. SlotInv'
  <2>1. CASE HandOver
    BY <2>1 DEF HandOver, SlotInv, Holding
  <2>2. CASE ReceiveDone
    BY <2>2 DEF ReceiveDone, Idle, SlotInv, Holding
  <2>3. CASE ClearNonQueued
    BY <2>3 DEF ClearNonQueued, SlotInv, Holding
  <2>4. CASE Unlock
    BY <2>4 DEF Unlock, SlotInv, Holding
  <2> QED
    BY <2>1, <2>2, <2>3, <2>4
<1>9. NoNewFlight
  <2>1. NoJob \notin recorded
    BY JobQueueAssumption DEF TypeOK, StoreTypeOK
  <2>2. CASE HandOver
    BY <2>1, <2>2 DEF HandOver, NoNewFlight, InFlight
  <2>3. CASE ReceiveDone
    BY <2>1, <2>3 DEF ReceiveDone, Idle, NoNewFlight, InFlight
  <2>4. CASE ClearNonQueued \/ Unlock
    BY <2>1, <2>4 DEF ClearNonQueued, Unlock, NoNewFlight, InFlight
  <2> QED
    BY <2>2, <2>3, <2>4
<1> QED
  BY <1>2, <1>5, <1>6, <1>7, <1>8, <1>9

\* The scans and the web handlers read and write the store and nonQueued.
LEMMA ScanFlow ==
  ASSUME FlowInv, NEW s \in Scanners,
         ListActive(s) \/ SubtractRuntime(s) \/ ScanDone(s)
  PROVE  FlowInv' /\ NoNewFlight /\ NoNewOrphan(Jobs) /\ recorded' = recorded
<1> USE DEF FlowInv, Goto, loopVars
<1>1. StoreKept /\ NoNewOrphan(Jobs)
  BY StoreUnchanged DEF ListActive, SubtractRuntime, ScanDone
<1>2. scan' \in [Scanners -> [st : {"idle", "listed", "mark"}, jobs : SUBSET Jobs]]
  <2>1. PICK r \in [st : {"idle", "listed", "mark"}, jobs : SUBSET Jobs] :
          scan' = [scan EXCEPT ![s] = r]
    <3>1. CASE ListActive(s)
      BY <3>1 DEF ListActive, ActiveRows
    <3>2. CASE SubtractRuntime(s)
      BY <3>2 DEF SubtractRuntime, TypeOK
    <3>3. CASE ScanDone(s)
      BY <3>3 DEF ScanDone, NoScan
    <3> QED
      BY <3>1, <3>2, <3>3
  <2> QED
    BY <2>1 DEF TypeOK
<1>3. /\ UNCHANGED <<fresh, inbox, queueVars, mj, merr, todo, updater, del, pending,
                     deleted, crashes>>
      /\ pc' = pc \/ <<pc, pc'>> \in Moves
  BY DEF ListActive, SubtractRuntime, ScanDone, Moves
<1>4. TypeOK'
  BY <1>1, <1>2, <1>3
     DEF TypeOK, StoreKept, queueVars, ListActive, SubtractRuntime, ScanDone
<1> QED
  BY <1>1, <1>3, <1>4, MoveFlow DEF StoreKept

LEMMA MarkOrphanFlow ==
  ASSUME FlowInv, NEW s \in Scanners, NEW j \in scan[s].jobs, NEW ok \in StoreOutcomes,
         MarkJobOrphaned(j, ok),
         scan' = [scan EXCEPT ![s].jobs =
                    IF Known(j) /\ (ok \/ Loaded(j) \notin Active)
                      THEN @ \ {j} ELSE {}],
         UNCHANGED <<fresh, inbox, queueVars, loopVars, updater, del, pending,
                     deleted, crashes>>
  PROVE  FlowInv' /\ NoNewFlight /\ NoNewOrphan(Jobs \ {j}) /\ recorded' = recorded
<1> USE DEF FlowInv, loopVars
<1>1. j \in Jobs /\ ok \in BOOLEAN /\ StoreTypeOK
  BY StoreOutcomesBoolean DEF TypeOK
<1>2. StoreKept /\ NoNewOrphan(Jobs \ {j})
  BY <1>1, RecordOperations
<1>3. scan' \in [Scanners -> [st : {"idle", "listed", "mark"}, jobs : SUBSET Jobs]]
  BY DEF TypeOK
<1>4. TypeOK'
  BY <1>2, <1>3 DEF TypeOK, StoreKept, queueVars
<1> QED
  BY <1>2, <1>4, MoveFlow DEF StoreKept

LEMMA DeleteFlow ==
  ASSUME FlowInv, DeleteInv,
         (\E j \in Jobs : DeleteCheck(j)) \/ DeleteListRuntime \/ RefuseDelete
           \/ DeleteRow \/ \E j \in Jobs : ReportCandidate(j)
  PROVE  FlowInv' /\ NoNewFlight /\ NoNewOrphan(Jobs) /\ recorded' = recorded
<1> USE DEF FlowInv, loopVars
<1>1. CASE (\E j \in Jobs : DeleteCheck(j)) \/ DeleteListRuntime \/ RefuseDelete
  <2>1. StoreKept /\ NoNewOrphan(Jobs)
    BY <1>1, StoreUnchanged DEF DeleteCheck, DeleteListRuntime, RefuseDelete
  <2>2. del' \in [st : {"idle", "checked", "listed", "delete"}, job : Jobs \cup {NoJob}]
    BY <1>1 DEF DeleteCheck, DeleteListRuntime, RefuseDelete, NoDelete, TypeOK
  <2>3. UNCHANGED <<fresh, inbox, queueVars, loopVars, updater, scan, pending,
                    deleted, crashes>>
    BY <1>1 DEF DeleteCheck, DeleteListRuntime, RefuseDelete
  <2>4. TypeOK'
    BY <2>1, <2>2, <2>3 DEF TypeOK, StoreKept, queueVars
  <2> QED
    BY <2>1, <2>3, <2>4, MoveFlow DEF StoreKept
<1>2. CASE DeleteRow
  <2>1. PICK ok \in StoreOutcomes :
          /\ del.st = "delete" /\ DeleteJob(del.job, ok)
          /\ deleted' = IF ok THEN deleted \cup {del.job} ELSE deleted
          /\ del' = NoDelete
          /\ UNCHANGED <<fresh, inbox, queueVars, loopVars, updater, scan, pending,
                         crashes>>
    BY <1>2 DEF DeleteRow
  <2>2. del.job \in Jobs
    BY <2>1 DEF DeleteInv, TypeOK, StoreTypeOK
  <2>3. StoreKept /\ NoNewOrphan(Jobs)
    BY <2>1, <2>2, RecordOperations, StoreOutcomesBoolean DEF TypeOK
  <2>4. TypeOK'
    BY <2>1, <2>2, <2>3 DEF TypeOK, StoreKept, queueVars, NoDelete
  <2> QED
    BY <2>1, <2>3, <2>4, MoveFlow DEF StoreKept
<1>3. CASE \E j \in Jobs : ReportCandidate(j)
  <2>1. PICK j \in Jobs, ok \in StoreOutcomes :
          /\ pending' = pending \ {j}
          /\ UpdateJobProgress(j, ok)
          /\ UNCHANGED <<fresh, inbox, queueVars, loopVars, updater, scan, del,
                         deleted, crashes>>
    BY <1>3 DEF ReportCandidate
  <2>2. StoreKept /\ NoNewOrphan(Jobs)
    BY <2>1, RecordOperations, StoreOutcomesBoolean DEF TypeOK
  <2>3. TypeOK'
    BY <2>1, <2>2 DEF TypeOK, StoreKept, queueVars
  <2> QED
    BY <2>1, <2>2, <2>3, MoveFlow DEF StoreKept
<1> QED
  BY <1>1, <1>2, <1>3

LEMMA RemoveFromQueueFlow ==
  ASSUME FlowInv, RemoveFromQueue
  PROVE  FlowInv' /\ NoNewFlight /\ ~InFlight(del.job)'
<1> USE DEF FlowInv, storeVars, loopVars
<1>1. PICK i \in DOMAIN queue :
        queue[i] = del.job /\ queue' = RemoveAt(queue, i)
  BY DEF RemoveFromQueue
<1>2. /\ nonQueued' = nonQueued \ {del.job}
      /\ del' = [del EXCEPT !.st = "delete"]
      /\ UNCHANGED <<storeVars, fresh, inbox, current, locked, loopVars, updater,
                     scan, pending, deleted, crashes>>
  BY DEF RemoveFromQueue
<1>3. /\ queue' \in Seq(Jobs) /\ ToSet(queue') \subseteq ToSet(queue)
      /\ IsInjective(queue') /\ del.job \in ToSet(queue)
  <2>1. queue \in Seq(Jobs) /\ IsInjective(queue) /\ del.job \in ToSet(queue)
    BY <1>1 DEF TypeOK, QueuedOnce, ToSet
  <2> QED
    BY <1>1, <2>1, RemoveFacts
<1>4. TypeOK'
  <2>1. nonQueued' \subseteq Jobs
    BY <1>2 DEF TypeOK
  <2>2. del' \in [st : {"idle", "checked", "listed", "delete"}, job : Jobs \cup {NoJob}]
    BY <1>2 DEF TypeOK
  <2> QED
    BY <1>2, <1>3, <2>1, <2>2 DEF TypeOK, StoreTypeOK
<1>5. Unsplit' = Unsplit /\ Kids(Unsplit)' = Kids(Unsplit) /\ Ahead' = Ahead
  BY <1>2 DEF Unsplit, Kids, Ahead
<1>6. AheadInv' /\ QueuedOnce'
  BY <1>2, <1>3, <1>5 DEF AheadInv, QueuedOnce
<1>7. SlotInv' /\ OnlyRecordedKnown'
  BY <1>2 DEF SlotInv, OnlyRecordedKnown, Known, Loaded
<1>8. VisibleInv'
  BY <1>2, <1>3 DEF VisibleInv, QueuedOnce
<1>9. NoNewFlight
  BY <1>2, <1>3 DEF NoNewFlight, InFlight
<1>10. ~InFlight(del.job)'
  <2>1. /\ del'.job = del.job /\ del.job \notin ToSet(queue')
        /\ del.job \notin Ahead /\ del.job # current /\ del.job # mj
    <3>1. queue \in Seq(Jobs) /\ IsInjective(queue)
      BY DEF TypeOK, QueuedOnce
    <3>2. del.job \notin ToSet(queue')
      BY <1>1, <3>1, RemoveFacts
    <3>3. del'.job = del.job
      BY <1>2 DEF TypeOK
    <3> QED
      BY <1>3, <3>2, <3>3 DEF AheadInv, QueuedOnce
  <2> QED
    BY <1>2, <2>1 DEF InFlight, Ahead, Unsplit, SlotInv
<1> QED
  BY <1>4, <1>6, <1>7, <1>8, <1>9, <1>10

LEMMA CandidateFlow ==
  ASSUME FlowInv, NEW j \in Jobs, createOrphanCandidateJob(j)
  PROVE  FlowInv' /\ NoNewFlight /\ NoNewOrphan(Jobs) /\ recorded' \subseteq recorded \cup {j}
<1> USE DEF FlowInv, queueVars, loopVars
<1>1. PICK ok \in StoreOutcomes :
        /\ j \in fresh /\ fresh' = fresh \ {j}
        /\ CreateJobRecord(j, ok)
        /\ pending' = IF ok THEN pending \cup {j} ELSE pending
        /\ UNCHANGED <<inbox, queueVars, loopVars, updater, scan, del, deleted,
                       crashes>>
  BY DEF createOrphanCandidateJob
<1>2. /\ StoreTypeOK' /\ OnlyRecordedKnown' /\ NoNewOrphan(Jobs)
      /\ recorded' = IF ok THEN recorded \cup {j} ELSE recorded
  BY <1>1, RecordOperations, StoreOutcomesBoolean DEF TypeOK
<1>3. TypeOK'
  BY <1>1, <1>2 DEF TypeOK
<1>4. /\ Unsplit' = Unsplit \ {j} /\ j \in Unsplit
      /\ Kids(Unsplit)' = Kids(Unsplit')
      /\ Kids(Unsplit') \subseteq Kids(Unsplit)
  BY <1>1 DEF Unsplit, Kids, AheadInv
<1>5. j \notin Kids(Unsplit)
  <2>1. Unsplit \subseteq Jobs
    BY ToSetFacts DEF TypeOK, Unsplit
  <2> QED
    BY <1>4, <2>1 DEF AheadInv, Kids, Children
<1>6. Ahead' \subseteq Ahead \ {j} /\ j \in Ahead
  BY <1>1, <1>4, <1>5 DEF Ahead, AheadInv
<1>7. AheadInv'
  BY <1>1, <1>2, <1>4, <1>6 DEF AheadInv
<1>8. SlotInv' /\ QueuedOnce'
  BY <1>1 DEF SlotInv, QueuedOnce
<1>9. VisibleInv'
  BY <1>1, <1>2, <1>6 DEF VisibleInv, AheadInv
<1>10. NoNewFlight
  BY <1>1 DEF NoNewFlight, InFlight
<1> QED
  BY <1>2, <1>3, <1>7, <1>8, <1>9, <1>10

LEMMA CrashFlow ==
  ASSUME FlowInv, Crash
  PROVE  FlowInv' /\ NoNewFlight /\ NoNewOrphan(Jobs) /\ recorded' = recorded
<1> USE DEF FlowInv, Crash
<1>1. StoreKept /\ NoNewOrphan(Jobs)
  BY BulkOperations DEF TypeOK
<1>2. ToSet(<<>>) = {} /\ IsInjective(<<>>)
  BY DEF ToSet, IsInjective
<1>3. TypeOK'
  <2>1. /\ Idle \in [st : {"idle", "work", "done"}, job : Jobs \cup {NoJob},
                    err : BOOLEAN]
        /\ NoDelete \in [st : {"idle", "checked", "listed", "delete"},
                         job : Jobs \cup {NoJob}]
        /\ scan' \in [Scanners -> [st : {"idle", "listed", "mark"}, jobs : SUBSET Jobs]]
    BY DEF Idle, NoScan, NoDelete
  <2>2. <<>> \in Seq(Jobs) /\ crashes' \in Nat
    BY DEF TypeOK
  <2> QED
    BY <1>1, <2>1, <2>2 DEF StoreKept, TypeOK
<1>4. /\ Unsplit' \subseteq Unsplit /\ Kids(Unsplit)' \subseteq Kids(Unsplit)
      /\ Ahead' \subseteq Ahead
  BY <1>2 DEF Unsplit, Kids, Ahead
<1>5. AheadInv'
  BY <1>1, <1>2, <1>4, AheadJobs DEF AheadInv, StoreKept
<1>6. SlotInv' /\ QueuedOnce' /\ VisibleInv'
  BY <1>2 DEF SlotInv, QueuedOnce, VisibleInv, Idle, Holding, OwnWork
<1>7. NoNewFlight
  BY <1>2, JobQueueAssumption DEF NoNewFlight, InFlight, Idle, TypeOK, StoreTypeOK
<1> QED
  BY <1>1, <1>3, <1>5, <1>6, <1>7 DEF StoreKept

-----------------------------------------------------------------------------
(* What the parts of the invariant say together. *)

\* A recorded job in flight is reported by GetRuntimeJobIDs.
LEMMA RecordedVisible ==
  ASSUME FlowInv, NEW j \in recorded, InFlight(j)
  PROVE  j \in Runtime
<1>1. j \in Jobs /\ j # NoJob
  BY JobQueueAssumption DEF FlowInv, TypeOK, StoreTypeOK
<1>2. j \notin ToSet(inbox) \cup ToSet(todo)
  BY DEF FlowInv, AheadInv, Ahead, Unsplit
<1>3. CASE j \in ToSet(queue)
  BY <1>3 DEF Runtime
<1>4. CASE updater.st # "idle" /\ updater.job = j
  BY <1>1, <1>4 DEF Runtime, FlowInv, SlotInv
<1>5. CASE mj = j /\ pc \notin {"finclear", "unlock"}
  <2>1. pc \in Holding
    BY <1>1, <1>5 DEF FlowInv, SlotInv
  <2>2. j \in nonQueued \cup {current}
    BY <1>5, <2>1 DEF FlowInv, SlotInv, VisibleInv, Holding, OwnWork
  <2> QED
    BY <1>1, <2>2 DEF Runtime
<1> QED
  BY <1>2, <1>3, <1>4, <1>5 DEF InFlight

\* Only a scan that is marking can make a record orphaned.
Marking == \E s \in Scanners : \E j \in scan[s].jobs :
             scan[s].st = "mark" /\ NoNewOrphan(Jobs \ {j}) /\ j \in recorded

LEMMA StepFacts ==
  ASSUME FlowInv, ScanInv, DeleteInv, [Next]_vars
  PROVE  /\ FlowInv' /\ NoNewFlight /\ recorded \subseteq recorded'
         /\ NoNewOrphan(Jobs) \/ Marking
<1>1. CASE UNCHANGED vars
  <2>1. FlowInv'
    BY <1>1 DEF vars, storeVars, loopStateVars, queueVars, loopVars, webVars, FlowInv,
       TypeOK, StoreTypeOK, OnlyRecordedKnown, Known, Loaded, SlotInv, AheadInv,
       Ahead, Unsplit, Kids, QueuedOnce, VisibleInv
  <2>2. NoNewFlight
    BY <1>1 DEF vars, loopStateVars, queueVars, loopVars, NoNewFlight, InFlight
  <2> QED
    BY <1>1, <2>1, <2>2, StoreUnchanged DEF vars, StoreKept
<1>2. CASE \E j \in Jobs : AddAction(j)
  BY <1>2, AddActionFlow, StoreUnchanged DEF AddAction, StoreKept
<1>3. CASE ReceiveJob
  BY <1>3, ReceiveJobFlow, StoreUnchanged DEF ReceiveJob, StoreKept
<1>4. CASE MarkNonQueued \/ StartUntracked
  BY <1>4, TakeJobFlow, StoreUnchanged DEF MarkNonQueued, StartUntracked, StoreKept
<1>5. CASE CreateRecord
  BY <1>5, CreateRecordFlow DEF CreateRecord, CreateJobRecord
<1>6. CASE enqueue
  BY <1>6, EnqueueFlow, StoreUnchanged DEF enqueue, StoreKept
<1>7. CASE PumpQueue
  BY <1>7, PumpQueueFlow, StoreUnchanged DEF PumpQueue, StoreKept
<1>8. CASE HandOver \/ ReceiveDone \/ ClearNonQueued \/ Unlock
  BY <1>8, SlotFlow, StoreUnchanged
     DEF HandOver, ReceiveDone, ClearNonQueued, Unlock, StoreKept
<1>9. CASE \/ NothingLeft \/ DispatchPup \/ DirectLog \/ DirectFinish \/ PumpLog
           \/ UpdaterLog \/ UpdaterFinish \/ FinishedLog \/ CompleteFromUpdater
           \/ LogError \/ TestActive \/ CompleteDirect
           \/ BootReconcile \/ BootInterrupted \/ BootStale
           \/ clearAllJobs \/ clearCompletedJobs
  BY <1>9, StillFlow
<1>10. CASE \E s \in Scanners : ListActive(s) \/ SubtractRuntime(s) \/ ScanDone(s)
  BY <1>10, ScanFlow
<1>11. CASE \E s \in Scanners : MarkOrphan(s)
  <2>1. PICK s \in Scanners : MarkOrphan(s)
    BY <1>11
  <2>2. PICK j \in scan[s].jobs, ok \in StoreOutcomes :
          /\ scan[s].st = "mark" /\ MarkJobOrphaned(j, ok)
          /\ scan' = [scan EXCEPT ![s].jobs =
                        IF Known(j) /\ (ok \/ Loaded(j) \notin Active)
                          THEN @ \ {j} ELSE {}]
          /\ UNCHANGED <<fresh, inbox, queueVars, loopVars, updater, del, pending,
                         deleted, crashes>>
    BY <2>1 DEF MarkOrphan
  <2>3. FlowInv' /\ NoNewFlight /\ NoNewOrphan(Jobs \ {j}) /\ recorded' = recorded
    BY <2>2, MarkOrphanFlow
  <2> QED
    BY <2>2, <2>3 DEF Marking, ScanInv
<1>12. CASE \/ (\E j \in Jobs : DeleteCheck(j)) \/ DeleteListRuntime \/ RefuseDelete
            \/ DeleteRow \/ \E j \in Jobs : ReportCandidate(j)
  BY <1>12, DeleteFlow
<1>13. CASE RemoveFromQueue
  BY <1>13, RemoveFromQueueFlow, StoreUnchanged DEF RemoveFromQueue, StoreKept
<1>14. CASE \E j \in Jobs : createOrphanCandidateJob(j)
  BY <1>14, CandidateFlow DEF createOrphanCandidateJob, CreateJobRecord
<1>15. CASE Crash
  BY <1>15, CrashFlow
<1> QED
  BY <1>1, <1>2, <1>3, <1>4, <1>5, <1>6, <1>7, <1>8, <1>9, <1>10, <1>11, <1>12,
     <1>13, <1>14, <1>15 DEF Next, MainLoop, Updater, Scan, Web

\* No step makes a record orphaned whose job is in flight before or after it.
LEMMA OrphansOutOfFlight ==
  ASSUME IInv, [Next]_vars, NEW j \in Jobs,
         InFlight(j) \/ InFlight(j)'
  PROVE  db'[j] # "orphaned" /\ cache'[j] # "orphaned"
<1>1. FlowInv /\ ScanInv /\ DeleteInv /\ NoOrphanInFlight
  BY DEF IInv
<1>2. FlowInv' /\ NoNewFlight /\ (NoNewOrphan(Jobs) \/ Marking)
  BY <1>1, StepFacts
<1>3. db[j] # "orphaned" /\ cache[j] # "orphaned"
  <2>1. CASE j \in recorded
    BY <1>1, <1>2, <2>1 DEF NoNewFlight, NoOrphanInFlight
  <2>2. CASE j \notin recorded
    <3>1. ~Known(j)
      BY <1>1, <2>2 DEF FlowInv, OnlyRecordedKnown
    <3> QED
      BY <3>1 DEF Known, Loaded, Absent
  <2> QED
    BY <2>1, <2>2
<1>4. CASE NoNewOrphan(Jobs)
  BY <1>3, <1>4 DEF NoNewOrphan
<1>5. CASE Marking
  <2>1. PICK s \in Scanners : \E i \in scan[s].jobs :
          scan[s].st = "mark" /\ NoNewOrphan(Jobs \ {i}) /\ i \in recorded
    BY <1>5 DEF Marking
  <2>2. PICK i \in scan[s].jobs :
         scan[s].st = "mark" /\ NoNewOrphan(Jobs \ {i}) /\ i \in recorded
    BY <2>1
  <2>3. ~InFlight(i) /\ ~InFlight(i)'
    BY <1>1, <1>2, <2>2 DEF ScanInv, NoNewFlight
  <2>4. j # i
    BY <2>3
  <2> QED
    BY <1>3, <2>2, <2>4 DEF NoNewOrphan
<1> QED
  BY <1>2, <1>4, <1>5

LEMMA ScanStep ==
  ASSUME IInv, [Next]_vars
  PROVE  ScanInv'
<1>1. FlowInv /\ ScanInv /\ NoNewFlight /\ recorded \subseteq recorded'
  BY StepFacts DEF IInv
<1> SUFFICES ASSUME NEW s \in Scanners
             PROVE  /\ scan'[s].jobs \subseteq recorded'
                    /\ scan'[s].st = "mark" => \A j \in scan'[s].jobs : ~InFlight(j)'
  BY DEF ScanInv
<1>2. scan \in [Scanners -> [st : {"idle", "listed", "mark"}, jobs : SUBSET Jobs]]
  BY <1>1 DEF FlowInv, TypeOK
<1>3. /\ scan[s].jobs \subseteq recorded
      /\ scan[s].st = "mark" => \A j \in scan[s].jobs : ~InFlight(j)
  BY <1>1 DEF ScanInv
<1>4. \/ scan'[s].jobs \subseteq scan[s].jobs /\ scan'[s].st = scan[s].st
      \/ scan'[s] = NoScan
      \/ scan'[s] = [st |-> "listed", jobs |-> ActiveRows]
      \/ scan'[s] = [st |-> "mark", jobs |-> scan[s].jobs \ Runtime]
  <2>1. CASE UNCHANGED scan
    BY <2>1
  <2>2. CASE \E r \in Scanners : Scan(r)
    <3>1. PICK r \in Scanners : Scan(r)
      BY <2>2
    <3>2. CASE ListActive(r) \/ SubtractRuntime(r) \/ ScanDone(r)
      BY <1>2, <3>2 DEF ListActive, SubtractRuntime, ScanDone
    <3>3. CASE MarkOrphan(r)
      BY <1>2, <3>3 DEF MarkOrphan
    <3> QED
      BY <3>1, <3>2, <3>3 DEF Scan
  <2>3. CASE Crash
    BY <2>3 DEF Crash
  <2> QED
    BY <2>1, <2>2, <2>3
       DEF Next, vars, loopStateVars, webVars, AddAction, MainLoop, ReceiveJob,
           MarkNonQueued, StartUntracked, NothingLeft, CreateRecord, DispatchPup,
           enqueue, DirectLog, DirectFinish, PumpQueue, PumpLog, HandOver,
           ReceiveDone, FinishedLog, CompleteFromUpdater, LogError, TestActive,
           CompleteDirect, ClearNonQueued, Unlock, BootReconcile, BootInterrupted,
           BootStale, Updater, UpdaterLog, UpdaterFinish, Web, DeleteCheck,
           DeleteListRuntime, RemoveFromQueue, RefuseDelete, DeleteRow,
           clearAllJobs, clearCompletedJobs, createOrphanCandidateJob,
           ReportCandidate
<1>5. ActiveRows \subseteq recorded
  BY <1>1 DEF FlowInv, OnlyRecordedKnown, Known, Loaded, ActiveRows, Active, Absent,
              TypeOK, StoreTypeOK
<1>6. \A j \in scan[s].jobs \ Runtime : ~InFlight(j)
  BY <1>1, <1>3, RecordedVisible
<1>7. scan'[s].jobs \subseteq recorded
  BY <1>3, <1>4, <1>5 DEF NoScan
<1>8. scan'[s].st = "mark" => \A j \in scan'[s].jobs : ~InFlight(j)
  BY <1>3, <1>4, <1>6 DEF NoScan
<1> QED
  BY <1>1, <1>7, <1>8 DEF NoNewFlight

LEMMA DeleteStep ==
  ASSUME IInv, [Next]_vars
  PROVE  DeleteInv'
<1>1. /\ FlowInv /\ DeleteInv /\ FlowInv' /\ NoNewFlight
      /\ recorded \subseteq recorded'
  BY StepFacts DEF IInv
<1>2. \A j \in recorded : ~InFlight(j) => ~InFlight(j)'
  BY <1>1 DEF NoNewFlight
<1>3. del \in [st : {"idle", "checked", "listed", "delete"}, job : Jobs \cup {NoJob}]
  BY <1>1 DEF FlowInv, TypeOK
<1>4. CASE UNCHANGED <<del, deleted>>
  BY <1>1, <1>2, <1>4 DEF DeleteInv, DeletedNeverRuns
<1>5. CASE \E j \in Jobs : DeleteCheck(j)
  <2>1. PICK j \in Jobs : Loaded(j) = "queued" /\ del' = [st |-> "checked", job |-> j]
                          /\ UNCHANGED deleted
    BY <1>5 DEF DeleteCheck
  <2>2. j \in recorded
    BY <1>1, <2>1 DEF FlowInv, OnlyRecordedKnown, Known, Absent
  <2> QED
    BY <1>1, <1>2, <2>1, <2>2 DEF DeleteInv, DeletedNeverRuns
<1>6. CASE DeleteListRuntime
  <2>1. /\ del.st = "checked" /\ UNCHANGED deleted
        /\ del' = [del EXCEPT !.st = IF del.job \in Runtime THEN "listed" ELSE "delete"]
    BY <1>6 DEF DeleteListRuntime
  <2>2. del.job \in recorded /\ (del.job \notin Runtime => ~InFlight(del.job))
    BY <1>1, <2>1, RecordedVisible DEF DeleteInv
  <2>3. del'.job = del.job /\ del'.st # "idle"
        /\ (del'.st = "delete" => del.job \notin Runtime)
    BY <1>3, <2>1
  <2> QED
    BY <1>1, <1>2, <2>1, <2>2, <2>3 DEF DeleteInv, DeletedNeverRuns
<1>7. CASE RemoveFromQueue
  <2>1. del.st = "listed" /\ UNCHANGED deleted /\ del' = [del EXCEPT !.st = "delete"]
    BY <1>7 DEF RemoveFromQueue
  <2>2. del.job \in recorded /\ ~InFlight(del.job)' /\ del'.job = del.job
    BY <1>1, <1>3, <1>7, <2>1, RemoveFromQueueFlow DEF DeleteInv
  <2> QED
    BY <1>1, <1>2, <2>1, <2>2 DEF DeleteInv, DeletedNeverRuns
<1>8. CASE RefuseDelete
  BY <1>1, <1>2, <1>8 DEF RefuseDelete, NoDelete, DeleteInv, DeletedNeverRuns
<1>9. CASE DeleteRow
  <2>1. /\ del.st = "delete" /\ del' = NoDelete
        /\ deleted' \subseteq deleted \cup {del.job}
    BY <1>9 DEF DeleteRow
  <2>2. del.job \in recorded /\ ~InFlight(del.job)
    BY <1>1, <2>1 DEF DeleteInv
  <2> QED
    BY <1>1, <1>2, <2>1, <2>2 DEF NoDelete, DeleteInv, DeletedNeverRuns
<1>10. CASE Crash
  BY <1>1, <1>2, <1>10 DEF Crash, NoDelete, DeleteInv, DeletedNeverRuns
<1> QED
  BY <1>4, <1>5, <1>6, <1>7, <1>8, <1>9, <1>10
     DEF Next, vars, loopStateVars, webVars, AddAction, MainLoop, ReceiveJob,
         MarkNonQueued, StartUntracked, NothingLeft, CreateRecord, DispatchPup,
         enqueue, DirectLog, DirectFinish, PumpQueue, PumpLog, HandOver,
         ReceiveDone, FinishedLog, CompleteFromUpdater, LogError, TestActive,
         CompleteDirect, ClearNonQueued, Unlock, BootReconcile, BootInterrupted,
         BootStale, Updater, UpdaterLog, UpdaterFinish, Web, clearAllJobs,
         clearCompletedJobs, createOrphanCandidateJob, ReportCandidate, Scan,
         ListActive, SubtractRuntime, MarkOrphan, ScanDone

-----------------------------------------------------------------------------
(* The theorems. *)
LEMMA InitInv == Init => IInv
<1> SUFFICES ASSUME Init PROVE IInv
  OBVIOUS
<1> USE DEF Init, StoreInit
<1>1. ToSet(<<>>) = {} /\ IsInjective(<<>>) /\ <<>> \in Seq(Jobs)
  BY DEF ToSet, IsInjective
<1>2. TypeOK
  <2>1. /\ Idle \in [st : {"idle", "work", "done"}, job : Jobs \cup {NoJob},
                    err : BOOLEAN]
        /\ NoDelete \in [st : {"idle", "checked", "listed", "delete"},
                         job : Jobs \cup {NoJob}]
        /\ scan \in [Scanners -> [st : {"idle", "listed", "mark"}, jobs : SUBSET Jobs]]
    BY DEF Idle, NoScan, NoDelete
  <2>2. StoreTypeOK
    BY DEF StoreTypeOK, Absent
  <2> QED
    BY <1>1, <2>1, <2>2 DEF TypeOK
<1>3. OnlyRecordedKnown
  BY DEF OnlyRecordedKnown, Known, Loaded, Absent
<1>4. SlotInv /\ QueuedOnce /\ VisibleInv
  BY <1>1 DEF SlotInv, QueuedOnce, VisibleInv, Idle, Holding, OwnWork
<1>5. AheadInv
  <2>1. Unsplit = Jobs \ Children
    BY <1>1 DEF Unsplit
  <2> QED
    BY <1>1, <1>2, <2>1, AheadJobs DEF AheadInv
<1>6. ScanInv /\ DeleteInv /\ NoOrphanInFlight
  BY <1>1 DEF ScanInv, NoScan, DeleteInv, NoDelete, DeletedNeverRuns,
     NoOrphanInFlight, Absent
<1> QED
  BY <1>2, <1>3, <1>4, <1>5, <1>6 DEF IInv, FlowInv

LEMMA StepInv == IInv /\ [Next]_vars => IInv'
<1> SUFFICES ASSUME IInv, [Next]_vars PROVE IInv'
  OBVIOUS
<1>1. FlowInv'
  BY StepFacts DEF IInv
<1>2. ScanInv' /\ DeleteInv'
  BY ScanStep, DeleteStep
<1>3. NoOrphanInFlight'
  BY OrphansOutOfFlight DEF NoOrphanInFlight
<1> QED
  BY <1>1, <1>2, <1>3 DEF IInv

\* IInv is an invariant of the job queue: it is inductive.
THEOREM Invariance == Spec => []IInv
BY InitInv, StepInv, PTL DEF Spec

\* Every variable keeps its type, in every interleaving.
THEOREM Typing == Spec => []TypeOK
<1>1. IInv => TypeOK
  BY DEF IInv, FlowInv
<1> QED
  BY <1>1, Invariance, PTL

\* A job that is being processed and has an active row is always reported by
\* GetRuntimeJobIDs: dispatch, queue, hand-over and completion leave no gap.
THEOREM Visibility == Spec => []LiveJobsVisible
<1>1. IInv => LiveJobsVisible
  <2> SUFFICES ASSUME IInv, NEW j \in Jobs, InFlight(j), db[j] \in Active
               PROVE  j \in Runtime
    BY DEF LiveJobsVisible
  <2>1. j \in recorded
    BY DEF IInv, FlowInv, OnlyRecordedKnown, Known, Loaded, Active, Absent
  <2> QED
    BY <2>1, RecordedVisible DEF IInv
<1> QED
  BY <1>1, Invariance, PTL

\* The slot jobInProgress, the current job and the updater always agree, and
\* the loop hands a job over only while the updater is idle.
THEOREM MutualExclusion == Spec => []OneAtATime
<1>1. IInv => OneAtATime
  BY DEF IInv, FlowInv, SlotInv, OneAtATime
<1> QED
  BY <1>1, Invariance, PTL

\* A job that deleteJob reported as deleted is processed no more.
THEOREM Deletion == Spec => []DeletedNeverRuns
<1>1. IInv => DeletedNeverRuns
  BY DEF IInv, DeleteInv
<1> QED
  BY <1>1, Invariance, PTL

\* No scan marks a job as orphaned that is still being processed, whatever
\* the interleaving of its reads with the main loop and the web handlers.
THEOREM OrphanDetection == Spec => NoLiveJobOrphaned
<1>1. IInv /\ [Next]_vars
        => [\A j \in Jobs : db[j] # "orphaned" /\ db'[j] = "orphaned"
                              => ~InFlight(j)]_vars
  BY OrphansOutOfFlight
<1> QED
  BY <1>1, Invariance, PTL DEF Spec, NoLiveJobOrphaned

-----------------------------------------------------------------------------
(* The queue as a user of the job manager. *)
\* The loop holds a job, and the updater works on one, only if it is a job.
LEMMA Workers ==
  ASSUME FlowInv
  PROVE  /\ pc \in Holding => mj \in Jobs
         /\ updater.st # "idle" => updater.job \in Jobs
BY DEF FlowInv, TypeOK, SlotInv

\* No step but Crash leads back before the recoveries, and until they are
\* through no goroutine has anything to do.
LEMMA BootStep ==
  ASSUME FlowInv, BootInv, [Next]_vars
  PROVE  BootInv'
<1> USE DEF Up, Goto, loopVars, webVars, queueVars, loopStateVars, vars, storeVars
<1>1. CASE Up /\ ~Crash
  <2>1. CASE MainLoop
    BY <1>1, <2>1
       DEF MainLoop, ReceiveJob, MarkNonQueued, StartUntracked, NothingLeft,
           CreateRecord, DispatchPup, enqueue, DirectLog, DirectFinish, PumpQueue,
           PumpLog, HandOver, ReceiveDone, FinishedLog, CompleteFromUpdater,
           LogError, TestActive, CompleteDirect, ClearNonQueued, Unlock,
           BootReconcile, BootInterrupted, BootStale, BootInv
  <2>2. CASE \E s \in Scanners : Scan(s)
    BY <1>1, <2>2 DEF Scan, ListActive, SubtractRuntime, MarkOrphan, ScanDone, BootInv
  <2>3. CASE (\E j \in Jobs : AddAction(j)) \/ Updater \/ Web \/ UNCHANGED vars
    <3>1. CASE Web
      BY <1>1, <3>1
         DEF Web, DeleteCheck, DeleteListRuntime, RemoveFromQueue, RefuseDelete,
             DeleteRow, clearAllJobs, clearCompletedJobs, createOrphanCandidateJob,
             ReportCandidate, BootInv
    <3>2. CASE \E j \in Jobs : AddAction(j)
      BY <1>1, <3>2 DEF AddAction, BootInv
    <3>4. CASE Updater
      <4>1. pc' = pc
        <5>1. CASE UpdaterLog
          BY <5>1 DEF UpdaterLog
        <5>2. CASE UpdaterFinish
          BY <5>2 DEF UpdaterFinish
        <5> QED BY <3>4, <5>1, <5>2 DEF Updater
      <4> QED BY <1>1, <4>1 DEF BootInv
    <3>3. CASE UNCHANGED vars
      BY <1>1, <3>3 DEF BootInv
    <3> QED BY <2>3, <3>1, <3>2, <3>3, <3>4
  <2> QED BY <1>1, <2>1, <2>2, <2>3 DEF Next
<1>2. CASE Crash
  BY <1>2 DEF Crash, NewJobManager, BootInv
<1>3. CASE ~Up /\ ~Crash
  <2>1. /\ inbox = <<>> /\ queue = <<>> /\ todo = <<>> /\ mj = NoJob
        /\ updater.st = "idle" /\ del.st = "idle" /\ pending = {}
        /\ \A s \in Scanners : scan[s].st = "idle"
        /\ \A j \in Jobs : cache[j] = Absent
    BY <1>3 DEF BootInv, Idle, NoDelete, NoScan
  <2>2. BootReconcile \/ BootInterrupted \/ BootStale \/ UNCHANGED vars
    BY <1>3, <2>1
       DEF Next, AddAction, MainLoop, ReceiveJob, MarkNonQueued, StartUntracked,
           NothingLeft, CreateRecord, DispatchPup, enqueue, DirectLog, DirectFinish,
           PumpQueue, PumpLog, HandOver, ReceiveDone, FinishedLog,
           CompleteFromUpdater, LogError, TestActive, CompleteDirect,
           ClearNonQueued, Unlock, Updater, UpdaterLog, UpdaterFinish, Web,
           DeleteCheck, DeleteListRuntime, RemoveFromQueue, RefuseDelete, DeleteRow,
           clearAllJobs, clearCompletedJobs, createOrphanCandidateJob,
           ReportCandidate, Scan, ListActive, SubtractRuntime, MarkOrphan, ScanDone
  <2>3. CASE UNCHANGED vars
    BY <2>3 DEF BootInv
  <2>4. CASE BootReconcile
    BY <1>3, <2>4 DEF BootReconcile, ReconcileCompletedSystemUpdateJobs, BootInv
  <2>5. CASE BootInterrupted
    BY <1>3, <2>5 DEF BootInterrupted, ClearInterruptedSystemJobs, BootInv
  <2>6. CASE BootStale
    BY <1>3, <2>6 DEF BootStale, BootInv
  <2> QED BY <2>2, <2>3, <2>4, <2>5, <2>6
<1> QED BY <1>1, <1>2, <1>3

LEMMA BootInvariant == Spec => []BootInv
<1>1. Init => BootInv
  BY DEF Init, StoreInit, BootInv
<1>2. IInv /\ BootInv /\ [Next]_vars => BootInv'
  BY BootStep DEF IInv
<1> QED BY <1>1, <1>2, Invariance, PTL DEF Spec

\* What a step of the queue asks of the job manager: one of its operations,
\* for a job that exists, and a record only once for each job.
ManagerCall ==
  \/ \E j \in Jobs : JobCall(j)
  \/ ClearAllJobs \/ NewJobManager \/ RecoveryCall
  \/ "clearCompleted" \in WebCalls /\ \E S \in SUBSET Jobs : ClearCompletedJobs(S)
  \/ UNCHANGED storeVars

LEMMA StoreEffect ==
  ASSUME IInv, BootInv, [Next]_vars
  PROVE  ManagerCall
<1> USE DEF Goto, loopVars, webVars, queueVars, loopStateVars
<1>0. /\ FlowInv
      /\ pc \in Holding => mj \in Jobs
      /\ updater.st # "idle" => updater.job \in Jobs
  BY Workers DEF IInv
<1>1. CASE UNCHANGED storeVars
  BY <1>1 DEF ManagerCall
<1>2. CASE CreateRecord
  <2>1. mj \in Jobs /\ mj \notin recorded
    BY <1>0, <1>2 DEF CreateRecord, Holding, FlowInv, AheadInv
  <2>2. JobCall(mj)
    BY <1>2, <2>1 DEF CreateRecord, JobCall
  <2> QED BY <2>1, <2>2 DEF ManagerCall
<1>3. CASE DispatchPup /\ ~UNCHANGED storeVars
  BY <1>0, <1>3 DEF DispatchPup, Holding, JobCall, ManagerCall
<1>4. CASE DirectLog \/ PumpLog \/ FinishedLog
  BY <1>0, <1>4 DEF DirectLog, PumpLog, FinishedLog, Holding, JobCall, ManagerCall
<1>5. CASE LogError /\ ~UNCHANGED storeVars
  BY <1>0, <1>5 DEF LogError, Holding, JobCall, ManagerCall
<1>6. CASE UpdaterLog
  BY <1>0, <1>6 DEF UpdaterLog, JobCall, ManagerCall
<1>7. CASE CompleteFromUpdater \/ CompleteDirect
  <2>1. mj \in Jobs /\ merr \in BOOLEAN
    BY <1>0, <1>7 DEF CompleteFromUpdater, CompleteDirect, Holding, FlowInv, TypeOK
  <2>2. JobCall(mj)
    BY <1>7, <2>1 DEF CompleteFromUpdater, CompleteDirect, JobCall
  <2> QED BY <2>1, <2>2 DEF ManagerCall
<1>8. CASE \E s \in Scanners : MarkOrphan(s)
  <2>1. PICK s \in Scanners : \E j \in scan[s].jobs, ok \in StoreOutcomes :
               MarkJobOrphaned(j, ok)
    BY <1>8 DEF MarkOrphan
  <2>2. scan[s].jobs \subseteq Jobs
    BY <1>0 DEF FlowInv, TypeOK
  <2> QED BY <2>1, <2>2 DEF JobCall, ManagerCall
<1>9. CASE DeleteRow
  <2>1. PICK ok \in StoreOutcomes : del.st = "delete" /\ DeleteJob(del.job, ok)
    BY <1>9 DEF DeleteRow
  <2>2. del.job \in Jobs
    BY <2>1 DEF IInv, FlowInv, TypeOK, StoreTypeOK, DeleteInv
  <2> QED BY <2>1, <2>2 DEF JobCall, ManagerCall
<1>10. CASE \E j \in Jobs : createOrphanCandidateJob(j)
  <2>1. PICK j \in Jobs, ok \in StoreOutcomes : j \in fresh /\ CreateJobRecord(j, ok)
    BY <1>10 DEF createOrphanCandidateJob
  <2>2. j \notin recorded
    BY <1>0, <2>1 DEF FlowInv, AheadInv, Ahead, Unsplit
  <2> QED BY <2>1, <2>2 DEF JobCall, ManagerCall
<1>11. CASE \E j \in Jobs : ReportCandidate(j)
  BY <1>11 DEF ReportCandidate, JobCall, ManagerCall
<1>12. CASE clearAllJobs \/ clearCompletedJobs
  BY <1>12 DEF clearAllJobs, clearCompletedJobs, ManagerCall
<1>13. CASE Crash
  BY <1>13 DEF Crash, ManagerCall
<1>14. CASE BootReconcile \/ BootInterrupted \/ BootStale
  <2>1. \A j \in Jobs : cache[j] = Absent
    BY <1>14 DEF BootReconcile, BootInterrupted, BootStale, Up, BootInv
  <2>2. Interrupted \subseteq ActiveRows /\ ActiveRows \subseteq Jobs
    BY DEF Interrupted, ActiveRows
  <2>3. RecoveryCall
    BY <1>14, <2>1, <2>2 DEF BootReconcile, BootInterrupted, BootStale, RecoveryCall
  <2> QED BY <2>3 DEF ManagerCall
<1>15. CASE MainLoop
  BY <1>1, <1>2, <1>3, <1>4, <1>5, <1>7, <1>14, <1>15
     DEF MainLoop, ReceiveJob, MarkNonQueued, StartUntracked, NothingLeft, enqueue,
         DirectFinish, PumpQueue, HandOver, ReceiveDone, TestActive,
         ClearNonQueued, Unlock
<1>16. CASE \E s \in Scanners : Scan(s)
  BY <1>1, <1>8, <1>16 DEF Scan, ListActive, SubtractRuntime, ScanDone
<1>17. CASE Web
  BY <1>1, <1>9, <1>10, <1>11, <1>12, <1>17
     DEF Web, DeleteCheck, DeleteListRuntime, RemoveFromQueue, RefuseDelete
<1>18. CASE (\E j \in Jobs : AddAction(j)) \/ UpdaterFinish \/ UNCHANGED vars
  <2>1. CASE \E j \in Jobs : AddAction(j)
    BY <1>1, <2>1 DEF AddAction
  <2>2. CASE UpdaterFinish
    BY <1>1, <2>2 DEF UpdaterFinish
  <2>3. CASE UNCHANGED vars
    BY <1>1, <2>3 DEF vars
  <2> QED BY <1>18, <2>1, <2>2, <2>3
<1> QED
  BY <1>6, <1>13, <1>15, <1>16, <1>17, <1>18 DEF Next, Updater

\* The queue is a lawful user of the job manager: every step, seen in rows and
\* cache, is a call JobStore allows.  No job is recorded twice (the IDs are
\* random) and the recoveries of a restart run while nothing is cached.
THEOREM QueueUsesStore == Spec => StoreSpec
<1>1. Init => StoreInit
  BY DEF Init
<1>2. IInv /\ BootInv /\ [Next]_vars => [StoreNext]_storeVars
  BY StoreEffect DEF ManagerCall, StoreNext, BulkCall
<1> QED BY <1>1, <1>2, Invariance, BootInvariant, PTL DEF Spec, StoreSpec

\* So what holds of the manager under every sequence of calls holds in the
\* daemon: a record cached as active always has an active row ...
THEOREM NoRevivalFromCache == Spec => []CachedActiveIsStored
BY QueueUsesStore, CacheNeverOutlivesRow

\* ... no late report, completion or recovery brings a deleted job back as an
\* active one ...
THEOREM NoRevivalOfDeleted == Spec => DeletedStaysInactive
BY QueueUsesStore, DeletedIsInactive

\* ... and none takes a finished job back to queued or in_progress.
THEOREM NoRevivalOfFinished == Spec => FinishedStaysFinished
BY QueueUsesStore, FinishedIsFinal

-----------------------------------------------------------------------------
(* JobQueue implements JobSpec. *)

\* No call but clear-completed parts a cached record from its row.
LEMMA CacheStep ==
  ASSUME StoreTypeOK, CacheInv, ManagerCall, CleanCalls
  PROVE  CacheInv'
<1> USE DEF StoreTypeOK, CacheInv, Known, Loaded, SetRow, Status, Active, Terminal,
            Absent
<1>1. ASSUME NEW j \in Jobs, JobCall(j)
      PROVE  CacheInv'
  <2> PICK ok \in StoreOutcomes :
        \/ j \notin recorded /\ CreateJobRecord(j, ok)
        \/ UpdateJobPupID(j, ok)
        \/ UpdateJobProgress(j, ok)
        \/ \E err \in BOOLEAN : CompleteJob(j, err, ok)
        \/ MarkJobOrphaned(j, ok)
        \/ DeleteJob(j, ok)
    BY <1>1 DEF JobCall
  <2>1. CASE CreateJobRecord(j, ok)
    BY <2>1 DEF CreateJobRecord
  <2>2. CASE UpdateJobPupID(j, ok)
    BY <2>2 DEF UpdateJobPupID
  <2>3. CASE UpdateJobProgress(j, ok)
    BY <2>3 DEF UpdateJobProgress
  <2>4. ASSUME NEW err \in BOOLEAN, CompleteJob(j, err, ok)
        PROVE  CacheInv'
    BY <2>4 DEF CompleteJob
  <2>5. CASE MarkJobOrphaned(j, ok)
    BY <2>5 DEF MarkJobOrphaned
  <2>6. CASE DeleteJob(j, ok)
    BY <2>6 DEF DeleteJob
  <2> QED BY <2>1, <2>2, <2>3, <2>4, <2>5, <2>6
<1>2. CASE ClearAllJobs \/ NewJobManager
  BY <1>2 DEF ClearAllJobs, NewJobManager
<1>3. CASE RecoveryCall
  <2>1. \A j \in Jobs : cache[j] = Absent /\ cache'[j] = Absent
    BY <1>3 DEF RecoveryCall, ReconcileCompletedSystemUpdateJobs,
           ClearInterruptedSystemJobs, ClearOrphanedJobs
  <2> QED BY <2>1
<1>4. CASE UNCHANGED storeVars
  BY <1>4 DEF storeVars
<1> QED BY <1>1, <1>2, <1>3, <1>4 DEF ManagerCall, CleanCalls

\* The job in the hands of the loop is nowhere else.
LEMMA HeldOnce ==
  ASSUME FlowInv, mj # NoJob
  PROVE  /\ mj \notin ToSet(inbox) \cup ToSet(todo) \cup ToSet(queue)
         /\ ~(updater.st # "idle" /\ updater.job = mj)
BY DEF FlowInv, AheadInv, Ahead, Unsplit, QueuedOnce, SlotInv

\* Where the loop settles a job that may have got its outcome already.
Closing == {"finerr", "finactive", "fincomplete"}

\* The jobs of S that have an outcome after the step had it before.
NoNewOutcome(S) ==
  \A j \in S : db'[j] \notin Active \cup {Absent} => db'[j] = db[j]

\* Only CompleteJob and MarkJobOrphaned give a job an outcome.
LEMMA NoOutcomeFromReports ==
  ASSUME StoreTypeOK, CacheInv, NEW j \in Jobs, NEW ok \in BOOLEAN
  PROVE  /\ UpdateJobPupID(j, ok) => NoNewOutcome(Jobs)
         /\ UpdateJobProgress(j, ok) => NoNewOutcome(Jobs)
         /\ CreateJobRecord(j, ok) => NoNewOutcome(Jobs)
         /\ DeleteJob(j, ok) => NoNewOutcome(Jobs)
         /\ MarkJobOrphaned(j, ok) => NoNewOutcome(Jobs \ {j})
         /\ \A err \in BOOLEAN : CompleteJob(j, err, ok) => 
               /\ NoNewOutcome(Jobs \ {j})
               /\ db'[j] \in {db[j], Outcome(err)}
<1> USE DEF StoreTypeOK, CacheInv, NoNewOutcome, Known, Loaded, SetRow, Status,
            Active, Terminal, Absent
<1>1. UpdateJobPupID(j, ok) => NoNewOutcome(Jobs)
  BY DEF UpdateJobPupID
<1>2. UpdateJobProgress(j, ok) => NoNewOutcome(Jobs)
  BY DEF UpdateJobProgress
<1>3. CreateJobRecord(j, ok) => NoNewOutcome(Jobs)
  BY DEF CreateJobRecord
<1>4. DeleteJob(j, ok) => NoNewOutcome(Jobs)
  BY DEF DeleteJob
<1>5. MarkJobOrphaned(j, ok) => NoNewOutcome(Jobs \ {j})
  BY DEF MarkJobOrphaned
<1>6. ASSUME NEW err \in BOOLEAN, CompleteJob(j, err, ok)
      PROVE  NoNewOutcome(Jobs \ {j}) /\ db'[j] \in {db[j], Outcome(err)}
  BY <1>6 DEF CompleteJob
<1> QED BY <1>1, <1>2, <1>3, <1>4, <1>5, <1>6

\* A job in flight after the step that has kept an outcome was being closed.
LEMMA OutcomeKept ==
  ASSUME IInv, CacheInv, OutcomeInv, [Next]_vars, NEW j \in Jobs, InFlight(j)',
         db'[j] = db[j], db[j] \notin Active \cup {Absent}
  PROVE  mj = j /\ pc \in Closing /\ db[j] = Outcome(merr)
<1>1. NoNewFlight
  BY StepFacts DEF IInv
<1>2. j \in recorded
  BY DEF IInv, FlowInv, OnlyRecordedKnown, Known, Loaded, TypeOK, StoreTypeOK, Absent
<1>3. InFlight(j)
  BY <1>1, <1>2 DEF NoNewFlight
<1> QED BY <1>3 DEF OutcomeInv, Closing

\* No step gives an outcome to a job in flight but the one that closes it, and
\* what closes it leaves it in the hands of the loop alone.
LEMMA OutcomeStep ==
  ASSUME IInv, BootInv, CacheInv, OutcomeInv, [Next]_vars
  PROVE  OutcomeInv'
<1> USE DEF Goto, loopVars, webVars, queueVars, loopStateVars
<1>0. /\ FlowInv /\ FlowInv'
      /\ pc \in Holding => mj \in Jobs
      /\ updater.st # "idle" => updater.job \in Jobs
      /\ StoreTypeOK
      /\ \A ok \in StoreOutcomes : ok \in BOOLEAN
  BY StepFacts, Workers, StoreOutcomesBoolean DEF IInv, FlowInv, TypeOK
<1>a. NoJob \notin Jobs
  BY JobQueueAssumption
<1> SUFFICES ASSUME NEW j \in Jobs, InFlight(j)', db'[j] \notin Active \cup {Absent}
             PROVE  mj' = j /\ pc' \in Closing /\ db'[j] = Outcome(merr')
  BY DEF OutcomeInv, Closing
<1> DEFINE Goal == mj' = j /\ pc' \in Closing /\ db'[j] = Outcome(merr')
<1>b. db'[j] # "orphaned"
  BY OrphansOutOfFlight
<1>c. mj' = j => pc' \notin {"finclear", "unlock"}
  <2> SUFFICES ASSUME mj' = j, pc' \in {"finclear", "unlock"} PROVE FALSE
    OBVIOUS
  <2>1. mj' # NoJob
    BY <1>a
  <2>2. /\ mj' \notin ToSet(inbox') \cup ToSet(todo') \cup ToSet(queue')
        /\ ~(updater'.st # "idle" /\ updater'.job = mj')
    BY <1>0, <2>1 DEF FlowInv, AheadInv, Ahead, Unsplit, QueuedOnce, SlotInv
  <2> QED BY <2>2 DEF InFlight
<1>1. ASSUME db'[j] = db[j], UNCHANGED <<pc, mj, merr>> \/ pc \notin Closing
      PROVE  Goal
  BY <1>1, OutcomeKept
<1>2. CASE LogError
  <2>1. mj \in Jobs /\ pc = "finerr" /\ pc' = "finactive" /\ UNCHANGED <<mj, merr>>
    BY <1>0, <1>2 DEF LogError, Holding
  <2>2. db'[j] = db[j]
    BY <1>0, <1>2, <2>1, NoOutcomeFromReports DEF LogError, storeVars, NoNewOutcome
  <2> QED BY <2>1, <2>2, OutcomeKept DEF Closing
<1>3. CASE TestActive
  <2>1. /\ UNCHANGED <<storeVars, mj, merr>>
        /\ pc' \in {"fincomplete", "finclear"}
    BY <1>3 DEF TestActive
  <2>2. db'[j] = db[j]
    BY <2>1 DEF storeVars
  <2> QED BY <1>c, <2>1, <2>2, OutcomeKept DEF Closing
<1>4. CASE CompleteFromUpdater
  <2>1. /\ mj \in Jobs /\ merr \in BOOLEAN /\ pc = "complete" /\ pc' = "finerr"
        /\ UNCHANGED <<mj, merr>>
    BY <1>0, <1>4 DEF CompleteFromUpdater, Holding, FlowInv, TypeOK
  <2>2. \/ db'[j] = db[j]
        \/ j = mj /\ db'[j] = Outcome(merr)
    BY <1>0, <1>4, <2>1, NoOutcomeFromReports DEF CompleteFromUpdater, NoNewOutcome
  <2>3. pc \notin Closing
    BY <2>1 DEF Closing
  <2> QED BY <1>1, <2>1, <2>2, <2>3 DEF Closing
<1>5. CASE CompleteDirect
  <2>1. mj \in Jobs /\ merr \in BOOLEAN /\ pc' = "finclear" /\ UNCHANGED <<mj, merr>>
    BY <1>0, <1>5 DEF CompleteDirect, Holding, FlowInv, TypeOK
  <2>2. j # mj
    BY <1>c, <2>1
  <2>3. db'[j] = db[j]
    BY <1>0, <1>5, <2>1, <2>2, NoOutcomeFromReports DEF CompleteDirect, NoNewOutcome
  <2> QED BY <2>1, <2>2, <2>3, OutcomeKept
<1>6. CASE \E s \in Scanners : MarkOrphan(s)
  <2>1. PICK s \in Scanners : \E i \in scan[s].jobs, ok \in StoreOutcomes :
               MarkJobOrphaned(i, ok) /\ UNCHANGED loopVars
    BY <1>6 DEF MarkOrphan
  <2>2. PICK i \in scan[s].jobs, ok \in StoreOutcomes :
               MarkJobOrphaned(i, ok) /\ UNCHANGED loopVars
    BY <2>1
  <2>3. i \in Jobs
    BY <1>0 DEF FlowInv, TypeOK
  <2>4. db'[j] = db[j]
    <3>1. CASE j = i
      BY <1>0, <1>b, <2>2, <2>3, <3>1 DEF MarkJobOrphaned, SetRow, StoreTypeOK
    <3>2. CASE j # i
      BY <1>0, <2>2, <2>3, <3>2, NoOutcomeFromReports DEF NoNewOutcome
    <3> QED BY <3>1, <3>2
  <2> QED BY <1>1, <2>2, <2>4
<1>7. CASE BootReconcile \/ BootInterrupted \/ BootStale \/ Crash
  <2>1. /\ inbox' = <<>> /\ queue' = <<>> /\ todo' = <<>> /\ mj' = NoJob
        /\ updater' = Idle
    BY <1>7 DEF Up, BootInv, BootReconcile, BootInterrupted, BootStale, Crash
  <2> QED BY <1>a, <2>1 DEF InFlight, Idle, ToSet
<1>8. CASE db'[j] = db[j] /\ (UNCHANGED <<pc, mj, merr>> \/ pc \notin Closing)
  BY <1>1, <1>8
<1> USE DEF NoNewOutcome
<1>9. CASE CreateRecord \/ DirectLog \/ PumpLog \/ FinishedLog
  <2>1. mj \in Jobs /\ pc \notin Closing
    BY <1>0, <1>9 DEF CreateRecord, DirectLog, PumpLog, FinishedLog, Holding, Closing
  <2>2. db'[j] = db[j]
    BY <1>0, <1>9, <2>1, NoOutcomeFromReports
       DEF CreateRecord, DirectLog, PumpLog, FinishedLog
  <2> QED BY <1>1, <2>1, <2>2
<1>10. CASE DispatchPup
  <2>1. mj \in Jobs /\ pc \notin Closing
    BY <1>0, <1>10 DEF DispatchPup, Holding, Closing
  <2>2. db'[j] = db[j]
    BY <1>0, <1>10, <2>1, NoOutcomeFromReports DEF DispatchPup, storeVars
  <2> QED BY <1>1, <2>1, <2>2
<1>11. CASE UpdaterLog
  BY <1>0, <1>1, <1>11, NoOutcomeFromReports DEF UpdaterLog
<1>12. CASE Web
  <2>1. UNCHANGED <<pc, mj, merr>>
    BY <1>12 DEF Web, DeleteCheck, DeleteListRuntime, RemoveFromQueue, RefuseDelete,
           DeleteRow, clearAllJobs, clearCompletedJobs, createOrphanCandidateJob,
           ReportCandidate
  <2>2. CASE UNCHANGED storeVars
    BY <1>1, <2>1, <2>2 DEF storeVars
  <2>3. CASE DeleteRow
    <3>1. del.job \in Jobs
      BY <2>3 DEF DeleteRow, IInv, FlowInv, TypeOK, StoreTypeOK, DeleteInv
    <3> QED BY <1>0, <1>1, <2>1, <2>3, <3>1, NoOutcomeFromReports DEF DeleteRow
  <2>4. CASE \E i \in Jobs : createOrphanCandidateJob(i) \/ ReportCandidate(i)
    BY <1>0, <1>1, <2>1, <2>4, NoOutcomeFromReports
       DEF createOrphanCandidateJob, ReportCandidate
  <2>5. CASE clearAllJobs \/ clearCompletedJobs
    <3>1. db'[j] = db[j]
      BY <2>5
         DEF clearAllJobs, clearCompletedJobs, ClearAllJobs, ClearCompletedJobs, Absent
    <3> QED BY <1>1, <2>1, <3>1
  <2> QED
    BY <1>12, <2>2, <2>3, <2>4, <2>5
       DEF Web, DeleteCheck, DeleteListRuntime, RemoveFromQueue, RefuseDelete
<1>13. CASE \/ \E i \in Jobs : AddAction(i)
            \/ \E s \in Scanners : ListActive(s) \/ SubtractRuntime(s) \/ ScanDone(s)
            \/ UNCHANGED vars
  <2>1. db' = db
    BY <1>13 DEF AddAction, ListActive, SubtractRuntime, ScanDone, storeVars, vars
  <2>2. UNCHANGED <<pc, mj, merr>> \/ pc \in {"select", "scan"}
    BY <1>13 DEF AddAction, ListActive, SubtractRuntime, ScanDone, vars
  <2> QED BY <1>1, <2>1, <2>2 DEF Closing
<1>14. CASE UpdaterFinish
  BY <1>1, <1>14 DEF UpdaterFinish, storeVars
<1>15. CASE ReceiveJob \/ MarkNonQueued \/ StartUntracked \/ NothingLeft \/ enqueue
            \/ DirectFinish \/ PumpQueue \/ HandOver \/ ReceiveDone
            \/ ClearNonQueued \/ Unlock
  <2>1. db' = db
    BY <1>15 DEF ReceiveJob, MarkNonQueued, StartUntracked, NothingLeft, enqueue,
           DirectFinish, PumpQueue, HandOver, ReceiveDone, ClearNonQueued, Unlock,
           storeVars
  <2>2. pc \notin Closing
    BY <1>15 DEF ReceiveJob, MarkNonQueued, StartUntracked, NothingLeft, enqueue,
           DirectFinish, PumpQueue, HandOver, ReceiveDone, ClearNonQueued, Unlock,
           Closing
  <2> QED BY <1>1, <2>1, <2>2
<1>16. CASE MainLoop
  BY <1>2, <1>3, <1>4, <1>5, <1>7, <1>9, <1>10, <1>15, <1>16 DEF MainLoop
<1> QED
  BY <1>6, <1>7, <1>11, <1>12, <1>13, <1>14, <1>16 DEF Next, Updater, Scan

\* Cache and row agree, and a job is closed once, or twice alike.
LEMMA OutcomeInvariant ==
  ASSUME CleanCalls
  PROVE  Spec => [](CacheInv /\ OutcomeInv)
<1>1. Init => CacheInv /\ OutcomeInv
  BY DEF Init, StoreInit, CacheInv, OutcomeInv, Active, Terminal, Absent
<1>2. IInv /\ BootInv /\ CacheInv /\ OutcomeInv /\ [Next]_vars
        => CacheInv' /\ OutcomeInv'
  BY StoreEffect, CacheStep, OutcomeStep DEF IInv, FlowInv, TypeOK
<1> QED BY <1>1, <1>2, Invariance, BootInvariant, PTL DEF Spec

\* The refinement mapping of Abs (JobQueue.tla).
AbsStatus == [j \in Jobs |->
               IF db[j] # Absent THEN db[j]
               ELSE IF j \in recorded THEN "gone" ELSE Absent]
AbsSlot == IF updater.st = "idle" THEN NoJob ELSE updater.job

\* What a client reads of job i after a step that touches no other row.
LEMMA OneRow ==
  ASSUME NEW j \in Jobs, \A i \in Jobs \ {j} : db'[i] = db[i],
         \A i \in Jobs \ {j} : i \in recorded' <=> i \in recorded
  PROVE  AbsStatus' = [AbsStatus EXCEPT ![j] = AbsStatus'[j]]
BY DEF AbsStatus

\* CreateJobRecord is Record, or nothing when the write fails.
LEMMA CreateMaps ==
  ASSUME FlowInv, NEW j \in Jobs, j \notin recorded, NEW ok \in BOOLEAN,
         CreateJobRecord(j, ok), AbsSlot' = AbsSlot
  PROVE  Abs!Record(j) \/ UNCHANGED Abs!specVars
<1> USE DEF FlowInv, TypeOK, StoreTypeOK, CreateJobRecord, SetRow, Absent
<1>1. db[j] = Absent
  BY DEF OnlyRecordedKnown, Known, Loaded
<1>2. CASE ok
  <2>1. AbsStatus[j] = "none" /\ AbsStatus'[j] = "queued"
    BY <1>1, <1>2 DEF AbsStatus
  <2>2. AbsStatus' = [AbsStatus EXCEPT ![j] = "queued"]
    BY <1>2, <2>1, OneRow
  <2> QED BY <2>1, <2>2 DEF Abs!Record, AbsStatus, AbsSlot
<1>3. CASE ~ok
  BY <1>3 DEF Abs!specVars, AbsSlot
<1> QED BY <1>2, <1>3

\* Progress and a pup ID are a Report the first time a write succeeds.
LEMMA ReportMaps ==
  ASSUME StoreTypeOK, CacheInv, NEW j \in Jobs, NEW ok \in BOOLEAN,
         UpdateJobPupID(j, ok) \/ UpdateJobProgress(j, ok), AbsSlot' = AbsSlot
  PROVE  Abs!Report(j) \/ UNCHANGED Abs!specVars
<1>1. /\ recorded' = recorded
      /\ db' = db \/ (db[j] = "queued" /\ db' = [db EXCEPT ![j] = "in_progress"])
  BY DEF UpdateJobPupID, UpdateJobProgress, Known, Loaded, SetRow, StoreTypeOK,
         CacheInv, Status, Active, Terminal, Absent
<1>2. CASE db' = db
  BY <1>1, <1>2 DEF Abs!specVars, AbsSlot
<1>3. CASE db[j] = "queued" /\ db' = [db EXCEPT ![j] = "in_progress"]
  <2>1. AbsStatus[j] = "queued" /\ AbsStatus'[j] = "in_progress"
    BY <1>3 DEF AbsStatus, StoreTypeOK, Absent
  <2>2. AbsStatus' = [AbsStatus EXCEPT ![j] = "in_progress"]
    BY <1>1, <1>3, <2>1, OneRow DEF StoreTypeOK
  <2> QED BY <2>1, <2>2 DEF Abs!Report, AbsStatus, AbsSlot
<1> QED BY <1>1, <1>2, <1>3

\* Settling the row of a job: j is not settled yet, or with the same outcome.
LEMMA CompleteMaps ==
  ASSUME StoreTypeOK, CacheInv, NEW j \in Jobs, NEW ok \in BOOLEAN,
         NEW err \in BOOLEAN, CompleteJob(j, err, ok), AbsSlot' = AbsSlot,
         db[j] \in Active \cup {Absent, Outcome(err)}
  PROVE  Abs!Finish(j) \/ UNCHANGED Abs!specVars
<1>1. /\ recorded' = recorded
      /\ db' = db \/ (db[j] \in Active /\ db' = [db EXCEPT ![j] = Outcome(err)])
  BY DEF CompleteJob, Known, Loaded, SetRow, StoreTypeOK, CacheInv, Status, Active,
         Terminal, Absent, Outcome
<1>2. CASE db' = db
  BY <1>1, <1>2 DEF Abs!specVars, AbsSlot
<1>3. CASE db[j] \in Active /\ db' = [db EXCEPT ![j] = Outcome(err)]
  <2>1. /\ AbsStatus[j] \in {"queued", "in_progress"}
        /\ AbsStatus'[j] = Outcome(err) /\ Outcome(err) \in {"completed", "failed"}
    BY <1>3 DEF AbsStatus, StoreTypeOK, Active, Absent, Outcome
  <2>2. AbsStatus' = [AbsStatus EXCEPT ![j] = Outcome(err)]
    BY <1>1, <1>3, <2>1, OneRow DEF StoreTypeOK
  <2> QED BY <2>1, <2>2 DEF Abs!Finish, Abs!Running, AbsStatus, AbsSlot
<1> QED BY <1>1, <1>2, <1>3

\* MarkJobOrphaned is Orphan, as the updater does not hold the job.
LEMMA OrphanMaps ==
  ASSUME StoreTypeOK, CacheInv, NEW j \in Jobs, NEW ok \in BOOLEAN,
         MarkJobOrphaned(j, ok), AbsSlot' = AbsSlot, AbsSlot # j
  PROVE  Abs!Orphan(j) \/ UNCHANGED Abs!specVars
<1>1. /\ recorded' = recorded
      /\ db' = db \/ (db[j] \in Active /\ db' = [db EXCEPT ![j] = "orphaned"])
  BY DEF MarkJobOrphaned, Loaded, SetRow, StoreTypeOK, CacheInv, Status, Active,
         Terminal, Absent
<1>2. CASE db' = db
  BY <1>1, <1>2 DEF Abs!specVars, AbsSlot
<1>3. CASE db[j] \in Active /\ db' = [db EXCEPT ![j] = "orphaned"]
  <2>1. /\ AbsStatus[j] \in {"queued", "in_progress"} /\ AbsStatus'[j] = "orphaned"
    BY <1>3 DEF AbsStatus, StoreTypeOK, Active, Absent
  <2>2. AbsStatus' = [AbsStatus EXCEPT ![j] = "orphaned"]
    BY <1>1, <1>3, <2>1, OneRow DEF StoreTypeOK
  <2> QED BY <2>1, <2>2 DEF Abs!Orphan, Abs!Running, AbsStatus, AbsSlot
<1> QED BY <1>1, <1>2, <1>3

\* DeleteJob and ClearAllJobs are Remove.
LEMMA DeleteMaps ==
  ASSUME StoreTypeOK, NEW j \in recorded, NEW ok \in BOOLEAN,
         DeleteJob(j, ok), AbsSlot' = AbsSlot
  PROVE  Abs!Remove({j}) \/ UNCHANGED Abs!specVars
<1>1. CASE ~ok
  BY <1>1 DEF DeleteJob, SetRow, Abs!specVars, AbsSlot
<1>2. CASE ok
  <2>1. \A i \in Jobs : AbsStatus'[i] =
                IF i \in {j} /\ AbsStatus[i] # "none" THEN "gone" ELSE AbsStatus[i]
    BY <1>2 DEF DeleteJob, SetRow, AbsStatus, StoreTypeOK, Absent
  <2>2. AbsStatus' = [i \in Jobs |->
                IF i \in {j} /\ AbsStatus[i] # "none" THEN "gone" ELSE AbsStatus[i]]
    BY <2>1 DEF AbsStatus
  <2> QED BY <2>2 DEF Abs!Remove, AbsStatus, AbsSlot
<1> QED BY <1>1, <1>2

\* See DeleteMaps.
LEMMA ClearMaps ==
  ASSUME StoreTypeOK, OnlyRecordedKnown, ClearAllJobs, AbsSlot' = AbsSlot
  PROVE  Abs!Remove(Jobs)
<1>0. \A i \in Jobs : db[i] # Absent => i \in recorded
  BY DEF StoreTypeOK, OnlyRecordedKnown, Known, Loaded
<1>1. \A i \in Jobs : AbsStatus'[i] =
                IF i \in Jobs /\ AbsStatus[i] # "none" THEN "gone" ELSE AbsStatus[i]
  BY <1>0 DEF ClearAllJobs, AbsStatus, StoreTypeOK, Absent
<1>2. AbsStatus' = [i \in Jobs |->
                IF i \in Jobs /\ AbsStatus[i] # "none" THEN "gone" ELSE AbsStatus[i]]
  BY <1>1 DEF AbsStatus
<1> QED BY <1>2 DEF Abs!Remove, AbsStatus, AbsSlot

\* The recoveries of a restart are Recover, with the slot empty.
LEMMA RecoveryMaps ==
  ASSUME StoreTypeOK, NEW S \in SUBSET ActiveRows,
         NEW outcome \in {"completed", "failed"},
         db' = [j \in Jobs |-> IF j \in S THEN outcome ELSE db[j]],
         recorded' = recorded, AbsSlot = NoJob, AbsSlot' = NoJob
  PROVE  Abs!Recover(S)
<1>1. \A i \in Jobs : AbsStatus'[i] =
                IF i \in S /\ AbsStatus[i] \in {"queued", "in_progress"}
                  THEN outcome ELSE AbsStatus[i]
  BY DEF ActiveRows, AbsStatus, StoreTypeOK, Active, Absent
<1>2. AbsStatus' = [i \in Jobs |->
                IF i \in S /\ AbsStatus[i] \in {"queued", "in_progress"}
                  THEN outcome ELSE AbsStatus[i]]
  BY <1>1 DEF AbsStatus
<1> QED BY <1>2 DEF Abs!Recover, Abs!Running, AbsStatus, AbsSlot

\* The step is one of JobSpec or changes nothing a client sees.
MapsToSpec == Abs!Next \/ UNCHANGED Abs!specVars

\* The steps of JobSpec on one job.
LEMMA RowMaps ==
  ASSUME NEW j \in Jobs,
         \/ Abs!Record(j) \/ Abs!Report(j) \/ Abs!Finish(j) \/ Abs!Orphan(j)
         \/ Abs!Remove({j}) \/ UNCHANGED Abs!specVars
  PROVE  MapsToSpec
<1>1. {j} \in SUBSET Jobs
  OBVIOUS
<1> QED BY <1>1 DEF MapsToSpec, Abs!Next

\* Every step of the queue maps to a step of JobSpec or to a stutter.
LEMMA StepMaps ==
  ASSUME IInv, BootInv, CacheInv, OutcomeInv, CleanCalls, [Next]_vars
  PROVE  MapsToSpec
<1> USE DEF Goto, loopVars, webVars, queueVars, loopStateVars
<1>0. /\ FlowInv
      /\ pc \in Holding => mj \in Jobs
      /\ updater.st # "idle" => updater.job \in Jobs
      /\ StoreTypeOK /\ OnlyRecordedKnown /\ merr \in BOOLEAN
      /\ \A ok \in StoreOutcomes : ok \in BOOLEAN
  BY Workers, StoreOutcomesBoolean DEF IInv, FlowInv, TypeOK
<1>a. NoJob \notin Jobs
  BY JobQueueAssumption
<1>b. UNCHANGED updater => AbsSlot' = AbsSlot
  BY DEF AbsSlot
<1>1. CASE UNCHANGED <<storeVars, updater>>
  BY <1>1 DEF storeVars, MapsToSpec, Abs!specVars
<1>2. CASE CreateRecord
  <2>1. mj \in Jobs /\ mj \notin recorded
    BY <1>0, <1>2 DEF CreateRecord, Holding, FlowInv, AheadInv
  <2> QED BY <1>0, <1>b, <1>2, <2>1, CreateMaps, RowMaps DEF CreateRecord
<1>3. CASE DispatchPup /\ ~UNCHANGED storeVars
  <2>1. mj \in Jobs
    BY <1>0, <1>3 DEF DispatchPup, Holding
  <2> QED BY <1>0, <1>b, <1>3, <2>1, ReportMaps, RowMaps DEF DispatchPup
<1>4. CASE DirectLog \/ PumpLog \/ FinishedLog
  <2>1. mj \in Jobs
    BY <1>0, <1>4 DEF DirectLog, PumpLog, FinishedLog, Holding
  <2> QED
    BY <1>0, <1>b, <1>4, <2>1, ReportMaps, RowMaps DEF DirectLog, PumpLog, FinishedLog
<1>5. CASE LogError /\ ~UNCHANGED storeVars
  <2>1. mj \in Jobs
    BY <1>0, <1>5 DEF LogError, Holding
  <2> QED BY <1>0, <1>b, <1>5, <2>1, ReportMaps, RowMaps DEF LogError
<1>6. CASE UpdaterLog
  BY <1>0, <1>b, <1>6, ReportMaps, RowMaps DEF UpdaterLog
<1>7. CASE CompleteFromUpdater \/ CompleteDirect
  <2>1. mj \in Jobs /\ InFlight(mj) /\ UNCHANGED updater
    BY <1>0, <1>7 DEF CompleteFromUpdater, CompleteDirect, Holding, InFlight
  <2>2. db[mj] \in Active \cup {Absent, Outcome(merr)}
    BY <2>1 DEF OutcomeInv
  <2> QED
    BY <1>0, <1>b, <1>7, <2>1, <2>2, CompleteMaps, RowMaps
       DEF CompleteFromUpdater, CompleteDirect
<1>8. CASE \E s \in Scanners : MarkOrphan(s)
  <2>1. PICK s \in Scanners : \E j \in scan[s].jobs, ok \in StoreOutcomes :
               scan[s].st = "mark" /\ MarkJobOrphaned(j, ok) /\ UNCHANGED updater
    BY <1>8 DEF MarkOrphan
  <2>2. PICK j \in scan[s].jobs, ok \in StoreOutcomes :
               scan[s].st = "mark" /\ MarkJobOrphaned(j, ok) /\ UNCHANGED updater
    BY <2>1
  <2>3. j \in Jobs
    BY <1>0 DEF FlowInv, TypeOK
  <2>4. AbsSlot # j
    BY <1>a, <2>2, <2>3 DEF IInv, ScanInv, InFlight, AbsSlot
  <2> QED BY <1>0, <1>b, <2>2, <2>3, <2>4, OrphanMaps, RowMaps
<1>9. CASE DeleteRow
  <2>1. PICK ok \in StoreOutcomes :
               del.st = "delete" /\ DeleteJob(del.job, ok) /\ UNCHANGED updater
    BY <1>9 DEF DeleteRow
  <2>2. del.job \in recorded /\ del.job \in Jobs
    BY <2>1 DEF IInv, FlowInv, TypeOK, StoreTypeOK, DeleteInv
  <2> QED BY <1>0, <1>b, <2>1, <2>2, DeleteMaps, RowMaps
<1>10. CASE \E j \in Jobs : createOrphanCandidateJob(j)
  <2>1. PICK j \in Jobs, ok \in StoreOutcomes :
               j \in fresh /\ CreateJobRecord(j, ok) /\ UNCHANGED updater
    BY <1>10 DEF createOrphanCandidateJob
  <2>2. j \notin recorded
    BY <1>0, <2>1 DEF FlowInv, AheadInv, Ahead, Unsplit
  <2> QED BY <1>0, <1>b, <2>1, <2>2, CreateMaps, RowMaps
<1>11. CASE \E j \in Jobs : ReportCandidate(j)
  BY <1>0, <1>b, <1>11, ReportMaps, RowMaps DEF ReportCandidate
<1>12. CASE clearAllJobs \/ clearCompletedJobs
  <2>1. ClearAllJobs /\ UNCHANGED updater
    BY <1>12 DEF clearAllJobs, clearCompletedJobs, CleanCalls
  <2>2. Abs!Remove(Jobs)
    BY <1>0, <1>b, <2>1, ClearMaps
  <2> QED BY <2>2 DEF MapsToSpec, Abs!Next
<1>13. CASE HandOver
  <2>1. /\ mj \in Jobs /\ AbsSlot = NoJob /\ AbsSlot' = mj
        /\ UNCHANGED <<db, recorded>>
    BY <1>0, <1>13 DEF HandOver, Holding, AbsSlot, storeVars
  <2>2. Abs!Take(mj)
    BY <2>1 DEF Abs!Take, AbsSlot
  <2> QED BY <2>1, <2>2 DEF MapsToSpec, Abs!Next
<1>14. CASE ReceiveDone \/ Crash
  <2>1. AbsSlot' = NoJob /\ UNCHANGED <<db, recorded>>
    BY <1>14 DEF ReceiveDone, Crash, NewJobManager, Idle, AbsSlot, storeVars
  <2>2. Abs!Release
    BY <2>1 DEF Abs!Release, AbsSlot
  <2> QED BY <2>2 DEF MapsToSpec, Abs!Next
<1>15. CASE UpdaterFinish
  <2>1. UNCHANGED <<db, recorded>> /\ updater.st = "work" /\ updater'.st = "done"
        /\ updater'.job = updater.job
    BY <1>0, <1>15 DEF UpdaterFinish, storeVars, FlowInv, TypeOK
  <2> QED BY <2>1 DEF MapsToSpec, Abs!specVars
<1>16. CASE BootReconcile \/ BootInterrupted \/ BootStale
  <2>1. AbsSlot = NoJob /\ AbsSlot' = NoJob
    BY <1>16 DEF BootReconcile, BootInterrupted, BootStale, Up, BootInv, Idle, AbsSlot
  <2>2. Interrupted \subseteq ActiveRows /\ ActiveRows \subseteq Jobs
        /\ \A W \in Written(Interrupted) : W \subseteq Interrupted
    BY DEF Interrupted, ActiveRows, Written
  <2>3. \E S \in SUBSET ActiveRows, outcome \in {"completed", "failed"} :
          /\ db' = [j \in Jobs |-> IF j \in S THEN outcome ELSE db[j]]
          /\ recorded' = recorded
    <3>1. CASE BootReconcile
      BY <2>2, <3>1 DEF BootReconcile, ReconcileCompletedSystemUpdateJobs
    <3>2. CASE BootInterrupted
      BY <2>2, <3>2 DEF BootInterrupted, ClearInterruptedSystemJobs
    <3>3. CASE BootStale
      <4>1. PICK old \in SUBSET ActiveRows : ClearOrphanedJobs(old)
        BY <3>3 DEF BootStale
      <4>2. db' = [j \in Jobs |-> IF j \in old THEN "failed" ELSE db[j]]
        BY <4>1 DEF ClearOrphanedJobs, ActiveRows
      <4> QED BY <4>1, <4>2 DEF ClearOrphanedJobs
    <3> QED BY <1>16, <3>1, <3>2, <3>3
  <2>4. \E S \in SUBSET ActiveRows : Abs!Recover(S)
    BY <1>0, <2>1, <2>3, RecoveryMaps
  <2> QED BY <2>2, <2>4 DEF MapsToSpec, Abs!Next
<1>17. CASE MainLoop
  BY <1>1, <1>2, <1>3, <1>4, <1>5, <1>7, <1>13, <1>14, <1>16, <1>17
     DEF MainLoop, ReceiveJob, MarkNonQueued, StartUntracked, NothingLeft,
         DispatchPup, enqueue, DirectFinish, PumpQueue, LogError, TestActive,
         ClearNonQueued, Unlock
<1>18. CASE \E s \in Scanners : Scan(s)
  BY <1>1, <1>8, <1>18 DEF Scan, ListActive, SubtractRuntime, ScanDone
<1>19. CASE Web
  BY <1>1, <1>9, <1>10, <1>11, <1>12, <1>19
     DEF Web, DeleteCheck, DeleteListRuntime, RemoveFromQueue, RefuseDelete
<1>20. CASE \E j \in Jobs : AddAction(j)
  BY <1>1, <1>20 DEF AddAction
<1>21. CASE UNCHANGED vars
  BY <1>1, <1>21 DEF vars
<1> QED
  BY <1>6, <1>14, <1>15, <1>17, <1>18, <1>19, <1>20, <1>21 DEF Next, Updater

\* JobQueue implements JobSpec: whatever the interleaving, failing writes and
\* restarts, a job is recorded once, moves along its life cycle, gets one
\* outcome, and is never declared orphaned while the updater holds it.  Where
\* clear-completed is called this is false (see CleanCalls).
THEOREM Refinement ==
  ASSUME CleanCalls
  PROVE  Spec => AbsSpec
<1>1. Init => Abs!Init
  BY DEF Init, StoreInit, Idle, Abs!Init, Absent
<1>2. IInv /\ BootInv /\ CacheInv /\ OutcomeInv /\ [Next]_vars
        => [Abs!Next]_(Abs!specVars)
  BY StepMaps DEF MapsToSpec
<1> QED
  BY <1>1, <1>2, Invariance, BootInvariant, OutcomeInvariant, PTL
     DEF Spec, AbsSpec, Abs!Spec

\* The outcome a client has read stands until the row is removed: the second
\* completion of a failed job (sendFinishedJob) repeats the first.
THEOREM OutcomesStand ==
  ASSUME CleanCalls
  PROVE  Spec => [][\A j \in Jobs : db[j] \in Terminal => db'[j] \in {db[j], Absent}]_vars
<1>1. ASSUME TypeOK, TypeOK', Abs!Next \/ UNCHANGED Abs!specVars,
             NEW j \in Jobs, db[j] \in Terminal
      PROVE  db'[j] \in {db[j], Absent}
  <2>1. AbsStatus[j] = db[j]
    BY <1>1 DEF AbsStatus, Terminal, Absent
  <2>2. AbsStatus'[j] \in {AbsStatus[j], "gone"}
    <3>1. CASE \E i \in Jobs : \/ Abs!Record(i) \/ Abs!Report(i)
                            \/ Abs!Finish(i) \/ Abs!Orphan(i)
      BY <1>1, <2>1, <3>1
         DEF AbsStatus, Abs!Record, Abs!Report, Abs!Finish, Abs!Orphan, Abs!Running,
             Terminal
    <3>2. CASE \E S \in SUBSET Jobs : Abs!Remove(S) \/ Abs!Recover(S)
      BY <1>1, <2>1, <3>2 DEF AbsStatus, Abs!Remove, Abs!Recover, Abs!Running, Terminal
    <3>3. CASE (\E i \in Jobs : Abs!Take(i)) \/ Abs!Release \/ UNCHANGED Abs!specVars
      BY <3>3 DEF AbsStatus, Abs!Take, Abs!Release, Abs!specVars
    <3> QED BY <1>1, <3>1, <3>2, <3>3 DEF Abs!Next
  <2>3. db'[j] \in Status \cup {Absent}
    BY <1>1 DEF TypeOK, StoreTypeOK
  <2>4. AbsStatus'[j] = IF db'[j] # Absent THEN db'[j]
                        ELSE IF j \in recorded' THEN "gone" ELSE Absent
    BY DEF AbsStatus
  <2> QED BY <2>1, <2>2, <2>3, <2>4 DEF Status, Active, Terminal, Absent
<1>2. IInv /\ IInv' /\ BootInv /\ CacheInv /\ OutcomeInv /\ [Next]_vars
        => [\A j \in Jobs : db[j] \in Terminal => db'[j] \in {db[j], Absent}]_vars
  BY <1>1, StepMaps DEF MapsToSpec, IInv, FlowInv
<1> QED BY <1>2, Invariance, BootInvariant, OutcomeInvariant, PTL DEF Spec
=============================================================================
