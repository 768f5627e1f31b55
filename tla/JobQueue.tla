------------------------------ MODULE JobQueue ------------------------------
(***************************************************************************)
(* The heart of dogeboxd: the main loop of Dogeboxd.Run with its job       *)
(* queue, the SystemUpdater goroutine it hands one job at a time to, the   *)
(* scans for orphaned jobs (one on the main loop's 60 s ticker, one in     *)
(* every job websocket's bootstrap), and the web handlers that delete and  *)
(* clear jobs.  A step is one critical section (of jobQLock, jobsMutex or  *)
(* one SQL statement) or one channel operation; between two steps every    *)
(* other goroutine may run, and the process may crash and restart.         *)
(***************************************************************************)
EXTENDS JobStore, SequencesExt

CONSTANTS
  Kind,        \* Kind[j]: the class of j's action, one of Kinds below
  SubJobs,     \* SubJobs[j]: the jobs an InstallPups action is split into
  Scanners,    \* who runs DetectAndMarkOrphanedJobs; "ticker" is the main loop
  WebCalls,    \* the web handlers in play
  JobsCap,     \* capacity of the jobs channel (256)
  MaxCrashes,  \* bound on the restarts of the process
  NoJob

(* The actions, by how jobDispatcher treats them:                          *)
(*   pup     looks the pup up (or creates it), then enqueues               *)
(*   host    enqueues                                                      *)
(*   nix     UpdateNixCache: enqueues, unless the last queued job is one   *)
(*   update  SystemUpdate: enqueues; restarts recover it separately        *)
(*   direct  runs in the main loop and is tracked                          *)
(*   config  runs in the main loop and is not tracked                      *)
(*   batch   InstallPups: not tracked itself, dispatches its sub-jobs      *)
(*   debug   a row made by the dev endpoint, never submitted               *)
Kinds    == {"pup", "host", "nix", "update", "direct", "config", "batch", "debug"}
Enqueued == {"host", "nix", "update"}
AllWeb   == {"delete", "clearAll", "clearCompleted", "debug"}

Children == UNION {ToSet(SubJobs[j]) : j \in Jobs}
Roots    == {j \in Jobs \ Children : Kind[j] # "debug"}

ASSUME JobQueueAssumption ==
  /\ Kind \in [Jobs -> Kinds]
  /\ SubJobs \in [Jobs -> Seq(Jobs)]
  /\ \A j \in Jobs : IsInjective(SubJobs[j])
  /\ \A i, j \in Jobs :
       i # j => ToSet(SubJobs[i]) \cap ToSet(SubJobs[j]) = {}
  /\ \A j \in Jobs : SubJobs[j] # <<>> => Kind[j] = "batch"
  /\ \A j \in Children : Kind[j] = "pup"
  /\ WebCalls \subseteq AllWeb
  /\ JobsCap \in Nat \ {0}
  /\ MaxCrashes \in Nat
  /\ NoJob \notin Jobs

VARIABLES
  fresh,        \* the jobs AddAction has not been called for
  inbox,        \* the jobs channel
  queue,        \* syncQueue.jobQueue
  nonQueued,    \* syncQueue.nonQueuedActiveJobs
  current,      \* syncQueue.currentSystemJobID
  locked,       \* syncQueue.jobInProgress is held
  pc,           \* where the main loop is
  mj, merr,     \* the job the main loop works on, and whether its Err is set
  todo,         \* the jobs it still has to dispatch
  updater,      \* the SystemUpdater goroutine: [st, job, err]
  scan,         \* scan[s]: [st, jobs], the active rows s still has to judge
  del,          \* the web handler deleteJob: [st, job]
  pending,      \* dev rows whose progress is still to be written
  crashes,
  deleted       \* history: jobs deleteJob reported as deleted

loopVars  == <<pc, mj, merr, todo>>
queueVars == <<queue, nonQueued, current, locked>>
webVars   == <<scan, del, pending, deleted>>
loopStateVars     == <<fresh, inbox, queueVars, loopVars, updater, webVars, crashes>>
vars      == <<storeVars, loopStateVars>>

Tracked(j) == Kind[j] \notin {"config", "batch"}

\* GetRuntimeJobIDs, under jobQLock.
Runtime == ({current} \ {NoJob}) \cup ToSet(queue) \cup nonQueued

Idle == [st |-> "idle", job |-> NoJob, err |-> FALSE]
NoScan == [st |-> "idle", jobs |-> {}]
NoDelete == [st |-> "idle", job |-> NoJob]

TypeOK ==
  /\ StoreTypeOK
  /\ fresh \subseteq Jobs
  /\ inbox \in Seq(Jobs)
  /\ queue \in Seq(Jobs)
  /\ nonQueued \subseteq Jobs
  /\ current \in Jobs \cup {NoJob}
  /\ locked \in BOOLEAN
  /\ pc \in {"boot", "interrupted", "stale", "select", "scan", "next", "create",
             "dispatch", "enqueue", "direct", "pumplog", "handover", "finlog",
             "complete", "finerr", "finactive", "fincomplete", "finclear",
             "unlock"}
  /\ mj \in Jobs \cup {NoJob}
  /\ merr \in BOOLEAN
  /\ todo \in Seq(Jobs)
  /\ updater \in [st : {"idle", "work", "done"}, job : Jobs \cup {NoJob},
                  err : BOOLEAN]
  /\ scan \in [Scanners -> [st : {"idle", "listed", "mark"}, jobs : SUBSET Jobs]]
  /\ del \in [st : {"idle", "checked", "listed", "delete"}, job : Jobs \cup {NoJob}]
  /\ pending \subseteq Jobs
  /\ crashes \in Nat
  /\ deleted \subseteq Jobs

Init ==
  /\ StoreInit
  /\ fresh = Jobs \ Children
  /\ inbox = <<>> /\ queue = <<>> /\ todo = <<>>
  /\ nonQueued = {} /\ current = NoJob /\ locked = FALSE
  /\ pc = "boot" /\ mj = NoJob /\ merr = FALSE
  /\ updater = Idle
  /\ scan = [s \in Scanners |-> NoScan]
  /\ del = NoDelete
  /\ pending = {} /\ deleted = {} /\ crashes = 0

Up == pc \notin {"boot", "interrupted", "stale"}
-----------------------------------------------------------------------------
(* Clients.  AddAction blocks while the channel is full. *)
AddAction(j) ==
  /\ Up /\ j \in fresh \cap Roots
  /\ Len(inbox) < JobsCap
  /\ fresh' = fresh \ {j}
  /\ inbox' = Append(inbox, j)
  /\ UNCHANGED <<storeVars, queueVars, loopVars, updater, webVars, crashes>>

-----------------------------------------------------------------------------
(* The main loop: every action below needs pc to be where it runs. *)
Goto(from, to) == pc = from /\ pc' = to

\* A nix cache update is dropped when the next one waiting is one already.
shouldSkipJob(j) ==
  Kind[j] = "nix" /\ queue # <<>> /\ Kind[Last(queue)] = "nix"

ReceiveJob ==
  LET j == Head(inbox)
      split == IF Kind[j] = "batch" THEN SubJobs[j] ELSE <<j>>
  IN  /\ inbox # <<>>
      /\ Goto("select", "next")
      /\ inbox' = Tail(inbox)
      /\ todo' = IF shouldSkipJob(j) THEN <<>> ELSE split
      /\ UNCHANGED <<storeVars, fresh, queueVars, mj, merr, updater, webVars,
                     crashes>>

\* Mutant: the row is created before the job is visible.
MarkNothing ==
  /\ Goto("next", "create")
  /\ todo # <<>> /\ Tracked(Head(todo))
  /\ mj' = Head(todo) /\ todo' = Tail(todo)
  /\ UNCHANGED <<storeVars, fresh, inbox, queueVars, merr, updater, webVars,
                 crashes>>

\* createTrackedJobRecord, first half: visible to the scans before it is stored.
MarkNonQueued ==
  /\ Goto("next", "create")
  /\ todo # <<>> /\ Tracked(Head(todo))
  /\ mj' = Head(todo) /\ todo' = Tail(todo)
  /\ nonQueued' = nonQueued \cup {Head(todo)}
  /\ UNCHANGED <<storeVars, fresh, inbox, queue, current, locked, merr, updater,
                 webVars, crashes>>

StartUntracked ==
  /\ Goto("next", "dispatch")
  /\ todo # <<>> /\ ~Tracked(Head(todo))
  /\ mj' = Head(todo) /\ todo' = Tail(todo)
  /\ UNCHANGED <<storeVars, fresh, inbox, queueVars, merr, updater, webVars,
                 crashes>>

NothingLeft ==
  /\ Goto("next", "select")
  /\ todo = <<>>
  /\ UNCHANGED <<storeVars, fresh, inbox, queueVars, mj, merr, todo, updater,
                 webVars, crashes>>

\* createTrackedJobRecord, second half; the job runs on even without a record.
CreateRecord ==
  \E ok \in StoreOutcomes :
    /\ Goto("create", "dispatch")
    /\ CreateJobRecord(mj, ok)
    /\ nonQueued' = IF ok THEN nonQueued ELSE nonQueued \ {mj}
    /\ UNCHANGED <<fresh, inbox, queue, current, locked, mj, merr, todo, updater,
                   webVars, crashes>>

\* jobDispatcher, the pup actions: the pup is looked up (created, for an
\* install) and its id written to the record, or the job fails here.
DispatchPup ==
  /\ pc = "dispatch" /\ Kind[mj] = "pup"
  /\ \/ /\ pc' = "finerr" /\ merr' = TRUE
        /\ UNCHANGED storeVars
     \/ \E ok \in StoreOutcomes :
          /\ pc' = "enqueue" /\ UNCHANGED merr
          /\ UpdateJobPupID(mj, ok)
  /\ UNCHANGED <<fresh, inbox, queueVars, mj, todo, updater, webVars, crashes>>

enqueue ==
  /\ \/ pc = "enqueue"
     \/ pc = "dispatch" /\ Kind[mj] \in Enqueued
  /\ pc' = "next"
  /\ nonQueued' = nonQueued \ {mj}
  /\ queue' = Append(queue, mj)
  /\ mj' = NoJob
  /\ UNCHANGED <<storeVars, fresh, inbox, current, locked, merr, todo, updater,
                 webVars, crashes>>

\* The actions that run in the main loop itself may report progress ...
DirectLog ==
  \E ok \in StoreOutcomes :
    /\ pc = "dispatch" /\ Kind[mj] \in {"direct", "config"}
    /\ pc' = "direct"
    /\ UpdateJobProgress(mj, ok)
    /\ UNCHANGED <<fresh, inbox, queueVars, mj, merr, todo, updater, webVars,
                   crashes>>

\* Mutant: the job leaves nonQueued before its row has left the active states.
DirectFinishForgetting ==
  /\ pc \in {"dispatch", "direct"} /\ Kind[mj] \in {"direct", "config"}
  /\ pc' = "finerr"
  /\ merr' \in BOOLEAN
  /\ nonQueued' = nonQueued \ {mj}
  /\ UNCHANGED <<storeVars, fresh, inbox, queue, current, locked, mj, todo,
                 updater, webVars, crashes>>

\* ... and then finish, well or not.
DirectFinish ==
  /\ pc \in {"dispatch", "direct"} /\ Kind[mj] \in {"direct", "config"}
  /\ pc' = "finerr"
  /\ merr' \in BOOLEAN
  /\ UNCHANGED <<storeVars, fresh, inbox, queueVars, mj, todo, updater, webVars,
                 crashes>>
-----------------------------------------------------------------------------
(* pumpQueue: one job at a time is handed to the SystemUpdater. *)

\* Mutant: jobInProgress is not tried.
PumpQueueAnyway ==
  /\ queue # <<>>
  /\ Goto("select", "pumplog")
  /\ locked' = TRUE
  /\ mj' = Head(queue) /\ current' = Head(queue) /\ queue' = Tail(queue)
  /\ UNCHANGED <<storeVars, fresh, inbox, nonQueued, merr, todo, updater, webVars,
                 crashes>>

PumpQueue ==
  /\ ~locked /\ queue # <<>>
  /\ Goto("select", "pumplog")
  /\ locked' = TRUE
  /\ mj' = Head(queue) /\ current' = Head(queue) /\ queue' = Tail(queue)
  /\ UNCHANGED <<storeVars, fresh, inbox, nonQueued, merr, todo, updater, webVars,
                 crashes>>

PumpLog ==
  \E ok \in StoreOutcomes :
    /\ Goto("pumplog", "handover")
    /\ UpdateJobProgress(mj, ok)
    /\ UNCHANGED <<fresh, inbox, queueVars, mj, merr, todo, updater, webVars,
                   crashes>>

\* AddJob on an unbuffered channel: a rendezvous with the updater's receive.
HandOver ==
  /\ updater.st = "idle"
  /\ Goto("handover", "select")
  /\ updater' = [st |-> "work", job |-> mj, err |-> FALSE]
  /\ mj' = NoJob
  /\ UNCHANGED <<storeVars, fresh, inbox, queueVars, merr, todo, webVars, crashes>>

-----------------------------------------------------------------------------
(* SystemUpdater.Run: works on one job, then offers it on done. *)
UpdaterLog ==
  \E ok \in StoreOutcomes :
    /\ updater.st = "work"
    /\ UpdateJobProgress(updater.job, ok)
    /\ UNCHANGED loopStateVars

UpdaterFinish ==
  /\ updater.st = "work"
  /\ \E err \in BOOLEAN : updater' = [updater EXCEPT !.st = "done", !.err = err]
  /\ UNCHANGED <<storeVars, fresh, inbox, queueVars, loopVars, webVars, crashes>>

-----------------------------------------------------------------------------
(* Completion of a job that comes back from the updater. *)
ReceiveDone ==
  /\ updater.st = "done"
  /\ Goto("select", "finlog")
  /\ mj' = updater.job /\ merr' = updater.err
  /\ updater' = Idle
  /\ UNCHANGED <<storeVars, fresh, inbox, queueVars, todo, webVars, crashes>>

\* "finished in ...": one more progress report.
FinishedLog ==
  \E ok \in StoreOutcomes :
    /\ Goto("finlog", "complete")
    /\ UpdateJobProgress(mj, ok)
    /\ UNCHANGED <<fresh, inbox, queueVars, mj, merr, todo, updater, webVars,
                   crashes>>

CompleteFromUpdater ==
  \E ok \in StoreOutcomes :
    /\ Goto("complete", "finerr")
    /\ CompleteJob(mj, merr, ok)
    /\ UNCHANGED <<fresh, inbox, queueVars, mj, merr, todo, updater, webVars,
                   crashes>>

-----------------------------------------------------------------------------
(* sendFinishedJob, for jobs of both paths. *)
LogError ==
  \E ok \in StoreOutcomes :
    /\ Goto("finerr", "finactive")
    /\ IF merr THEN UpdateJobProgress(mj, ok) ELSE UNCHANGED storeVars
    /\ UNCHANGED <<fresh, inbox, queueVars, mj, merr, todo, updater, webVars,
                   crashes>>

IsJobActive(j) == cache[j] # Absent

TestActive ==
  /\ pc = "finactive"
  /\ pc' = IF Tracked(mj) /\ IsJobActive(mj) THEN "fincomplete" ELSE "finclear"
  /\ UNCHANGED <<storeVars, fresh, inbox, queueVars, mj, merr, todo, updater,
                 webVars, crashes>>

CompleteDirect ==
  \E ok \in StoreOutcomes :
    /\ Goto("fincomplete", "finclear")
    /\ CompleteJob(mj, merr, ok)
    /\ UNCHANGED <<fresh, inbox, queueVars, mj, merr, todo, updater, webVars,
                   crashes>>

\* A direct job is done; an updater job still holds the updater's slot.
ClearNonQueued ==
  /\ pc = "finclear"
  /\ pc' = IF mj = current THEN "unlock" ELSE "next"
  /\ mj' = IF mj = current THEN mj ELSE NoJob
  /\ merr' = FALSE
  /\ nonQueued' = nonQueued \ {mj}
  /\ UNCHANGED <<storeVars, fresh, inbox, queue, current, locked, todo, updater,
                 webVars, crashes>>

\* Mutant: jobInProgress stays held.
ForgetUnlock ==
  /\ Goto("unlock", "select")
  /\ current' = NoJob /\ mj' = NoJob
  /\ UNCHANGED <<storeVars, fresh, inbox, queue, nonQueued, locked, merr, todo,
                 updater, webVars, crashes>>

\* clearCurrentSystemJobID, then jobInProgress.Unlock (only the loop tests it).
Unlock ==
  /\ Goto("unlock", "select")
  /\ current' = NoJob /\ locked' = FALSE /\ mj' = NoJob
  /\ UNCHANGED <<storeVars, fresh, inbox, queue, nonQueued, merr, todo, updater,
                 webVars, crashes>>
-----------------------------------------------------------------------------
(***************************************************************************)
(* DetectAndMarkOrphanedJobs: read the active rows, then the runtime jobs, *)
(* then mark one by one what was in the first and not in the second.       *)
(***************************************************************************)
ListActive(s) ==
  /\ Up /\ scan[s].st = "idle"
  /\ IF s = "ticker" THEN Goto("select", "scan") ELSE UNCHANGED pc
  /\ scan' = [scan EXCEPT ![s] = [st |-> "listed", jobs |-> ActiveRows]]
  /\ UNCHANGED <<storeVars, fresh, inbox, queueVars, mj, merr, todo, updater, del,
                 pending, deleted, crashes>>

SubtractRuntime(s) ==
  /\ scan[s].st = "listed"
  /\ scan' = [scan EXCEPT ![s] = [st |-> "mark", jobs |-> @.jobs \ Runtime]]
  /\ UNCHANGED <<storeVars, fresh, inbox, queueVars, loopVars, updater, del,
                 pending, deleted, crashes>>

\* A job that is gone or whose row cannot be written ends the scan.
MarkOrphan(s) ==
  \E j \in scan[s].jobs, ok \in StoreOutcomes :
    /\ scan[s].st = "mark"
    /\ MarkJobOrphaned(j, ok)
    /\ scan' = [scan EXCEPT ![s].jobs =
                  IF Known(j) /\ (ok \/ Loaded(j) \notin Active) THEN @ \ {j} ELSE {}]
    /\ UNCHANGED <<fresh, inbox, queueVars, loopVars, updater, del, pending,
                   deleted, crashes>>

ScanDone(s) ==
  /\ scan[s].st = "mark" /\ scan[s].jobs = {}
  /\ scan' = [scan EXCEPT ![s] = NoScan]
  /\ IF s = "ticker" THEN Goto("scan", "select") ELSE UNCHANGED pc
  /\ UNCHANGED <<storeVars, fresh, inbox, queueVars, mj, merr, todo, updater, del,
                 pending, deleted, crashes>>

-----------------------------------------------------------------------------
(* Web handlers (pkg/web/jobs.go).  deleteJob holds no lock between steps. *)
DeleteCheck(j) ==
  /\ Up /\ "delete" \in WebCalls /\ del.st = "idle"
  /\ Loaded(j) = "queued"
  /\ del' = [st |-> "checked", job |-> j]
  /\ UNCHANGED <<storeVars, fresh, inbox, queueVars, loopVars, updater, scan,
                 pending, deleted, crashes>>

\* Mutant: the runtime jobs are not consulted.
DeleteAnyway ==
  /\ del.st = "checked"
  /\ del' = [del EXCEPT !.st = "delete"]
  /\ UNCHANGED <<storeVars, fresh, inbox, queueVars, loopVars, updater, scan,
                 pending, deleted, crashes>>

DeleteListRuntime ==
  /\ del.st = "checked"
  /\ del' = [del EXCEPT !.st = IF del.job \in Runtime THEN "listed" ELSE "delete"]
  /\ UNCHANGED <<storeVars, fresh, inbox, queueVars, loopVars, updater, scan,
                 pending, deleted, crashes>>

RemoveFromQueue ==
  /\ del.st = "listed"
  /\ \E i \in DOMAIN queue :
       /\ queue[i] = del.job
       /\ queue' = RemoveAt(queue, i)
  /\ nonQueued' = nonQueued \ {del.job}
  /\ del' = [del EXCEPT !.st = "delete"]
  /\ UNCHANGED <<storeVars, fresh, inbox, current, locked, loopVars, updater,
                 scan, pending, deleted, crashes>>

\* 409: "Job is still being processed".
RefuseDelete ==
  /\ del.st = "listed" /\ del.job \notin ToSet(queue)
  /\ del' = NoDelete
  /\ UNCHANGED <<storeVars, fresh, inbox, queueVars, loopVars, updater, scan,
                 pending, deleted, crashes>>

DeleteRow ==
  \E ok \in StoreOutcomes :
    /\ del.st = "delete"
    /\ DeleteJob(del.job, ok)
    /\ deleted' = IF ok THEN deleted \cup {del.job} ELSE deleted
    /\ del' = NoDelete
    /\ UNCHANGED <<fresh, inbox, queueVars, loopVars, updater, scan, pending,
                   crashes>>

clearAllJobs ==
  /\ Up /\ "clearAll" \in WebCalls
  /\ ClearAllJobs
  /\ UNCHANGED loopStateVars

clearCompletedJobs ==
  /\ Up /\ "clearCompleted" \in WebCalls
  /\ \E old \in SUBSET Jobs : ClearCompletedJobs(old)
  /\ UNCHANGED loopStateVars

\* createOrphanCandidateJob (dev mode): a row no worker stands behind.
createOrphanCandidateJob(j) ==
  \E ok \in StoreOutcomes :
    /\ Up /\ "debug" \in WebCalls /\ Kind[j] = "debug" /\ j \in fresh
    /\ fresh' = fresh \ {j}
    /\ CreateJobRecord(j, ok)
    /\ pending' = IF ok THEN pending \cup {j} ELSE pending
    /\ UNCHANGED <<inbox, queueVars, loopVars, updater, scan, del, deleted,
                   crashes>>

ReportCandidate(j) ==
  \E ok \in StoreOutcomes :
    /\ j \in pending
    /\ pending' = pending \ {j}
    /\ UpdateJobProgress(j, ok)
    /\ UNCHANGED <<fresh, inbox, queueVars, loopVars, updater, scan, del, deleted,
                   crashes>>

-----------------------------------------------------------------------------
(* The process dies anywhere and starts again with what SQLite holds. *)
Crash ==
  /\ crashes < MaxCrashes
  /\ crashes' = crashes + 1
  /\ NewJobManager
  /\ inbox' = <<>> /\ queue' = <<>> /\ todo' = <<>>
  /\ nonQueued' = {} /\ current' = NoJob /\ locked' = FALSE
  /\ pc' = "boot" /\ mj' = NoJob /\ merr' = FALSE
  /\ updater' = Idle
  /\ scan' = [s \in Scanners |-> NoScan]
  /\ del' = NoDelete /\ pending' = {}
  /\ UNCHANGED <<fresh, deleted>>

Interrupted == {j \in ActiveRows : Kind[j] = "update"}

\* ReconcileCompletedSystemUpdateJobs completes each match with CompleteJob.
BootReconcile ==
  /\ Goto("boot", "interrupted")
  /\ \E matched \in SUBSET Interrupted : ReconcileCompletedSystemUpdateJobs(matched)
  /\ UNCHANGED <<fresh, inbox, queueVars, mj, merr, todo, updater, webVars, crashes>>

BootInterrupted ==
  /\ Goto("interrupted", "stale")
  /\ \E W \in Written(Interrupted) : ClearInterruptedSystemJobs(Interrupted, W)
  /\ UNCHANGED <<fresh, inbox, queueVars, mj, merr, todo, updater, webVars, crashes>>

BootStale ==
  /\ Goto("stale", "select")
  /\ \E old \in SUBSET ActiveRows : ClearOrphanedJobs(old)
  /\ UNCHANGED <<fresh, inbox, queueVars, mj, merr, todo, updater, webVars, crashes>>

-----------------------------------------------------------------------------
MainLoop ==
  \/ ReceiveJob \/ MarkNonQueued \/ StartUntracked \/ NothingLeft \/ CreateRecord
  \/ DispatchPup \/ enqueue \/ DirectLog \/ DirectFinish
  \/ PumpQueue \/ PumpLog \/ HandOver
  \/ ReceiveDone \/ FinishedLog \/ CompleteFromUpdater
  \/ LogError \/ TestActive \/ CompleteDirect \/ ClearNonQueued \/ Unlock
  \/ BootReconcile \/ BootInterrupted \/ BootStale

Updater == UpdaterLog \/ UpdaterFinish

Scan(s) == ListActive(s) \/ SubtractRuntime(s) \/ MarkOrphan(s) \/ ScanDone(s)

Web ==
  \/ \E j \in Jobs : DeleteCheck(j)
  \/ DeleteListRuntime \/ RemoveFromQueue \/ RefuseDelete \/ DeleteRow
  \/ clearAllJobs \/ clearCompletedJobs
  \/ \E j \in Jobs : createOrphanCandidateJob(j) \/ ReportCandidate(j)

Next ==
  \/ \E j \in Jobs : AddAction(j)
  \/ MainLoop \/ Updater \/ (\E s \in Scanners : Scan(s)) \/ Web \/ Crash

Spec == Init /\ [][Next]_vars
-----------------------------------------------------------------------------
(***************************************************************************)
(* Fairness.  Go's select picks uniformly among the ready cases, and the   *)
(* tickers fire for ever, so a case that is ready again and again is taken *)
(* (SF); a loop body that has started, and a started scan, run on (WF).    *)
(* The updater ends every job: each command it runs ends or is killed.     *)
(***************************************************************************)
Fairness ==
  /\ WF_vars(MainLoop)
  /\ SF_vars(ReceiveJob) /\ SF_vars(PumpQueue) /\ SF_vars(ReceiveDone)
  /\ SF_vars(ListActive("ticker"))
  /\ WF_vars(SubtractRuntime("ticker") \/ MarkOrphan("ticker") \/ ScanDone("ticker"))
  /\ WF_vars(UpdaterFinish)

FairSpec == Spec /\ Fairness

-----------------------------------------------------------------------------
\* j has been accepted and its processing is not over.
InFlight(j) ==
  \/ j \in ToSet(inbox) \cup ToSet(todo) \cup ToSet(queue)
  \/ updater.st # "idle" /\ updater.job = j
  \/ mj = j /\ pc \notin {"finclear", "unlock"}

\* Wherever a job is on its way through the main loop, the queue and the
\* updater, as long as its row is active GetRuntimeJobIDs reports it: "orphan
\* detection never sees 'active in DB, missing from runtime'" (dogeboxd.go:177).
LiveJobsVisible ==
  \A j \in Jobs : InFlight(j) /\ db[j] \in Active => j \in Runtime

\* No interleaving of the scans (ticker and websocket bootstraps, each reading
\* rows and runtime at different times) with dispatch, hand-over, completion
\* and deletion marks a job as orphaned that is still being processed.
NoLiveJobOrphaned ==
  [][\A j \in Jobs :
       db[j] # "orphaned" /\ db'[j] = "orphaned" => ~InFlight(j)]_vars

\* jobInProgress, currentSystemJobID and the updater agree: the updater only
\* works for the current job, and when the loop blocks in AddJob the updater is
\* idle, so loop and updater never wait on each other's unbuffered channels.
OneAtATime ==
  /\ locked <=> current # NoJob
  /\ updater.st # "idle" => locked /\ updater.job = current /\ mj # current
  /\ pc \in {"pumplog", "handover"} => mj = current /\ updater.st = "idle"

\* Once deleteJob has answered that a job is deleted, that job is nowhere in
\* the pipeline, so it can no longer be handed to the updater: removal from the
\* queue and the 409 answer leave no window in which a deleted job runs.
DeletedNeverRuns == \A j \in deleted : ~InFlight(j)

\* Every active row is settled in the end, through its own completion, through
\* deletion or, after a restart, through a recovery or an orphan scan.
RowsSettle == \A j \in Jobs : db[j] \in Active ~> db[j] \notin Active

\* Every accepted job leaves the pipeline: nothing wedges jobInProgress.
JobsDrain == \A j \in Jobs : InFlight(j) ~> ~InFlight(j)

-----------------------------------------------------------------------------
\* What the queue promises about a job, whatever happens (see JobSpec).
Abs == INSTANCE JobSpec WITH
  status <- [j \in Jobs |->
               IF db[j] # Absent THEN db[j]
               ELSE IF j \in recorded THEN "gone" ELSE Absent],
  slot   <- IF updater.st = "idle" THEN NoJob ELSE updater.job

AbsSpec == Abs!Spec
=============================================================================
