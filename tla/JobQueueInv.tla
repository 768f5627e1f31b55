----------------------------- MODULE JobQueueInv -----------------------------
(***************************************************************************)
(* The inductive invariant of JobQueue, in named parts.  TLC checks it on  *)
(* small instances, JobQueueProofs proves it for all.                      *)
(***************************************************************************)
EXTENDS JobQueue

\* Where the main loop holds a job in mj.
Holding == {"create", "dispatch", "enqueue", "direct", "pumplog", "handover",
            "finlog", "complete", "finerr", "finactive", "fincomplete",
            "finclear", "unlock"}

\* ... that did not come from the updater, or may not have.
OwnWork == {"create", "dispatch", "enqueue", "direct", "finerr", "finactive",
            "fincomplete"}

Kids(S) == UNION {ToSet(SubJobs[j]) : j \in S}

\* The jobs no processing of which has begun: not yet submitted, waiting in
\* the channel or in a batch, and the sub-jobs of all these.
Unsplit == fresh \cup ToSet(inbox)
Ahead   == Unsplit \cup Kids(Unsplit) \cup ToSet(todo)

\* The loop, the slot and the updater agree on who works on what.
SlotInv ==
  /\ locked <=> current # NoJob
  /\ updater.st # "idle" => locked /\ updater.job = current /\ mj # current
  /\ pc \in {"pumplog", "handover"} => updater.st = "idle"
  /\ pc \in {"pumplog", "handover", "finlog", "complete", "unlock"} => mj = current
  /\ pc \in {"create", "dispatch", "enqueue", "direct"} => mj # current
  /\ pc \in Holding <=> mj # NoJob

\* A job is at one place at a time, and none ahead is anywhere further on.
AheadInv ==
  /\ Unsplit \cap Children = {}
  /\ fresh \cap ToSet(inbox) = {}
  /\ IsInjective(inbox) /\ IsInjective(todo)
  /\ ToSet(todo) \cap (Unsplit \cup Kids(Unsplit)) = {}
  /\ Ahead \cap (recorded \cup ToSet(queue) \cup {mj, current}) = {}
  /\ pc = "create" => mj \notin recorded

QueuedOnce ==
  /\ IsInjective(queue)
  /\ current \notin ToSet(queue) /\ mj \notin ToSet(queue)

\* The jobs of the loop that have a record are visible to the scans.
VisibleInv ==
  pc \in OwnWork /\ (pc = "create" \/ mj \in recorded)
    => mj \in nonQueued \cup {current}

\* What a scan is about to mark, and what a client deletes, is out of flight.
ScanInv ==
  \A s \in Scanners :
    /\ scan[s].jobs \subseteq recorded
    /\ scan[s].st = "mark" => \A j \in scan[s].jobs : ~InFlight(j)

DeleteInv ==
  /\ deleted \subseteq recorded
  /\ del.st # "idle" => del.job \in recorded
  /\ del.st = "delete" => ~InFlight(del.job)
  /\ DeletedNeverRuns

NoOrphanInFlight ==
  \A j \in Jobs : InFlight(j) => db[j] # "orphaned" /\ cache[j] # "orphaned"

\* Before the recoveries are through, nothing but they is at work.
BootInv ==
  ~Up => /\ inbox = <<>> /\ queue = <<>> /\ todo = <<>> /\ mj = NoJob
         /\ updater = Idle /\ del = NoDelete /\ pending = {}
         /\ \A s \in Scanners : scan[s] = NoScan
         /\ \A j \in Jobs : cache[j] = Absent

\* A cached record is no further than its row, and a finished one is its row
\* (with CleanCalls).
CacheInv == \A j \in Jobs :
  /\ cache[j] = "queued" => db[j] = "queued"
  /\ cache[j] = "in_progress" => db[j] \in Active
  /\ cache[j] \in Terminal => db[j] = cache[j]

\* A job in flight has not got its outcome yet, but for the one the loop is
\* completing, and that has the outcome it will be given once more.
OutcomeInv == \A j \in Jobs :
  InFlight(j) /\ db[j] \notin Active \cup {Absent} =>
    mj = j /\ pc \in {"finerr", "finactive", "fincomplete"} /\ db[j] = Outcome(merr)

\* Nobody calls clear-completed: it takes neither jobsMutex nor the cache, and
\* a row it removes while the loop is about to complete the job for the second
\* time (dogeboxd.go:840) is written again.
CleanCalls == "clearCompleted" \notin WebCalls

FlowInv == TypeOK /\ OnlyRecordedKnown /\ SlotInv /\ AheadInv /\ QueuedOnce /\ VisibleInv

IInv == FlowInv /\ ScanInv /\ DeleteInv /\ NoOrphanInFlight
=============================================================================
