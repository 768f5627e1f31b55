------------------------------- MODULE JobSpec -------------------------------
(***************************************************************************)
(* What dogeboxd promises about jobs, without queue, cache, goroutines or  *)
(* restarts: a job is recorded once, moves along its life cycle and ends   *)
(* with one outcome that is never revised; one job at a time is in the     *)
(* hands of the SystemUpdater, and a job in its hands is never declared    *)
(* orphaned.                                                               *)
(***************************************************************************)
CONSTANTS Jobs, NoJob

VARIABLES
  status,   \* status[j], as a client reads it
  slot      \* the job the SystemUpdater holds

specVars == <<status, slot>>

Init ==
  /\ status = [j \in Jobs |-> "none"]
  /\ slot = NoJob

Running(j) == status[j] \in {"queued", "in_progress"}

Record(j) ==
  /\ status[j] = "none"
  /\ status' = [status EXCEPT ![j] = "queued"]
  /\ UNCHANGED slot

Report(j) ==
  /\ status[j] = "queued"
  /\ status' = [status EXCEPT ![j] = "in_progress"]
  /\ UNCHANGED slot

Finish(j) ==
  /\ Running(j)
  /\ \E outcome \in {"completed", "failed"} :
       status' = [status EXCEPT ![j] = outcome]
  /\ UNCHANGED slot

Orphan(j) ==
  /\ Running(j) /\ slot # j
  /\ status' = [status EXCEPT ![j] = "orphaned"]
  /\ UNCHANGED slot

\* Deleted or cleared, for good; a batch of rows may go at once.
Remove(S) ==
  /\ status' = [j \in Jobs |->
                  IF j \in S /\ status[j] # "none" THEN "gone" ELSE status[j]]
  /\ UNCHANGED slot

Take(j) == slot = NoJob /\ slot' = j /\ UNCHANGED status

Release == slot' = NoJob /\ UNCHANGED status

\* A restarted process settles some of the jobs it finds running.
Recover(S) ==
  /\ slot = NoJob
  /\ \E outcome \in {"completed", "failed"} :
       status' = [j \in Jobs |->
                    IF j \in S /\ Running(j) THEN outcome ELSE status[j]]
  /\ UNCHANGED slot

Next ==
  \/ \E j \in Jobs : Record(j) \/ Report(j) \/ Finish(j) \/ Orphan(j) \/ Take(j)
  \/ Release
  \/ \E S \in SUBSET Jobs : Remove(S) \/ Recover(S)

Spec == Init /\ [][Next]_specVars
=============================================================================
