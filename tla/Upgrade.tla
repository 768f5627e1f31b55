------------------------------ MODULE Upgrade ------------------------------
(***************************************************************************)
(* System upgrades.  A SystemUpdate job stages the flake of a release and  *)
(* starts a transient systemd unit that rebuilds the system from it; the   *)
(* unit restarts dogeboxd half-way and goes on without it.  The next       *)
(* process settles the rows of the interrupted jobs and then, in a         *)
(* goroutine, runs the one post-upgrade migration there is: a box whose    *)
(* installed flake (/etc/nixos) is older than its release is to be updated *)
(* again.  On the way custom.nix moves to the data directory.              *)
(*                                                                         *)
(* A release is its place in the order of releases; 0 is a release file or *)
(* a flake without a version.  What happens to jobs on the way to the      *)
(* SystemUpdater is in JobQueue.                                           *)
(***************************************************************************)
EXTENDS Naturals, Sequences, FiniteSets

CONSTANTS Newest,       \* the newest release there will be
          PreReleases,  \* those that are pre-releases
          Threshold,    \* the release the migration brings the flake to
          Installed,    \* release and flake the box is found with
          Budgets       \* bounds: jobs requested over HTTP; failures, crashes and
                        \* power cuts

Versions == 1..Newest

ASSUME UpgradeAssumption ==
  /\ Newest \in Nat /\ Budgets \subseteq [requests : Nat, trouble : Nat]
  /\ Threshold \in Versions /\ PreReleases \subseteq Versions
  /\ Installed \subseteq [release : 0..Newest, flake : 0..Newest]
  /\ \A box \in Installed : box.flake <= box.release + 1  \* the flake follows the release

VARIABLES tags,     \* upstream: the newest release published
          release,  \* /opt/versioning/dbx
          flake,    \* dbxRelease in /etc/nixos/flake.nix
          staged,   \* releases with a staged flake directory
          unit,     \* how far the transient unit of each release has come
          record,   \* migrations.json
          custom,   \* custom.nix: the legacy file, and the one in the data directory
          rows,     \* the job records
          proc,     \* how far the process has started
          queue,    \* the job queue, by row
          upd,      \* where the SystemUpdater is, and the row it works on
          mig,      \* where the migration goroutine is, and the flake it has read
          left,     \* what is left of the bounds
          overlap   \* history: an update was begun beside the unit of an earlier process

installed == <<release, flake, staged, unit>>
process   == <<proc, queue, upd, mig>>
vars == <<tags, installed, record, custom, rows, process, left, overlap>>

Resting == [at |-> "idle", row |-> 0, ok |-> TRUE]
NoMigration == [at |-> "none", flake |-> 0]
Running == proc = "up"
Target(i) == rows[i].target
Active(i) == rows[i].status = "active"

Trouble == left.trouble > 0 /\ left' = [left EXCEPT !.trouble = @ - 1]

Init ==
  /\ tags \in Threshold..Newest
  /\ \E found \in Installed : release = found.release /\ flake = found.flake
  /\ staged = {} /\ unit = [v \in Versions |-> "none"]
  /\ record \in [pre : BOOLEAN, ran : {FALSE}, doNotRun : BOOLEAN]
  /\ custom \in [legacy : {"none", "user"}, kept : {"none"}]
  /\ rows = <<>>
  /\ proc = "down" /\ queue = <<>> /\ upd = Resting /\ mig = NoMigration
  /\ left \in Budgets /\ overlap = FALSE

(* A release is published.                                                   *)
Publish ==
  /\ tags < Newest /\ tags' = tags + 1
  /\ UNCHANGED <<installed, record, custom, rows, process, left, overlap>>

-----------------------------------------------------------------------------
(* Jobs.                                                                     *)

AddJob(kind, target, by) ==
  /\ rows' = Append(rows, [kind |-> kind, target |-> target, by |-> by, status |-> "active"])
  /\ queue' = Append(queue, Len(rows) + 1)

Requested ==
  /\ Running /\ left.requests > 0 /\ left' = [left EXCEPT !.requests = @ - 1]
  /\ UNCHANGED <<tags, installed, record, custom, proc, upd, mig, overlap>>

(* commenceUpdate takes any version.                                         *)
RequestUpdate(v) == Requested /\ AddJob("update", v, "user")
RequestCustomNix == Requested /\ AddJob("custom", 0, "user")

Settle(i, status) == rows' = [rows EXCEPT ![i].status = status]

-----------------------------------------------------------------------------
(* A process starts.                                                         *)

\* Mutant: the release alone shows that the update has landed.
ReleaseLanded(v) == release = v

Landed(v) == release = v /\ flake = v

(* ReconcileCompletedSystemUpdateJobs; nothing is reconciled when the flake  *)
(* has no version.                                                           *)
Reconcile ==
  /\ proc = "down" /\ proc' = "reconciled"
  /\ rows' = [i \in DOMAIN rows |->
       IF flake # 0 /\ Active(i) /\ rows[i].kind = "update" /\ Landed(Target(i))
         THEN [rows[i] EXCEPT !.status = "completed"] ELSE rows[i]]
  /\ UNCHANGED <<tags, installed, record, custom, queue, upd, mig, left, overlap>>

\* Mutant: only updates of the migration are cleared.
ClearOwn(i) == rows[i].by = "migration"

(* ClearInterruptedSystemJobs for the updates, ClearOrphanedJobs for others. *)
Clears(i) == TRUE

ClearInterrupted ==
  /\ proc = "reconciled" /\ proc' = "up"
  /\ rows' = [i \in DOMAIN rows |->
       IF Active(i) /\ Clears(i) THEN [rows[i] EXCEPT !.status = "failed"] ELSE rows[i]]
  /\ mig' = [NoMigration EXCEPT !.at = "evaluate"]
  /\ UNCHANGED <<tags, installed, record, custom, queue, upd, left, overlap>>

-----------------------------------------------------------------------------
(* The migration.                                                            *)

Migrate(at) == mig' = [mig EXCEPT !.at = at]

EvaluateRunDecision ==
  /\ mig.at = "evaluate"
  /\ Migrate(IF record.ran \/ record.doNotRun THEN "none" ELSE "required")
  /\ UNCHANGED <<tags, installed, record, custom, rows, proc, queue, upd, left, overlap>>

(* determineOSFlakeMigrationDecision reads the flake first.                  *)
ReadFlake ==
  /\ mig.at \in {"required", "run"}
  /\ mig' = [at |-> IF flake = 0 THEN "none"
                    ELSE IF mig.at = "required" THEN "requiring" ELSE "running",
             flake |-> flake]
  /\ UNCHANGED <<tags, installed, record, custom, rows, proc, queue, upd, left, overlap>>

Tags == 1..tags

(* GetUpgradableReleases: strictly newer ones; all of them are newer than a  *)
(* release that has no version.                                              *)
Upgradable(current, pre) ==
  {v \in Tags : v > current /\ (v \in PreReleases => pre)}

Latest(s) == CHOOSE v \in s : \A w \in s : w <= v

\* Mutant: the release stands for the flake.
CompleteByRelease == release >= Threshold

Complete == mig.flake >= Threshold /\ release >= Threshold

MarkCompleted == record' = [record EXCEPT !.ran = TRUE, !.doNotRun = TRUE]

(* The release to update to, or 0 when there is a reason against it.         *)
MigrationTarget ==
  LET releases == Upgradable(release, record.pre) IN
  IF mig.flake > Threshold THEN 0
  ELSE IF release >= Threshold THEN release
  ELSE IF releases # {} /\ mig.flake < Latest(releases) THEN Latest(releases) ELSE 0

(* osFlakeMigrationRequirements.  An error, of the network too, is a skip.   *)
Requirements ==
  /\ mig.at = "requiring"
  /\ IF release # 0 /\ Complete
       THEN MarkCompleted /\ Migrate("none") /\ UNCHANGED left
       ELSE /\ UNCHANGED record
            /\ \/ /\ Migrate(IF release # 0 /\ MigrationTarget # 0 THEN "run" ELSE "none")
                  /\ UNCHANGED left
               \/ Trouble /\ Migrate("none")
  /\ UNCHANGED <<tags, installed, custom, rows, proc, queue, upd, overlap>>

(* runOSFlakeMigration queues an update unless one is active.                *)
RunMigration ==
  /\ mig.at = "running" /\ Migrate("none")
  /\ IF /\ release # 0 /\ ~Complete /\ MigrationTarget # 0
        /\ ~\E i \in DOMAIN rows : Active(i) /\ rows[i].kind = "update"
       THEN AddJob("update", MigrationTarget, "migration")
       ELSE UNCHANGED <<rows, queue>>
  /\ UNCHANGED <<tags, installed, record, custom, proc, upd, left, overlap>>

-----------------------------------------------------------------------------
(* The SystemUpdater.                                                        *)

Job == upd.row
Go(at) == upd' = [upd EXCEPT !.at = at]
End(ok) == upd' = [upd EXCEPT !.at = "report", !.ok = ok]

TakeJob ==
  /\ Running /\ upd.at = "idle" /\ queue # <<>> /\ queue' = Tail(queue)
  /\ upd' = [at |-> IF rows[Head(queue)].kind = "update" THEN "legacy" ELSE "validate",
             row |-> Head(queue), ok |-> TRUE]
  /\ UNCHANGED <<tags, installed, record, custom, rows, proc, mig, left, overlap>>

(* MigrateLegacyCustomNix and moveFileWithVerification: the copy is begun,   *)
(* is finished or fails, is verified, and only then the legacy file goes.    *)
BeginMove ==
  /\ upd.at = "legacy"
  /\ IF custom.kept = "none" /\ custom.legacy # "none"
       THEN custom' = [custom EXCEPT !.kept = "torn"] /\ Go("copying")
       ELSE Go("check") /\ UNCHANGED custom
  /\ UNCHANGED <<tags, installed, record, rows, proc, queue, mig, left, overlap>>

\* Mutant: the legacy file goes before the copy is verified.
FinishMoveUnverified ==
  /\ upd.at = "copying"
  /\ \/ custom' = [legacy |-> "none", kept |-> custom.legacy] /\ Go("check") /\ UNCHANGED left
     \/ Trouble /\ custom' = [legacy |-> "none", kept |-> "none"] /\ End(FALSE)
  /\ UNCHANGED <<tags, installed, record, rows, proc, queue, mig, overlap>>

FinishMove ==
  /\ upd.at = "copying"
  /\ \/ custom' = [custom EXCEPT !.kept = custom.legacy] /\ Go("verified") /\ UNCHANGED left
     \/ Trouble /\ custom' = [custom EXCEPT !.kept = "none"] /\ End(FALSE)
  /\ UNCHANGED <<tags, installed, record, rows, proc, queue, mig, overlap>>

RemoveLegacy ==
  /\ upd.at = "verified"
  /\ custom' = [custom EXCEPT !.legacy = "none"] /\ Go("check")
  /\ UNCHANGED <<tags, installed, record, rows, proc, queue, mig, left, overlap>>

\* Mutant: any published release is taken.
AnyRelease(v) == v \in Tags

(* Pre-releases count; the tags are fetched again.                           *)
Available(v) == v \in Upgradable(release, TRUE)

CheckRelease ==
  /\ upd.at = "check"
  /\ \/ /\ UNCHANGED left
        /\ IF Available(Target(Job))
             THEN /\ Go("clone") /\ UNCHANGED rows
                  /\ overlap' = (overlap \/ \E v \in Versions : unit[v] # "none")
             ELSE End(FALSE) /\ Settle(Job, "unavailable") /\ UNCHANGED overlap
     \/ Trouble /\ End(FALSE) /\ UNCHANGED <<rows, overlap>>
  /\ UNCHANGED <<tags, installed, record, custom, proc, queue, mig>>

(* stageReleaseFlake: an earlier directory of the release is replaced.       *)
Stage ==
  /\ upd.at = "clone"
  /\ \/ staged' = staged \cup {Target(Job)} /\ Go("launch") /\ UNCHANGED left
     \/ Trouble /\ End(FALSE) /\ UNCHANGED staged
  /\ UNCHANGED <<tags, release, flake, unit, record, custom, rows, proc, queue, mig, overlap>>

(* _dbxroot nix rs --systemd-run --wait; two units cannot have one name.     *)
Launch ==
  /\ upd.at = "launch"
  /\ IF unit[Target(Job)] = "none"
       THEN unit' = [unit EXCEPT ![Target(Job)] = "build"] /\ Go("wait")
       ELSE End(FALSE) /\ UNCHANGED unit
  /\ UNCHANGED <<tags, release, flake, staged, record, custom, rows, proc, queue, mig, left,
                 overlap>>

(* SaveCustomNix: validate, write, rebuild.  A failed rebuild leaves the     *)
(* file; content that does not validate is never written.                    *)
Validate ==
  /\ upd.at = "validate"
  /\ \/ custom' = [custom EXCEPT !.kept = "torn"] /\ Go("writing") /\ UNCHANGED left
     \/ Trouble /\ End(FALSE) /\ UNCHANGED custom
  /\ UNCHANGED <<tags, installed, record, rows, proc, queue, mig, overlap>>

WriteCustom ==
  /\ upd.at = "writing" /\ custom' = [custom EXCEPT !.kept = "new"]
  /\ \/ End(TRUE) /\ UNCHANGED left
     \/ Trouble /\ End(FALSE)
  /\ UNCHANGED <<tags, installed, record, rows, proc, queue, mig, overlap>>

(* CompleteJob, which does not ask what the row says.                        *)
Report ==
  /\ upd.at = "report" /\ upd' = Resting
  /\ Settle(Job, IF upd.ok THEN "completed" ELSE "failed")
  /\ UNCHANGED <<tags, installed, record, custom, proc, queue, mig, left, overlap>>

-----------------------------------------------------------------------------
(* The transient unit (_dbxroot nix rs).                                     *)

Waited(v) == upd.at = "wait" /\ Target(Job) = v

UnitEnds(v, ok) ==
  /\ unit' = [unit EXCEPT ![v] = "none"]
  /\ IF Waited(v) THEN End(ok) ELSE UNCHANGED upd

Dies == proc' = "down" /\ queue' = <<>> /\ upd' = Resting /\ mig' = NoMigration

(* nixos-rebuild builds from the staged flake, which must be there.          *)
Build(v) ==
  /\ unit[v] = "build" /\ v \in staged
  /\ unit' = [unit EXCEPT ![v] = "switch"]
  /\ UNCHANGED <<tags, release, flake, staged, record, custom, rows, process, left, overlap>>

(* The activation puts the new release in place and may restart dogeboxd.    *)
Switch(v) ==
  /\ unit[v] = "switch" /\ release' = v
  /\ unit' = [unit EXCEPT ![v] = "copy"]
  /\ UNCHANGED process \/ (proc # "down" /\ Dies)
  /\ UNCHANGED <<tags, flake, staged, record, custom, rows, left, overlap>>

(* It copies the staged flake into /etc/nixos.                               *)
CopyFlake(v) ==
  /\ unit[v] = "copy" /\ v \in staged /\ flake' = v
  /\ unit' = [unit EXCEPT ![v] = "activate"]
  /\ UNCHANGED <<tags, release, staged, record, custom, rows, process, left, overlap>>

(* The system is activated once more, and the staged flake is removed.       *)
Activate(v) ==
  /\ unit[v] = "activate" /\ staged' = staged \ {v} /\ UnitEnds(v, TRUE)
  /\ UNCHANGED <<tags, release, flake, record, custom, rows, proc, queue, mig, left, overlap>>

(* A failure leaves the staged flake behind.                                 *)
UnitFails(v) ==
  /\ unit[v] # "none"
  /\ IF unit[v] \in {"build", "copy"} /\ v \notin staged THEN UNCHANGED left ELSE Trouble
  /\ UnitEnds(v, FALSE)
  /\ UNCHANGED <<tags, release, flake, staged, record, custom, rows, proc, queue, mig, overlap>>

(* dogeboxd dies, or the box does and its units with it.                     *)
Crash ==
  /\ Trouble /\ proc # "down" /\ Dies
  /\ UNCHANGED unit \/ unit' = [v \in Versions |-> "none"]
  /\ UNCHANGED <<tags, release, flake, staged, record, custom, rows, overlap>>

-----------------------------------------------------------------------------
Boot == Reconcile \/ ClearInterrupted
Migration == EvaluateRunDecision \/ ReadFlake \/ Requirements \/ RunMigration
Updater == TakeJob \/ BeginMove \/ FinishMove \/ RemoveLegacy \/ CheckRelease \/ Stage \/ Launch
           \/ Validate \/ WriteCustom \/ Report
Unit(v) == Build(v) \/ Switch(v) \/ CopyFlake(v) \/ Activate(v) \/ UnitFails(v)

Next == \/ Boot \/ Migration \/ Updater \/ (\E v \in Versions : Unit(v))
        \/ (\E v \in Versions : RequestUpdate(v)) \/ RequestCustomNix \/ Publish \/ Crash

Spec == Init /\ [][Next]_vars
FairSpec == /\ Spec
            /\ WF_vars(Boot) /\ WF_vars(Migration) /\ WF_vars(Updater)
            /\ \A v \in Versions : WF_vars(Unit(v))
-----------------------------------------------------------------------------
Statuses == {"active", "completed", "failed", "unavailable"}
Rows == [kind : {"update", "custom"}, target : 0..Newest, by : {"user", "migration"},
         status : Statuses]
Updating == {"idle", "legacy", "copying", "verified", "check", "clone", "launch", "wait",
             "validate", "writing", "report"}
Migrating == {"none", "evaluate", "required", "requiring", "run", "running"}

(* The types; a goroutine works only in a process, on a row there is.        *)
TypeOK ==
  /\ tags \in Versions /\ release \in 0..Newest /\ flake \in 0..Newest
  /\ staged \subseteq 0..Newest
  /\ unit \in [Versions -> {"none", "build", "switch", "copy", "activate"}]
  /\ record \in [pre : BOOLEAN, ran : BOOLEAN, doNotRun : BOOLEAN]
  /\ custom \in [legacy : {"none", "user"}, kept : {"none", "torn", "user", "new"}]
  /\ rows \in Seq(Rows) /\ queue \in Seq(1..Len(rows))
  /\ proc \in {"down", "reconciled", "up"}
  /\ upd \in [at : Updating, row : 0..Len(rows), ok : BOOLEAN]
  /\ mig \in [at : Migrating, flake : 0..Newest]
  /\ left \in [requests : Nat, trouble : Nat] /\ overlap \in BOOLEAN
  /\ proc # "up" => queue = <<>> /\ upd = Resting /\ mig = NoMigration
  /\ upd.at # "idle" => upd.row # 0

(* An update whose row says completed has landed, release and flake, however *)
(* the process that ran it ended (ReconcileCompletedSystemUpdateJobs).       *)
CompletedHasLanded ==
  \A i \in DOMAIN rows : rows[i].status = "completed" /\ rows[i].kind = "update" =>
    overlap \/ (release >= Target(i) /\ flake >= Target(i))

(* A migration recorded as run has been needed no longer: flake and release  *)
(* are at the threshold, although the two are read at different times while  *)
(* a unit may be changing them (osFlakeMigrationRequirements).               *)
RecordedHasLanded ==
  record.ran => overlap \/ (release >= Threshold /\ flake >= Threshold)

(* Whatever waits in the queue, an update never takes the box back to an     *)
(* older release, unless a unit of a dead process still runs beside it.      *)
NoStepBack == [][overlap \/ (release' >= release /\ flake' >= flake)]_vars

(* "verify the copied contents match, and only then remove the old file":    *)
(* the user's custom.nix is in one of its two places until the user saves    *)
(* another, across failures and crashes.                                     *)
Overwritten == \E i \in DOMAIN rows : rows[i].kind = "custom"
UserNixKept == [][("user" \in {custom.legacy, custom.kept} =>
                    "user" \in {custom.legacy', custom.kept'} \/ Overwritten)]_vars

(* "if they remain active they keep the updates UI locked": again and again  *)
(* there is a time when no job is active, whatever dies and whenever: rows   *)
(* are settled by their process or by a later one.                           *)
UpdatesUnlock == []<>(\A i \in DOMAIN rows : ~Active(i))

(* "Re-run the current release so activation can copy the staged flake into  *)
(* place": the update the migration asks for is one the updater takes.       *)
MigrationIsTaken ==
  \A i \in DOMAIN rows : rows[i].by = "migration" => rows[i].status # "unavailable"
=============================================================================
