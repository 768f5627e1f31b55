# A verification project for dogeboxd

dogeboxd is the daemon of a Dogebox: it accepts actions over REST, turns them
into jobs, runs the long ones one at a time through nix rebuilds, keeps the
state of the installed pups, looks for updates, updates its own system, sets a
new box up, and relays changes to websocket clients. This directory holds TLA+
modules that model it and two of its terminal programs (the setup wizard and
dbx-dev), TLC configurations that check them on small instances, and TLAPS
proofs.

## 1. Inventory

| Component | State | Operations | Hard behaviour | What makes it correct |
|---|---|---|---|---|
| Job store (`pkg/jobs.go`, `pkg/store.go`) | a row per job in SQLite; `activeJobs`, a cache of records | create, progress, complete, orphan, delete, clear, three recoveries | cached records are mutated before the row is written; some SQL runs without the mutex; finished records are loaded back into the cache | a finished or deleted job is never active again; the cache never outlives the row |
| Main loop and queue (`pkg/dogeboxd.go`) | `jobs` channel, `jobQueue`, `nonQueuedActiveJobs`, `currentSystemJobID`, `jobInProgress` | `AddAction`, dispatch, `enqueue`, `pumpQueue`, completion, orphan scan | scans read rows and runtime jobs at different times; two unbuffered channels between loop and updater | no live job is orphaned; one job at a time; every job leaves |
| SystemUpdater (`pkg/system/updater.go`) | the job it works on; pup state and files | install, upgrade, rollback, purge, enable, disable, import, bootstrap, system update | state attached to a job at dispatch is stale when it runs; several steps, each may fail | a pup ends in a state its owner can act on |
| Web job handlers (`pkg/web/jobs.go`) | none | delete, clear, dev candidate | check, then act, without a lock | only jobs that will not run are deleted; what dispatch has done stays |
| Pup manager (`pkg/pup`) | pup states (gob files), stats, subscribers, addresses | adopt, update, purge, poll, fast-poll | maps shared without locks, stale snapshots saved | memory and disk agree; a pup's status comes right |
| Update checker (`pkg/pup/update_checker.go`) | cache in memory and on disk, ten events | check all, check one, clear, periodic check | three goroutines check while jobs change versions; events are dropped | answers settle on the installed version; no needed refresh is lost |
| Sources (`pkg/sources`) | the source list, saved and in memory; cached manifests | add, remove, list, download | the list is changed before it is saved, by several requests at once; refresh against removal | an added source stays |
| Nix patches (`pkg/system/nix`) | a snapshot directory and a state per patch | apply, cancel, roll back | the failure path runs in a state that its own guard refuses | a patch that is applied is what runs |
| System upgrades (`pkg/system/upgrades.go`, `_dbxroot nix rs`) | releases, staged flakes, a transient unit | find, check, stage, rebuild | the unit restarts the daemon that waits for it | a completed update has landed; never a step back |
| Migrations (`pkg/system/migrations`) | `migrations.json` | evaluate, run, record | two files read at different times; a crash between running and recording | recorded only when it has taken effect |
| Setup, bootstrap, recovery (`pkg/web/setup.go`, `pkg/system/bootstrap.go`, `recovery.go`) | the Dogebox and network sections, marker files, two disks | settings, key, network, bootstrap in a dozen steps, recovery mode | a failing step in the middle; the data directory moves under the open database | what was answered OK survives; configured means complete |
| State manager (`pkg/system/state.go`) | the network, dogebox and source sections | get a copy, set, save | read-modify-write by several goroutines | no flag of a finished bootstrap is lost |
| Setup wizard (`cmd/dbx-setup`) | the page, the answers | ask, generate the key, finalize | late answers; the bootstrap's answer is ignored | formats only what was confirmed |
| dbx-dev (`cmd/dbx-dev`) | tasks of the create-pup flow, websocket | clone, add source, install, watch the job | answers over HTTP cross events of a websocket that may be lost | the tasks end and the keyboard comes back |
| Conductor (`pkg/conductor`) | services, their channels | start, stop | two receivers on one stop channel, timeouts | shutdown ends |
| Monitor (`pkg/system/monitor.go`) | the services it watches | add, fast-watch, poll | bounded channels, dropped samples | the status shown settles on what runs |
| Websocket relay (`pkg/web/websocket*.go`) | clients, `Changes` | bootstrap, broadcast | changes made while a client connects; a send may be dropped | a client misses nothing that was taken |
| Log tailing (`pkg/system/logtailer.go`, `pkg/web/logs.go`) | offset, channel | page, resume, tail | growth between page and tail | no hole |
| Sessions and keys, REST handlers, network, manifest checks, `_dbxroot`, generated protocol | - | - | - | see section 8 |

How they interact. REST handlers call `AddAction`, which puts a job on a channel
of 256. The main loop takes it, records it, and either finishes it itself
(provider, hook and configuration changes, update checks) or appends it to the
queue. Every 100 ms the loop hands one queued job to the SystemUpdater over an
unbuffered channel and gets it back over another. Everybody reports progress
through the job store. Orphan scans run on a 60 s ticker of the loop and in the
bootstrap of every job websocket. The updater changes pups through the pup
manager, downloads them through the sources, and changes the system through nix
patches; so does the main loop for configuration changes. The update checker
runs in goroutines of its own and tells the loop by events. Changes go to the
websocket relay. The conductor starts and stops the loop, the updater, the pup
manager, the monitor and the web servers.

## 2. Plan

1. `JobStore`, `JobQueue`, `JobSpec` and their proofs: the pipeline every other
   part depends on. *Done.*
2. `NixConfig`, `NixPatch` and their proofs: patches applied by the loop and the
   updater at the same time. *Done.*
3. `PupLifecycle`: install, upgrade, rollback, uninstall, purge, enable, disable,
   import and configuration changes. *Modelled and checked; proved except for
   liveness.*
4. `Setup`, `SetupWizard`: the bootstrap of a box with crashes and failures
   anywhere, and the program that drives it. *Modelled and checked; proved
   except for liveness.*
5. `Sources`, `Updates`: the update checker beside the jobs. *Modelled and
   checked; proved except for liveness.*
6. `Upgrade`: system updates over restarts, and the migration. *Modelled and
   checked; proved except for liveness.*
7. `LogStream`, `Relay`, `DevClient`, `Monitor`, `Services`: small parts with a
   race each. *Modelled and checked; `NothingMissed` of `Relay` and `NoGap` of
   `LogStream` are proved.*

Left: `Settled` of `PupLifecycle` for upgrades and rollbacks, of which it is not
true as it stands; the address pool of the pup manager; `RemoveSource` between its
test and its removal.

Abstract specifications: the life cycle of a job (`JobSpec`, which `JobQueue`
implements) and applying a configuration (`NixConfig`, which `NixPatch`
implements). Composition: `PupLifecycle` runs its two goroutines over
`NixConfig`; `Updates` runs the checker and the jobs over `Sources`;
`SetupWizard` drives `Setup`; `MCParts` puts the small parts beside each other.

## 3. Modules

| Module | Models | State and actions |
|---|---|---|
| `JobStore` | `JobManager` | `db` the rows, `cache` `activeJobs`; one operator per method, each atomic as in the code (`jobsMutex`, or one SQL statement); `ok` is the outcome of the write |
| `JobQueue` | main loop, updater, scans, web handlers, restart | one action per critical section or channel operation; `pc` is the place in the main loop, `mj` the job in its hands |
| `JobSpec` | what a client may rely on | a status per job and the updater's slot |
| `JobQueueInv` | - | the inductive invariant `IInv` in named parts, and what the cache, the boot and the refinement add to it |
| `NixConfig` | what a caller of `nixPatch.Apply` may count on | `nixDir`, `running` (the files the system was built from), per caller the writes left; `Write`, `Evaluate`, `Switch`, `Fail` |
| `NixPatch` | `nix-patch.go` | the state and the operations of a `nixPatch`, `at` the place in `ApplyCustom`, the snapshot directories by second, the boot configuration; one action per step |
| `PupLifecycle` | `system/updater.go` (pup jobs), `pup/actions.go`, `storage.go`, the snapshots and recovery of `pup/manager.go`, the pup actions of `dogeboxd.go` | `pup` (memory), `disk` (gob files), `files` (downloaded version), `snapshot`, `queue`; `work[a]` is the job a goroutine is at and where in it, `saving[a]` what it has encoded and not renamed; `withdrawn` and `left` are histories: the queued jobs a user deleted, the states the last crash left; EXTENDS `NixConfig` |
| `Setup` | `web/setup.go`, `bootstrap.go`, `recovery.go`, `state.go`, the network manager, key creation, start of the process | what the box has on its boot disk and on the chosen one, the sections in memory, the marker files, the handler or bootstrap step each client and the updater is at |
| `SetupWizard` | `cmd/dbx-setup` | page, answers and outstanding command of the wizard; EXTENDS `Setup` |
| `Sources` | `pkg/sources` | the list in memory and as saved, what is published, each git source's cached listing; adding and removing by several clients at once, listing, cloning |
| `Updates` | `update_checker.go`, `pup_updates.go`, the jobs that change versions | per goroutine the check it is in and what it has read, the cache in memory and on disk, the event channel, what the frontend shows; EXTENDS `Sources` |
| `Upgrade` | `upgrades.go`, `_dbxroot nix rs`, the runner and the one migration, custom.nix, the recovery of interrupted updates | release, flake, staged flakes, how far each unit is, `migrations.json`, the two places of custom.nix, rows, queue, updater, migration goroutine |
| `LogStream` | `logtailer.go`, `logs.go`, the log socket | a log as the number of its lines, what the client holds, its token, tailer, pump and socket |
| `Relay` | `SendChange`, the relay, a client's bootstrap | changes made, offered, in the channel; per client what it has been sent |
| `DevClient` | the create-pup flow of `cmd/dbx-dev` | tasks, commands in flight, the websocket, the job and the pup at the daemon |
| `Monitor` | `monitor.go`, `PupManager.Run`, the derived status | units, what is watched, the lists and samples in the channels |
| `Services` | `conductor.go`, the services it runs, signals | which services run, who has called Stop and how far it is |
| `PupLifecycleInv` | - | the inductive invariant of `PupLifecycle` in named parts |
| `JobStoreProofs`, `JobQueueProofs`, `NixPatchProofs`, `PupLifecycleProofs`, `SetupProofs`, `UpdatesProofs`, `UpgradeProofs`, `StreamProofs` (of `LogStream` and `Relay`) | - | inductive invariants and theorems |
| `MCJobQueue`, `MCNixPatch`, `MCPupLifecycle`, `MCSetup`, `MCUpdates`, `MCUpgrade`, `MCParts` | - | the instances |

Definitions marked "Mutant" are alternative bodies of the operator below them,
each a plausible bug that a property must detect.

### Jobs, patches and pups

A job is its identity, its class (`Kind`: how `jobDispatcher` treats its action)
and, for `InstallPups`, its sub-jobs. Of a record only the status is kept.
Fields, wording, progress numbers and change events are left out. Goroutines are interleaved at locks, SQL
statements and channel operations; data between them is private to one
goroutine. A crash loses everything but `db`.

In `NixPatch` a file is written in one step and a directory copied in one; an
operation is a file and what it will hold, fixed when it is added, as the
closures of `nix-patch.go` fix their template values. A failing operation leaves
its file alone (a half-written file is not modelled). The rebuild reads the
directory at its start and switches at its end, so writes of another goroutine in
between are not part of it.

In `PupLifecycle` a pup is its installation state, `Enabled` and its version. A
job walks through labels; each `UpdatePup` changes memory in one step and is
saved in a second one (`Saved`), in which the encoder may have seen any of the
fields before or after a concurrent change; the rename is part of that step. The
job record's `State` is `seen`, read at dispatch as
`sendSystemJobWithPupDetails` does. `Restart` loads what is on disk and marks
INSTALLING pups BROKEN. All pups are of one manifest of one source and are told
apart by their version, which is what `AdoptPup` tests; an import is into any of
them; the box may be found with pups (`Found`). The container commands, keys,
storage and configuration of one job are one step that may fail (`PreparePup`),
as nothing else reads them. Configuration and provider changes that lead to a
rebuild are `"config"`, those that only save (hooks, providers of a pup that
cannot start) `"touch"`. `DELETE /jobs` takes any queued job out
(`RemoveFromQueue`) and leaves what its dispatch has done: the pup saved as
INSTALLING, or the flipped flag. `withdrawn` keeps the kind and the pup of what
was deleted; an enable or disable leaves it when the updater takes up another one
of that pup. Not modelled: a restart whose own saves fail, temporary
files left by a crash, pup health.

### Setup

The three settings with a handler each (host name, keymap, time zone) are one,
`named`; SSH and binary caches are `extra`; the sidebar and the welcome flag are
`pin`. A network is set or not; a start loads the network section as empty if there is a network in
its row, because the row cannot be decoded (`Loaded`), and `forgotten` is the
history of a start that has so lost the current one. An error in writing or
removing the recovery files at a start is logged and passed over; `unmarked` says
that it happened at this start. There is one storage device beside the medium the
box boots from; a list of disks may come without that medium, or empty. A handler reads a section, changes its copy and writes it
back in two steps, between which others run (`Reads`). A write to a disk is one
step; the bootstrap's copying between disks is one step per call, and a crash or
failure after the overlay is mounted and before the copy is back sets the
history variable `interrupted`. `acked` holds what an answer or a finished job has
confirmed; what a request removes leaves it at the request's assignment, since from
there on the removal may take effect even if it is refused. Of the wizard's
storage page, `chosen` is what was selected when the user pressed Enter and
`confirmed` that choice when the wizard makes its last requests, which follow the
selection of that moment; both are `"defaulted"` once a list without the boot
medium has come after Enter and has selected its first device. `lost` is the history of which settings two
handlers that overlapped have overwritten for each other: that loss is what the
code does, and the properties except it by name. The wizard runs as a second
process against the same handlers, beside a browser (`Panel`); what it may choose
on its keymap and network pages is left open.

### Updates and sources

A version is a rank; invalid tags and manifests are no versions; a pup has one
source. A save of the cache is one step. The periodic check, the check after a
job and the clearing of an entry are goroutines that run beside each other, at
most one of each kind; the requests that edit the list of sources come from any
number of clients (`Admins`: the frontend, dbx-dev and others) and run at the same
time. An edit reads the list, stores the one it made of it, reads the list once
more and stores that one as saved, each in a step of its own, as there is no lock;
a removal works on the index it has read, and moves what follows down before it
stores the shorter list. `crossed` is the history of an edit that stored or saved
a list made from one that another edit had replaced meanwhile, or that removed
what another had put at its index. Calls to a remote end, with an answer or an error. `Budgets` bounds jobs, edits of the
source list or of what is published, and failures or crashes together; the event
channel holds 1 instead of 10 (`MaxEvents`). The frontend reads the answers in one
step when it has heard an event.

### System updates

A release is its rank; 0 is a file without a version. What NixOS does when it
activates a system is external: it puts the release file in place, may restart
dogeboxd or not, and then copies the flake. In the code's order the release
comes before the flake, which is the pessimistic one for the reconciliation. The
unit of a release goes on when the daemon dies and ends with the box. `overlap`
is the history of an update begun beside the unit of a dead process (section 5):
the properties except it by name.

### The small parts

The five modules share no state; `MCParts` checks one at a time (`part`), each
from its own initial states, so that its state space is the sum and not the
product of theirs. In `LogStream` a log is a number of lines and a page, a
token and the client's view are ranges of them; `Limit`, `Capacity` and
`Longest` stand for page size, channel and log length. In `Relay` a change is its
number. In `Monitor` a unit runs or not and a sample says so; `crossed` is the
history of a list of services that overtook a newer one. In `DevClient` the
daemon's side is reduced to the answers it may give, in the order it may give
them; any event may get lost on its way to the relay (`sendPupdate` drops what
finds the channel full, `SendChange` gives up after 200 ms), anybody may delete
the queued job, and `stuck` is the history of why the program can wait for ever. In `Services` a service is at one of five places, the services in `Twins`
have two goroutines that receive from one stop channel, and `late` is the history
of a start that timed out while a signal was being handled.

## 4. Runs

| Run | Question | Instance |
|---|---|---|
| `races` | do scans, deletion, clear-completed and the loop keep live jobs visible and unorphaned, and one job at a time running? | an `InstallPups` of 2 pups, a direct job, 2 scanners |
| `crash` | do a restart anywhere, failing writes, bulk deletion and rows without a worker keep the life cycle of `JobSpec`? | a system update, a configuration change, a row of the dev endpoint, 1 restart |
| `live` | does every row settle, every job leave? | 2 nix cache updates around a direct job, 1 restart |
| `nix_patch` | do overlapping patches that share snapshot directories do what their callers see, and does a patch applied alone leave the system built from NixDir? | 2 patchers, 1 file, 1 operation, 2 seconds, 1 crash |
| `nix_rollback` | does a failed patch leave NixDir as it was? (no) | 1 patcher |
| `pup_jobs` | do jobs of every kind, failing anywhere or deleted from the queue, leave a pup in a state its owner can act on, after a crash too, and do they end? | 1 pup, 2 requests of 10 kinds, deletions, 7 kinds of faults, 1 crash |
| `pup_settled` | does the system run what the user asked for when all jobs are done? | 2 pups found in 5 states, 3 requests of 7 kinds, deletions of queued jobs, no faults |
| `setup` | does what was answered OK survive, does every process agree on recovery mode, is a configured box complete, does the bootstrap finish, does the wizard format only what was confirmed? | the wizard and a second frontend, 1 storage device, 1 failure or crash anywhere, at a start too |
| `updates` | do the answers of the checker settle on what is installed and published, is the frontend told, does an added source stay saved while two clients edit the list at once? | a git and a directory source, 2 clients, 1 pup, 2 versions, 5 kinds of jobs; a job and a failure, a job and an edit of the list, two edits and a failure or crash, or three edits |
| `upgrade` | do rows and records say what landed, is no step taken back, does the interface unlock, is custom.nix kept? | 3 releases, one of them a prerelease, 4 kinds of found boxes; 2 requests, or 1 and a failure or crash |
| `parts` | is there a hole in a log, a change a client misses, a task list that never ends, a status that stays wrong, a shutdown that hangs? | logs of 8 lines with pages and channels of 1; 2 clients and 3 changes; 1 pup; 3 services and 2 signals |
| `migration_refused` | is the migration of the flake taken when it is asked for? (no) | as `upgrade` |

Bounds. `JobsCap` stands for 256: with 1 or 2 both a full and a non-full channel
occur. Two jobs are what a race needs; the sub-jobs of a batch give a queue with
one ahead and one behind. One restart is enough for the store, as a restart keeps
nothing but rows and any set of rows may precede it. Two patchers are all there
are (loop and updater); two seconds tell a shared snapshot directory from two of
their own. In the pup runs a box is found with pups in states that earlier jobs
may have left (`Found`), so that two requests queue two jobs with different states
attached. In `setup` one trouble at each of the bootstrap's steps reaches each
half-done box; a second one would meet a box that one crash can also leave. In
`updates` one edit of the list against one check, or one job against one check, is
what a stale write takes. Two edits at once and a third before or after
them shorten and lengthen the list around each other, and with two sources in the
list a removal may have something behind its index. In `setup` a second storage device would
add one case only, the selection of an unconfirmed device by a late list, which
`FormatsOnlyConfirmed` excepts as such and which one device shows already. In `upgrade` three releases leave one below the
migration's threshold, one at it and one above. In `parts` a page or a channel of
one element makes every boundary occur. The theorems hold for all values.

Some properties hold only where they say so:

* `Settled` (`pup_settled`) leaves out upgrades and rollbacks, which take a pup
  that is not enabled out of the includes file, configuration changes, whose
  patch by the main loop crosses the updater's (`dogeboxd.go:670`; adding
  `"config"` to the kinds shows it), and faults, after which a pup is BROKEN and
  its files may well be part of the system. It also excepts a READY pup whose queued
  enable or disable was deleted, and a pup that stays INSTALLING because its queued
  install was deleted (`Withdrawn`).
* `WorkInProgress` (`pup_jobs`) excepts a pup whose queued install was deleted, and
  one that is still in the state the last crash has left it in (`left`), which is
  never INSTALLING; a pup that any later job leaves behind is seen.
* `AddedStaysSaved` (`updates`) holds until the first edit that overwrites another
  (`crossed`), and covers all the overlapping edits before it.
* `ModeAgrees` excepts a start that could not write or remove its recovery files
  (`unmarked`); `ConfiguredIsComplete` accepts a pending network for the current
  one after a start that could not read that back (`forgotten`);
  `FormatsOnlyConfirmed` excepts a selection made by a late list without the boot
  medium (`"defaulted"`).
* `SavedIsCurrent` and, after a crash, `ReadyHasFiles` (`pup_jobs`) leave out
  pups in `unsure`: those of which a save failed, after which memory is ahead of
  the disk by the code's design, and those the main loop saved (enable, disable,
  configuration, hooks) while the updater worked on them: two saves of one pup
  have no lock between encoding and rename and can overtake each other
  (`pup/storage.go:70`).
* the properties of `Setup` except the settings in `lost`, overwritten by another
  handler of the same section; those of `Upgrade` stop at `overlap`; `TasksEnd`
  excepts a task list that ends up in `stuck` (begun without a session, no event of
  the job's end reached the program, the job failed before its id was known, or was
  deleted from the queue), `StatusSettles` a pup in
  `crossed`, `ShutdownEnds` a start that is `late`. Each of these is named in
  section 5: it is what the code does.

Fairness. In `live` the loop's `select` chooses uniformly among ready cases, so a
case that is ready again and again is taken: strong fairness for receiving,
pumping, completion and the ticker. Once begun, a loop body and a scan run to
their end: weak fairness. The updater finishes what it works on: the commands it
runs (nix rebuilds) are assumed to end, as the code sets no timeout on most. In
`pup_jobs`, `setup`, `updates`, `upgrade` and `parts` the steps of each goroutine
or program are weakly fair for the same reason: sequential code whose commands
and calls to other hosts end, with an answer or an error; in `setup` and
`upgrade` a process that has died is started again, as the unit of dogeboxd
restarts always (systemd, not in this repository), and a transient unit ends. Only the monitor's
hand-over of samples (`HandedOver`) is strongly fair: it drops them when the
manager is busy at that moment, which is not so at every tick of its timer for
ever. No fairness is assumed for users, web clients, crashes, publishing, signals
or the loss of a connection.

The deadlock check is off where the bounded number of requests lets the system
stop (the pup runs, `setup`, `updates`, `upgrade`, `parts`).

No run repeats what is proved about a module alone: `JobStore` is checked within
`JobQueue`, and the type invariants of `JobStore`, `NixPatch` and `Upgrade` are
theorems.

## 5. Findings

Shown by a run:

* `nix_rollback`: a failed patch is not rolled back: `doRollback` returns at once
  in the state `triggerRollback` has just set (`nix-patch.go:214`).
* `migration_refused`: the migration asks for the release that runs, and the
  updater takes newer ones only, so a half-activated box stays half-activated
  (`upgrades.go:301`).

Noted while modelling, part of the models but of no run of their own.

Jobs and pups:

* a job that failed in the updater is completed twice, as logging its error brings
  the finished record back into `activeJobs` (`dogeboxd.go:840`); clear-completed
  in between is undone by the second one (`jobs.go:212`).
* `deleteJob` tests a status it has read earlier: a job that ran to its end in
  between is deleted, although "only queued jobs can be deleted"
  (`web/jobs.go:162`).
* deleting a queued job leaves what its dispatch has done
  (`dogeboxd.go:386`): the pup of a deleted install, which `AdoptPup` has saved,
  stays INSTALLING until the next start (`dogeboxd.go:607-626`), and after a deleted
  enable or disable the flag says what the system does not do
  (`dogeboxd.go:511-526`).
* a purge tests the dispatch-time state (`updater.go:441`), an upgrade makes its
  rollback snapshot of it (`updater.go:843`).
* an upgrade of a pup that is not enabled takes it out of the includes file, and
  enabling it does not put it back (`updater.go:905`).
* `StopPup` rebuilds from files that still say enabled (`pup/manager.go:296`).
* an import disables the pup until the copy is done; a crash in between leaves it
  disabled (`updater.go:568`).
* only `AdoptPup` tests that no pup of this manifest and version exists
  (`pup/actions.go:27`): an upgrade of another pup can make a second one.
* the last address in use is computed octet by octet (`pup/manager.go:89`).

Setup:

* when the key manager cannot be reached, the answer still sets "has generated a
  key"; `SeedMeansKey` therefore speaks of a key that was confirmed.
* a bootstrap that failed after its source was saved, or after the overlay was
  mounted, cannot be run again to its end; the pending network is consumed by a
  bootstrap that failed later.
* choosing the boot medium after another device leaves the other one recorded.
* the wizard cannot go on after an error at key generation, nor resume once there
  is a key, and it shows Complete whatever the bootstrap answered.
* a network section with a network in it cannot be read back: its fields are
  interfaces (`sys.go:117-120`, `store.go:105-115`), so after every restart the
  daemon has no networks (`state.go:48-53`), and setting a pending one then
  (`network/linux.go:174-176`) saves the section without the current one.
* an error in writing or removing the recovery files is logged, and the daemon goes
  on in the mode they do not show (`main.go:95-97`, `103-105`).
* in the wizard, a list of disks that arrives late and lacks the boot medium selects
  its first device, whatever the user has confirmed (`dbx-setup/model.go:167-170`).
* a crash after the overlay is mounted and before the data is copied back leaves a
  box that starts empty; `DidEnterRecovery` removes the forcing marker before it
  writes its own.

Updates and sources:

* the source list has no lock: `RemoveSource` checks for pups and removes later,
  while the main loop adopts one (`sources/source.go:324`); two edits at once can
  overwrite an addition that was answered with success, remove another source than
  the one asked for, or panic on an index beyond the list
  (`sources/source.go:299`, `332`, `340-343`); a failed save keeps the source in
  memory.
* a check that is under way puts its answer back after the entry was cleared, also
  of a purged pup; saves of the cache share one temporary file; a slow listing
  overwrites a newer one.
* a git source added at run time misses its configuration until a restart;
  dependencies of a new pup are computed for a temporary pup ID
  (`web/pups.go:88`); an update check requested by REST runs in the main loop.

System updates:

* a unit outlives the daemon and the next process unlocks the updates page, so a
  second update can run beside the first and take it back (`overlap`); a retry of
  the same release removes the staged flake under the running unit
  (`upgrades.go:266`, which says otherwise at 217).
* a crash while custom.nix is moved leaves a torn file that is never moved again;
  `SaveCustomNix` is not atomic, and keeps the file when the rebuild fails.
* with an unknown release any version is accepted; the test for an active job
  before the migration is not atomic with its request.

The small parts:

* the tailer drops an unfinished line of a pup's log; a client without a token may
  lose the first lines; a page of a journal repeats the line of its cursor, and
  with pages of one gets no older.
* the rotation of a log strands its tailer; a tailer that is blocked is not woken
  when its client leaves; `LineWriter` writes an unterminated line twice.
* sequence numbers of changes are taken before the send and may arrive in another
  order; a slow client holds up the broadcast to all.
* dbx-dev: closing the websocket of one attempt adds a source in the next one; with
  Esc during the validation of a name, tasks wait for ever without a session; when
  the websocket is refused, the end of the installation is not seen, nor when
  its events are dropped (`dogeboxd.go:829-834`, `pup/manager.go:445-458`) or the
  queued job is deleted, of which only `job:deleted` is sent, a type it does not
  know (`websocket.go:60-152`); a failure before the job's ID is known is ignored
  (`stuck`).
* an older list of services after a newer one leaves a pup unmonitored
  (`crossed`); in recovery mode there is no monitor, and the 11th save blocks.
* a second Stop of the conductor closes a closed channel; a start that times out
  while a signal is handled can block (`late`); a service with two receivers on
  its stop channel makes shutdown wait for its timeout.
* the list of sessions (`web/session.go`) is a slice without a lock.

## 6. Proofs

`JobStoreProofs` proves type correctness and that no deleted or finished job
becomes active again from `CachedActiveIsStored`, which is inductive with the
types. `JobQueueProofs` proves, for any jobs, kinds, scanners, clients and
restarts:

* `Invariance`: `Spec => []IInv`. The safety properties are not inductive: why a
  scan never marks a live job depends on where a job can be. `SlotInv` says who
  holds the updater's slot, `AheadInv` that a job is at one place at a time and
  has no row while it is still ahead of the loop, `QueuedOnce` that the queue
  has no duplicates, `VisibleInv` that a recorded job in the loop's hands is in
  `nonQueued` or current. With these a recorded job in flight is in `Runtime`
  (`RecordedVisible`), so what a scan or a client found outside `Runtime` is out
  of flight, and stays so, as no step takes a recorded job back (`NoNewFlight`).
* `Typing`, `Visibility`, `MutualExclusion`, `Deletion`: its consequences.
* `OrphanDetection`: only `MarkOrphan` makes a record orphaned, and by `ScanInv`
  its job is out of flight.
* `QueueUsesStore`: every step of the queue is a step of `JobStore` on the store's
  variables, which is why what `JobStoreProofs` says of the store alone holds in
  the composition: `NoRevivalFromCache`, `NoRevivalOfDeleted`,
  `NoRevivalOfFinished`. The three recoveries of a boot are steps of the store
  because of `BootInv`: nothing is at work before they are through, and so the
  cache is empty when they reload it.
* `Refinement`: without clear-completed (`CleanCalls`), `JobQueue` implements
  `JobSpec` under the mapping of a record to its status and of the updater to its
  slot (`AbsStatus`, `AbsSlot`). Each operation of the store has a lemma that says
  which change of statuses it is (`CreateMaps`, `ReportMaps`, `CompleteMaps`,
  `OrphanMaps`, `DeleteMaps`, `ClearMaps`, `RecoveryMaps`). The hard ones go
  through the cache, which is written back over the row: `CacheInv` says that a
  cached record is no further than its row, and a finished one is its row, and
  `OutcomeInv` that a job in flight has no outcome yet, but for the one the loop is
  completing for the second time, with the outcome it will be given again.
  `OutcomesStand` is its corollary for finished jobs. With clear-completed the
  refinement does not hold (`jobs.go:212`, section 5): a job completed twice comes
  back as a row.

The assumptions are those of `JobQueueAssumption`: every job has one kind, a
sub-job belongs to one batch and is a pup job.

`NixPatchProofs` proves, for any patchers, files, contents, operations and
crashes:

* `Typing`: the type invariant, with a rebuild always having a directory to build.
* `AppliedRunning`: `Spec => []AppliedIsRunning`, for a patch that no other one
  overlapped (the history variable `overlapped` names those that were). The
  strengthening `SoleInv` says that no other patch is under way beside such a
  one, that while it rebuilds the directory is what was evaluated, that until the
  snapshot is removed the system agrees with it, and that a patch at rest is not
  half-way through `ApplyCustom`.
* `Refinement`: `Spec => AbsSpec`, under the mapping `AbsPatch` of a patch to the
  writes it has left. Each action is a step of `NixConfig` (`Operation` is `Write`,
  `StartRebuild` is `Evaluate`, `Rebuilt` is `Switch` or `Skip`, every failure is
  `Fail`) or changes nothing its caller sees (`AbsTouch`). This is why
  `PupLifecycle` can be written over `NixConfig`. The assumption is
  `NixPatchAssumption`: Missing is a content, and the bounds are numbers.

`PupLifecycleProofs` proves, for any pups, versions, kinds of jobs, faults,
requests and crashes:

* `Invariance`: `Spec => []IInv` of `PupLifecycleInv`. `WorkInProgress` asks for a
  job at work; that is too weak to survive the job's next step. `ProgressInv` says
  at which points of which job a pup can be in which passing state (`MarkedBy`):
  from the step that marks the pup to the one that ends the mark. To get past a
  patch and past a failure it needs `KindInv` (only an upgrade is at the points of
  an upgrade) and, in `JobInv`, that nothing is left to save while a patch is
  awaited or the pup is to be marked broken, as a save that fails there would end
  the job with its mark in place. `AdoptInv` keeps an adoption's pup out of memory
  until it is indexed, when its job is what the loop sends next. A job may leave the
  queue by deletion at any moment: `Excused` takes in the pups of deleted installs
  and those a crash has left, and only while they are in that very state.
* `Typing`, `WorkVisible`: its consequences.
* `FilesInvariance`: `Spec => [](IInv /\ FInv)`. `ReadyHasFiles` and
  `SavedIsCurrent` speak of moments of rest, and only together do their
  strengthenings survive a step. `StageInv` follows the files of the job's pup:
  the version in the state is the job's target before the download, the files are
  of the state's version after it (or, for a rollback, of the snapshot's until the
  state is restored). An install has no step that puts its target into the state,
  so its pup must still be as `AdoptPup` made it: `InstallFirst` says that no other
  job of that pup is ahead of it or at work, which needs `KnownInv` (only pups that
  were in memory get jobs, and a purged ID is not adopted again). For the disk,
  `SavedInv` says that what is in memory and not on disk is in the hands of a save,
  and `FreshInv` that a save in flight is of the current state, which is false
  exactly when the loop saves beside the updater: `CrossInv` ties those saves to
  `unsure`. A purge removes the saved pup while the pup is still in memory
  (`Removed`) and an adoption saves it before (`Adopting`). `DiskHasFiles` is what a
  restart turns into `ReadyHasFiles`.
* `FilesMatch`, `SavesMatch`: `ReadyHasFiles` and `SavedIsCurrent`.

and, while nothing fails and nobody upgrades, rolls back or configures a pup
(`Calm`, the restrictions of `pup_settled`: see section 5), for any pups, versions,
states found at the start and number of the other requests:

* `RunsWhatIsEnabled`: `Settled`. It compares the running system with memory when
  everything is at rest, and is about files that were written many steps before.
  `NixInv` says at every moment what each file will hold once the patch of the
  updater is written (`Becoming`): the includes file lists the pups that are
  `Installed` and none that is `Stopped`, and the file of an installed pup has its
  `enabled`, unless a job that will write it again is at work (`WillWrite`) or a
  switch of the user is still on its way (`Flipped`, as the loop flips the flag when
  it dispatches the job). `CopyInv` carries the second excuse over to the copy of the
  state a job writes from. A pup counts as installed from the patch of its install
  on and is excused from being unlisted at the one point of an uninstall between the
  mark and the patch (`Leaving`). `PatchInv` says that what was written is what
  runs when no patch is at work, `RouteInv` which kind of job comes to which point,
  and `StoppedInv` that a pup to be purged stays out of the system, which the
  purge's test of the state attached to the job alone does not say. A job the loop
  drops because its pup is gone takes its excuse with it: by `StageInv` an
  installed pup is there (`InstalledIsThere`).

The assumption is `LifecycleAssumption`: the two goroutines, the files a pup has,
that a file that exists is not a missing one, and that a process finds no pup
enabled that is not READY, in the middle of a job, or saved without an installation
state. The nix files found at the start are those of the READY pups, each with the
pup's own switch. A switch of the user that was deleted from the queue is an excuse
(`Withdrawn`) from its deletion until the next one of that pup is taken up, which
writes the pup's file again.

`UpgradeProofs` proves, for any releases, thresholds, found boxes and bounds:

* `Invariance`: until an update overlaps the unit of a dead process, a unit runs
  alone and none while an update is prepared (`AloneInv`); what is prepared or
  built is ahead of the release, what is copied is the release, the flake is at
  most one release ahead, and what the migration has read of the flake is no more
  than it is (`AheadInv`); what a row or a record calls done has landed
  (`DoneInv`). `CustomInv` says where the user's custom.nix is. That there is a
  latest release among the candidates is the lemma `Minimum`, by induction over a
  finite set of naturals.
* `Completion`, `Recording`, `Progress`, `CustomKept`: its consequences. The
  assumption `UpgradeAssumption` says of a found box that its flake is at most one
  release ahead of its release file.

`SetupProofs` proves all seven safety invariants of the run `setup`, for any
number of failures, crashes, requests of the second client and starts of the
wizard. The invariants are layered, and each layer is inductive given those below:

* `TypesHold`: the types of daemon, disks and wizard, and that a wizard that waits
  for its last answers is on its last page. `TypeCorrect`: `TypeOK`.
* `BaseHolds`: `CallInv` says which request or job step goes with which job and
  that nobody works while the process is down; `MoveInv` how far the data
  directory has moved while the database is closed; `ModeInv` what the mode says
  of rows, flag files (unless the start could not write them, `unmarked`) and the
  copies in the handlers' hands. That
  last part is what `ModesAgree` needs: a handler that writes back an old copy
  must not take "configured" away from a running box.
* `ConfiguredHolds`: `ConfiguredIsComplete` speaks of rows on a disk, but what
  gets there comes from memory, from the temporary copy of the move or from a
  handler's copy; so `KnownWired` asks for network and source as soon as any of
  them knows the box to be configured, and `NetSaved`, `SourceSaved` and
  `FlagsKept` say what the bootstrap has secured before it writes that. A restart takes the current network from
  memory and not from the disk (`forgotten`); what is saved from then on has at
  least a pending one.
  `ConfiguredComplete`.
* `DurableHolds`: where a confirmed setting is, by what the process is doing: in
  memory while it runs, in the copy while the move is under way, on the mounted
  disk otherwise. `AckedStaysDurable`.
* `FormHolds`, `AskHolds`, `SeedHolds`: the wizard's own fields (it sends the
  bootstrap last, and only the confirmed device), which of its requests is
  unanswered, and what follows from both as long as no other client is at work:
  nothing but the wizard's requests is under way, so no storage is recorded that the
  user did not confirm, and a key that was made is not unmade by an overlapping
  write. `SeedShown`, `FormatConfirmed`.
* `AloneHolds`, `AcceptedHolds`: in a setup without failures, crashes or another
  client, the box waits in recovery mode for the wizard's requests, which do not
  overlap, until its bootstrap has been accepted; only then can it leave recovery
  or record "configured". `CompleteAccepted`: the wizard shows Complete for the
  right reason although it ignores the answer.

The assumptions are `UpdaterIsNoClient` and `WizardAndPanel`, which names the two
clients.

`UpdatesProofs` proves, for any finite set of sources, any pups, actors, lengths of
release histories, budgets and capacity of the event channel:

* `UpdatesInvariance`: the types of the composition, among them that an answer in
  memory, in the file or at the frontend only offers versions newer than its own;
  and `AdminInv`: until an edit overwrites another, what an answer called added is
  in memory and on disk, whoever else is editing, and a removal that is about to
  store the shorter list drops its own source and no other. `AdminsOwn` says that
  the lists are changed by those edits and by crashes alone.
* `TypeCorrect`, `SavedSources`: its consequences. `SavedSources` is `AddedStaysSaved`.
* `Told`: `NoMissedRefresh`, which is inductive with the types: an event that
  `emitEvent` drops finds another one in the channel, which the frontend will
  hear after the answer was written.

The lemma `MaxOf` (a function into the naturals has a greatest value on a finite
set) is by well-founded induction over subsets. The assumptions are
`SourcesAssumption` and `UpdatesAssumption`: finitely many sources, the
goroutines that the code starts, and that the clients that edit sources are none
of those.

`StreamProofs` proves, for any capacities and lengths, of a log and its page size:

* `LogInvariance`, `OneStretch`: `NoGap` is not inductive, as it speaks of the
  screen alone. By `StretchInv` the screen shows one stretch of the log, and the
  pieces in the channel and the line in the tailer's hand continue it; before the
  tailer has opened the log, the token is where the screen ends. The excepted case,
  a line the tailer met unfinished, is `torn`.

and of the relay, for any clients and number of changes:

* `Invariance`, `Delivery`: `NothingMissed` speaks of a client that has its
  bootstrap. It holds because the loop has the websocket before the bootstrap is
  read (`RegisteredInv`) and because every change is accounted for from the
  reading on, not from the sending (`CoveredInv`).

## 7. Only model-checked

* Liveness (`RowsSettle`, `JobsDrain`, `JobsEnd`, `BootstrapFinishes`,
  `CacheSettles`, `UpdatesUnlock`, `TasksEnd`, `StatusSettles`, `ShutdownEnds`)
  is out of the prover's reach.
* `Settled` of `PupLifecycle` is proved, like it is checked, for requests without
  upgrades, rollbacks, faults and configuration changes only.

## 8. Not modelled

* Validation of manifests and configuration fields (`manifest.go`,
  `config_fields.go`): pure checks of one document, reached by unit tests.
* The generated protocol code, and the views of the terminal programs: no state
  of their own.
* Most REST handlers: a request becomes an `AddAction` or a manager's call, which
  is modelled where it arrives.
* Sessions and the pup router: a session list without a lock, and the forwarding
  of one request.
* Scanning for networks, wpa_supplicant, most of `_dbxroot`, installing to a disk,
  SSH keys, the reflector: one-shot I/O without state between runs.
* The pools of addresses and ports, the dependency report, metrics, health and
  subscribers of the pup manager: data, or never waited for.
