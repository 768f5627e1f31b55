----------------------------- MODULE PupLifecycle -----------------------------
(***************************************************************************)
(* What the jobs do to a pup.  The main loop ("loop") adopts pups, flips   *)
(* Enabled when it dispatches an enable or a disable, and applies changes  *)
(* of the configuration itself; the SystemUpdater ("updater") takes the    *)
(* jobs one by one and walks the pup through its installation states.      *)
(* They share the PupManager's memory, the saved pups on disk and, through *)
(* the nix patches of NixConfig, the running system.  A pup is saved in    *)
(* two steps, encoded and renamed into place, and no lock holds the steps  *)
(* of one save together.  All pups are of one manifest of one source; what *)
(* the queue does to job records is in JobQueue.                           *)
(***************************************************************************)
EXTENDS NixConfig

CONSTANTS
  Pups,       \* the pup IDs that can be drawn
  Versions,   \* the versions the source offers
  Includes,   \* dogebox.nix, which lists the pups to import
  Kinds,      \* the actions that are requested
  Faults,     \* what may fail
  Found,      \* the states in which a process may find a pup when it starts
  MaxJobs,    \* bound on the requests
  MaxCrashes  \* bound on the deaths of the process

AllKinds == {"install", "uninstall", "purge", "enable", "disable", "upgrade",
             "rollback", "import", "config", "touch"}
AllFaults == {"save", "download", "prepare", "stop", "snapshot", "remove", "nix"}

Installation == {"none", "installing", "upgrading", "ready", "uninstalling",
                 "uninstalled", "purging", "broken"}
PupStates == [inst : Installation, enabled : BOOLEAN, version : Versions \cup {0}]
PupFiles  == [enabled : BOOLEAN, version : Versions \cup {0}]
Listings  == [Pups -> BOOLEAN]
Snapshots == [version : Versions \cup {0}, enabled : BOOLEAN]

\* The jobs that take a pup through its passing states.
WorkerOf == [installing |-> {"install"}, upgrading |-> {"upgrade", "rollback"},
             uninstalling |-> {"uninstall"}, purging |-> {"purge"}]
Switches == {"enable", "disable"}

ASSUME LifecycleAssumption ==
  /\ Includes \notin Pups /\ 0 \notin Versions
  /\ Patchers = {"loop", "updater"} /\ Files = Pups \cup {Includes}
  /\ \A f \in PupFiles : f \in Contents /\ f # Missing
  /\ \A l \in Listings : l \in Contents /\ l # Missing
  /\ MaxJobs \in Nat /\ MaxCrashes \in Nat
  /\ Kinds \subseteq AllKinds /\ Faults \subseteq AllFaults
  /\ Found \subseteq {r \in PupStates : /\ r.enabled => r.inst = "ready"
                                        /\ r.inst \notin DOMAIN WorkerOf
                                        /\ r.inst = "none" => r.version = 0}

VARIABLES
  pup,        \* PupManager.state
  disk,       \* the .gob files
  files,      \* the version of the downloaded pup files, 0 when there are none
  snapshot,   \* the upgrade snapshots
  queue,      \* the jobs on their way to the updater
  work,       \* work[a]: the job a is at, and where in it
  saving,     \* saving[a]: what a has encoded and not yet renamed into place
  purged,     \* the pups whose PurgePup has run
  unsure,     \* history: the pups whose save failed, or could cross another one
  withdrawn,  \* history: the kinds and pups of the queued jobs a user has deleted
  left,       \* history: the states in which the last crash left the pups
  requests,
  crashes

past == <<withdrawn, left>>
pupVars  == <<pup, disk, files, snapshot, queue, work, saving, purged, unsure, requests, crashes, past>>
vars == <<configVars, pupVars>>

NoPup == [inst |-> "none", enabled |-> FALSE, version |-> 0]
NoSnapshot == [version |-> 0, enabled |-> FALSE]
\* seen: the state attached to the job when it was dispatched (j.State).
Jobs == [kind : AllKinds, pup : Pups, to : Versions \cup {0}, seen : PupStates]
NoWork == [at |-> "idle", job |-> <<>>, state |-> NoPup, then |-> "idle"]
Labels == {"idle", "start", "download", "prepare", "restore", "build", "await", "ready",
           "gone", "removeGob", "removeSource", "purge", "stop", "rebuild", "snapshot",
           "manifest", "unlink", "relink", "dropSnapshot", "broken", "failed", "done",
           "adopt", "send", "config", "import"}

TypeOK ==
  /\ NixTypeOK
  /\ pup \in [Pups -> PupStates] /\ disk \in [Pups -> PupStates]
  /\ files \in [Pups -> Versions \cup {0}]
  /\ snapshot \in [Pups -> Snapshots]
  /\ queue \in Seq(Jobs)
  /\ work \in [Patchers -> [at : Labels, job : Jobs \cup {<<>>}, state : PupStates,
                            then : Labels]]
  /\ saving \in [Patchers -> PupStates]
  /\ purged \subseteq Pups /\ unsure \subseteq Pups /\ requests \in Nat /\ crashes \in Nat
  /\ withdrawn \subseteq AllKinds \X Pups /\ left \in [Pups -> Installation]

\* loadPups reads back the pups an earlier process has left.
Init ==
  /\ pup \in [Pups -> Found]
  /\ \A p, q \in Pups : p # q /\ pup[p] # NoPup => pup[p].version # pup[q].version
  /\ disk = pup
  /\ files = [p \in Pups |-> pup[p].version] /\ snapshot = [p \in Pups |-> NoSnapshot]
  /\ NixInit([f \in Files |->
       IF f = Includes THEN [p \in Pups |-> pup[p].inst = "ready"]
       ELSE IF pup[f].inst = "ready"
              THEN [enabled |-> pup[f].enabled, version |-> pup[f].version]
       ELSE Missing])
  /\ queue = <<>> /\ work = [a \in Patchers |-> NoWork]
  /\ saving = [a \in Patchers |-> NoPup]
  /\ purged = {} /\ unsure = {} /\ requests = 0 /\ crashes = 0
  /\ withdrawn = {} /\ left = [p \in Pups |-> "none"]

-----------------------------------------------------------------------------
\* a is at this point of its job, with nothing left to save.
At(a, label) == work[a].at = label /\ saving[a] = NoPup
Kind(a) == work[a].job.kind
Pup(a) == work[a].job.pup
Goto(a, label) == work' = [work EXCEPT ![a].at = label]
Updater == "updater"
Loop == "loop"

\* Mutant: an error only fails the job.
OnErrorFail(a) == "failed"

\* Where an error leads: the pup is marked broken, or the job just fails.
OnError(a) ==
  IF /\ a = "updater" /\ work[a].at \notin {"broken", "failed"}
     /\ Kind(a) \in {"install", "uninstall", "purge", "upgrade", "rollback"}
    THEN "broken" ELSE "failed"

\* UpdatePup: memory changes first, and is then saved; r is what it returns.
UpdatePup(a, r, next) ==
  IF pup[Pup(a)] = NoPup
    THEN Goto(a, OnError(a)) /\ UNCHANGED <<pup, saving>>
    ELSE /\ pup' = [pup EXCEPT ![Pup(a)] = r]
         /\ saving' = [saving EXCEPT ![a] = r]
         /\ work' = [work EXCEPT ![a].at = next, ![a].state = r]

\* The encoder reads the fields one after the other, without a lock.
Encoded(r, now) ==
  IF now = NoPup THEN {r}
  ELSE [inst : {r.inst, now.inst}, enabled : {r.enabled, now.enabled},
        version : {r.version, now.version}]

\* savePup's rename; UpdatePup copies the state it returns before or after it.
Saved(a) ==
  /\ saving[a] # NoPup
  /\ \E r \in Encoded(saving[a], pup[Pup(a)]) : disk' = [disk EXCEPT ![Pup(a)] = r]
  /\ saving' = [saving EXCEPT ![a] = NoPup]
  /\ \/ UNCHANGED work
     \/ pup[Pup(a)] # NoPup /\ work' = [work EXCEPT ![a].state = pup[Pup(a)]]
  /\ UNCHANGED <<configVars, pup, files, snapshot, queue, purged, unsure, requests, crashes, past>>

\* StopPup's errors are only logged.
SaveFails(a) ==
  /\ saving[a] # NoPup /\ "save" \in Faults
  /\ saving' = [saving EXCEPT ![a] = NoPup]
  /\ Goto(a, IF work[a].at = "rebuild" THEN "snapshot" ELSE OnError(a))
  /\ unsure' = unsure \cup {Pup(a)}
  /\ UNCHANGED <<configVars, pup, disk, files, snapshot, queue, purged, requests, crashes, past>>

-----------------------------------------------------------------------------
(* The main loop. *)
Request(kind) ==
  /\ work[Loop].at = "idle" /\ requests < MaxJobs /\ kind \in Kinds
  /\ requests' = requests + 1

\* History: the main loop saves a pup that the updater is working on.
Crossed(p) == IF work[Updater].at # "idle" /\ Pup(Updater) = p THEN {p} ELSE {}

Doing(kind, p, v, r, label) ==
  [NoWork EXCEPT !.at = label, !.state = r,
                 !.job = [kind |-> kind, pup |-> p, to |-> v, seen |-> NoPup]]

\* AdoptPup saves the new pup before it is in memory.
AdoptPup(p, v) ==
  /\ Request("install")
  /\ pup[p] = NoPup /\ disk[p] = NoPup /\ p \notin purged
  /\ \A q \in Pups : pup[q].version # v
  /\ LET r == [inst |-> "installing", enabled |-> FALSE, version |-> v] IN
       /\ saving' = [saving EXCEPT ![Loop] = r]
       /\ work' = [work EXCEPT ![Loop] = Doing("install", p, v, r, "adopt")]
  /\ UNCHANGED <<configVars, pup, disk, files, snapshot, queue, purged, unsure, crashes, past>>

indexPup ==
  /\ At(Loop, "adopt")
  /\ pup' = [pup EXCEPT ![Pup(Loop)] = work[Loop].state]
  /\ Goto(Loop, "send")
  /\ UNCHANGED <<configVars, disk, files, snapshot, queue, saving, purged, unsure, requests, crashes, past>>

\* Requests for a managed pup; enable and disable flip Enabled at once.
Dispatch(kind, p, v) ==
  /\ Request(kind) /\ pup[p] # NoPup
  /\ IF kind \in {"enable", "disable"}
       THEN LET r == [pup[p] EXCEPT !.enabled = (kind = "enable")] IN
              /\ pup' = [pup EXCEPT ![p] = r]
              /\ saving' = [saving EXCEPT ![Loop] = r]
              /\ work' = [work EXCEPT ![Loop] = Doing(kind, p, v, r, "send")]
              /\ unsure' = unsure \cup Crossed(p)
       ELSE /\ work' = [work EXCEPT ![Loop] = Doing(kind, p, v, pup[p], "send")]
            /\ UNCHANGED <<pup, saving, unsure>>
  /\ UNCHANGED <<configVars, disk, files, snapshot, queue, purged, crashes, past>>

sendSystemJobWithPupDetails ==
  /\ At(Loop, "send")
  /\ queue' = IF pup[Pup(Loop)] = NoPup THEN queue
              ELSE Append(queue, [work[Loop].job EXCEPT !.seen = pup[Pup(Loop)]])
  /\ work' = [work EXCEPT ![Loop] = NoWork]
  /\ UNCHANGED <<configVars, pup, disk, files, snapshot, saving, purged, unsure, requests, crashes, past>>

\* updatePupConfig, updatePupProviders, updatePupHooks: none of the fields kept
\* here changes, all of them are saved.
DirectUpdate(kind, p) ==
  /\ Request(kind) /\ pup[p] # NoPup
  /\ saving' = [saving EXCEPT ![Loop] = pup[p]]
  /\ work' = [work EXCEPT ![Loop] =
                Doing(kind, p, 0, pup[p], IF kind = "touch" THEN "done" ELSE "config")]
  /\ unsure' = unsure \cup Crossed(p)
  /\ UNCHANGED <<configVars, pup, disk, files, snapshot, queue, purged, crashes, past>>

\* The pup's storage is written; a pup whose configuration is now complete is
\* enabled.  Providers of a pup that can start lead to the same rebuild.
updatePupConfig ==
  /\ At(Loop, "config")
  /\ \/ /\ ~work[Loop].state.enabled
        /\ UpdatePup(Loop, [pup[Pup(Loop)] EXCEPT !.enabled = TRUE], "build")
     \/ Goto(Loop, "build") /\ UNCHANGED <<pup, saving>>
     \/ "prepare" \in Faults /\ Goto(Loop, "failed") /\ UNCHANGED <<pup, saving>>
  /\ UNCHANGED <<configVars, disk, files, snapshot, queue, purged, unsure, requests, crashes, past>>

\* DELETE /jobs: a job that waits goes, and what its dispatch has done stays.
RemoveFromQueue(i) ==
  /\ queue' = SubSeq(queue, 1, i - 1) \o SubSeq(queue, i + 1, Len(queue))
  /\ withdrawn' = withdrawn \cup {<<queue[i].kind, queue[i].pup>>}
  /\ UNCHANGED <<configVars, pup, disk, files, snapshot, work, saving, purged, unsure, requests,
                 crashes, left>>

-----------------------------------------------------------------------------
(* The updater. *)

\* A deleted enable or disable no longer matters when another one is taken up.
TakeJob ==
  /\ work[Updater].at = "idle" /\ queue # <<>>
  /\ work' = [work EXCEPT ![Updater] = [NoWork EXCEPT !.at = "start", !.job = Head(queue)]]
  /\ queue' = Tail(queue)
  /\ unsure' = IF /\ work[Loop].at # "idle" /\ Pup(Loop) = Head(queue).pup
                  /\ Kind(Loop) \in {"enable", "disable", "config", "touch"}
                 THEN unsure \cup {Pup(Loop)} ELSE unsure
  /\ withdrawn' = IF Head(queue).kind \in Switches
                    THEN withdrawn \ (Switches \X {Head(queue).pup}) ELSE withdrawn
  /\ UNCHANGED <<configVars, pup, disk, files, snapshot, saving, purged, requests, crashes, left>>

Starting(kind) == At(Updater, "start") /\ Kind(Updater) = kind
Mine == pup[Pup(Updater)]
Seen == work[Updater].job.seen
keepFiles == UNCHANGED <<configVars, disk, files, snapshot, queue, purged, unsure, requests, crashes, past>>

installPup ==
  /\ Starting("install")
  /\ UpdatePup(Updater, [Mine EXCEPT !.inst = "installing"], "download")
  /\ keepFiles

uninstallPup ==
  /\ Starting("uninstall")
  /\ UpdatePup(Updater, [Mine EXCEPT !.inst = "uninstalling", !.enabled = FALSE], "build")
  /\ keepFiles

\* Mutant: a purge that is refused reports nothing.
purgePupSilent ==
  /\ Starting("purge") /\ Seen.inst = "uninstalled"
  /\ UpdatePup(Updater, [Mine EXCEPT !.inst = "purging", !.enabled = FALSE], "removeGob")
  /\ keepFiles

purgePup ==
  /\ Starting("purge")
  /\ IF Seen.inst # "uninstalled"
       THEN Goto(Updater, "failed") /\ UNCHANGED <<pup, saving>>
       ELSE UpdatePup(Updater, [Mine EXCEPT !.inst = "purging", !.enabled = FALSE], "removeGob")
  /\ keepFiles

enablePup ==
  /\ Starting("enable")
  /\ UpdatePup(Updater, [Mine EXCEPT !.enabled = TRUE], "build")
  /\ keepFiles

disablePup ==
  /\ Starting("disable")
  /\ UpdatePup(Updater, [Mine EXCEPT !.enabled = FALSE], "stop")
  /\ keepFiles

\* An enabled pup is stopped first: StopPup.
upgradePup ==
  /\ Starting("upgrade")
  /\ IF Seen.enabled /\ Mine # NoPup /\ Mine.enabled
       THEN UpdatePup(Updater, [Mine EXCEPT !.enabled = FALSE], "rebuild")
       ELSE Goto(Updater, "snapshot") /\ UNCHANGED <<pup, saving>>
  /\ keepFiles

rollbackPupUpgrade ==
  /\ Starting("rollback")
  /\ IF snapshot[Pup(Updater)] = NoSnapshot
       THEN Goto(Updater, "failed") /\ UNCHANGED <<pup, saving>>
       ELSE UpdatePup(Updater, [Mine EXCEPT !.inst = "upgrading"], "download")
  /\ keepFiles

\* importBlockchainData disables the pup while the data is copied; wasEnabled is
\* kept as what the job has seen.
importBlockchainData ==
  /\ Starting("import")
  /\ IF Mine # NoPup /\ Mine.enabled
       THEN /\ pup' = [pup EXCEPT ![Pup(Updater)].enabled = FALSE]
            /\ saving' = [saving EXCEPT ![Updater] = [Mine EXCEPT !.enabled = FALSE]]
            /\ work' = [work EXCEPT ![Updater].at = "stop", ![Updater].job.seen = Mine]
       ELSE /\ work' = [work EXCEPT ![Updater].at = "import", ![Updater].job.seen = NoPup]
            /\ UNCHANGED <<pup, saving>>
  /\ keepFiles

\* The version a job downloads.
Fetched == IF Kind(Updater) = "rollback" THEN snapshot[Pup(Updater)].version
           ELSE work[Updater].job.to

\* DownloadPup clears the directory first, unless it fails before that.
DownloadPup ==
  /\ At(Updater, "download")
  /\ \/ /\ files' = [files EXCEPT ![Pup(Updater)] = Fetched]
        /\ Goto(Updater, IF Kind(Updater) = "rollback" THEN "restore" ELSE "prepare")
     \/ /\ "download" \in Faults
        /\ \/ files' = [files EXCEPT ![Pup(Updater)] = 0]
           \/ UNCHANGED files
        /\ Goto(Updater, "broken")
  /\ UNCHANGED <<configVars, pup, disk, snapshot, queue, saving, purged, unsure, requests, crashes, past>>

\* The hash, the storage, the keys and the configuration; an installed pup is
\* then enabled.
PreparePup ==
  /\ At(Updater, "prepare")
  /\ \/ /\ Kind(Updater) = "install"
        /\ UpdatePup(Updater, [Mine EXCEPT !.enabled = TRUE], "build")
     \/ /\ Kind(Updater) = "upgrade"
        /\ work' = [work EXCEPT ![Updater].at = "build", ![Updater].state = Mine]
        /\ UNCHANGED <<pup, saving>>
     \/ /\ Kind(Updater) = "rollback"
        /\ Goto(Updater, "ready") /\ UNCHANGED <<pup, saving>>
     \/ /\ "prepare" \in Faults
        /\ Goto(Updater, "broken") /\ UNCHANGED <<pup, saving>>
  /\ keepFiles

\* A rollback restores the version of the snapshot in the state.
RestoreState ==
  /\ At(Updater, "restore")
  /\ UpdatePup(Updater, [Mine EXCEPT !.version = snapshot[Pup(Updater)].version], "prepare")
  /\ keepFiles

\* _dbxroot pup stop, for a disable and for an import.
StopContainer ==
  /\ At(Updater, "stop")
  /\ \/ /\ Goto(Updater, IF Kind(Updater) = "import" THEN "import" ELSE "build")
        /\ UNCHANGED <<pup, saving>>
     \/ /\ "stop" \in Faults
        /\ IF Kind(Updater) = "import"
             THEN UpdatePup(Updater, [Mine EXCEPT !.enabled = TRUE], "failed")
             ELSE Goto(Updater, "failed") /\ UNCHANGED <<pup, saving>>
  /\ keepFiles

ImportData ==
  /\ At(Updater, "import")
  /\ IF Seen.enabled
       THEN UpdatePup(Updater, [Mine EXCEPT !.enabled = TRUE], "build")
       ELSE Goto(Updater, "done") /\ UNCHANGED <<pup, saving>>
  /\ keepFiles

\* The snapshot for a rollback is of the state attached to the job.
CreateSnapshot ==
  /\ At(Updater, "snapshot")
  /\ \/ /\ snapshot' = [snapshot EXCEPT ![Pup(Updater)] =
                          [version |-> Seen.version, enabled |-> Seen.enabled]]
        /\ Goto(Updater, "manifest")
     \/ /\ "snapshot" \in Faults
        /\ Goto(Updater, "failed") /\ UNCHANGED snapshot
  /\ UNCHANGED <<configVars, pup, disk, files, queue, saving, purged, unsure, requests, crashes, past>>

\* Mutant: the pup is not marked as upgrading.
UpdateVersionUnmarked ==
  /\ At(Updater, "manifest")
  /\ UpdatePup(Updater, [Mine EXCEPT !.version = work[Updater].job.to], "download")
  /\ keepFiles

\* With the manifest of the target the state moves to the target version, before
\* the files do.
UpdateVersion ==
  /\ At(Updater, "manifest")
  /\ \/ UpdatePup(Updater, [Mine EXCEPT !.inst = "upgrading", !.version = work[Updater].job.to],
                   "download")
     \/ /\ "download" \in Faults
        /\ Goto(Updater, "broken") /\ UNCHANGED <<pup, saving>>
  /\ keepFiles

WasEnabled == IF Kind(Updater) = "rollback" THEN snapshot[Pup(Updater)].enabled ELSE Seen.enabled

MarkReady ==
  /\ At(Updater, "ready")
  /\ UpdatePup(Updater,
        [Mine EXCEPT !.inst = "ready",
                     !.enabled = @ \/ (Kind(Updater) # "install" /\ WasEnabled)],
        CASE Kind(Updater) = "rollback" -> "build"
          [] Kind(Updater) = "upgrade" /\ WasEnabled -> "relink"
          [] OTHER -> "done")
  /\ keepFiles

MarkUninstalled ==
  /\ At(Updater, "gone")
  /\ UpdatePup(Updater, [Mine EXCEPT !.inst = "uninstalled"], "done")
  /\ keepFiles

DeleteSnapshot ==
  /\ At(Updater, "dropSnapshot")
  /\ \/ snapshot' = [snapshot EXCEPT ![Pup(Updater)] = NoSnapshot]
     \/ "snapshot" \in Faults /\ UNCHANGED snapshot
  /\ Goto(Updater, "done")
  /\ UNCHANGED <<configVars, pup, disk, files, queue, saving, purged, unsure, requests, crashes, past>>

\* A purge keeps going when a removal fails.
RemoveGob ==
  /\ At(Updater, "removeGob")
  /\ \/ disk' = [disk EXCEPT ![Pup(Updater)] = NoPup] /\ UNCHANGED unsure
     \/ "remove" \in Faults /\ unsure' = unsure \cup {Pup(Updater)} /\ UNCHANGED disk
  /\ Goto(Updater, "removeSource")
  /\ UNCHANGED <<configVars, pup, files, snapshot, queue, saving, purged, requests, crashes, past>>

RemoveSource ==
  /\ At(Updater, "removeSource")
  /\ \/ files' = [files EXCEPT ![Pup(Updater)] = 0]
     \/ "remove" \in Faults /\ UNCHANGED files
  /\ Goto(Updater, "purge")
  /\ UNCHANGED <<configVars, pup, disk, snapshot, queue, saving, purged, unsure, requests, crashes, past>>

PurgePup ==
  /\ At(Updater, "purge")
  /\ pup' = [pup EXCEPT ![Pup(Updater)] = NoPup]
  /\ purged' = purged \cup {Pup(Updater)}
  /\ Goto(Updater, "done")
  /\ UNCHANGED <<configVars, disk, files, snapshot, queue, saving, unsure, requests, crashes, past>>

\* Mutant: the reason is set where the installation state belongs.
markPupReason ==
  /\ At(Updater, "broken")
  /\ UpdatePup(Updater, [Mine EXCEPT !.inst = "state_update_failed"], "failed")
  /\ keepFiles

markPupBroken ==
  /\ At(Updater, "broken")
  /\ UpdatePup(Updater, [Mine EXCEPT !.inst = "broken"], "failed")
  /\ keepFiles

-----------------------------------------------------------------------------
(* Nix patches. *)
WritePupFile(r) ==
  [file |-> Pup(Updater), to |-> [enabled |-> r.enabled, version |-> r.version]]
RemovePupFile == [file |-> Pup(Updater), to |-> Missing]
UpdateIncludesFile ==
  [file |-> Includes, to |-> [p \in Pups |-> pup[p].inst \in {"installing", "ready"}]]

\* a applies a patch of these operations and goes on at this label.
ApplyPatch(a, ops, next) ==
  /\ Apply(a, ops)
  /\ work' = [work EXCEPT ![a].at = "await", ![a].then = next]
  /\ UNCHANGED <<pup, disk, files, snapshot, queue, saving, purged, unsure, requests, crashes, past>>

\* Mutant: the file is written from the state attached to the job.
WrittenSeen == Seen

\* A rollback and an import read the pup again before they write its file.
Written == IF Kind(Updater) \in {"rollback", "import"} THEN Mine ELSE work[Updater].state

BuildPup ==
  /\ At(Updater, "build")
  /\ ApplyPatch(Updater,
       CASE Kind(Updater) = "uninstall" -> <<RemovePupFile, UpdateIncludesFile>>
         [] Kind(Updater) \in {"enable", "disable", "import"} -> <<WritePupFile(Written)>>
         [] OTHER -> <<WritePupFile(Written), UpdateIncludesFile>>,
       CASE Kind(Updater) = "install" -> "ready"
         [] Kind(Updater) = "upgrade" -> IF Seen.enabled THEN "unlink" ELSE "ready"
         [] Kind(Updater) = "uninstall" -> "gone"
         [] Kind(Updater) = "rollback" -> "dropSnapshot"
         [] OTHER -> "done")

\* StopPup: the system is rebuilt from the files as they are.
RebuildOnly == At(Updater, "rebuild") /\ ApplyPatch(Updater, <<>>, "snapshot")

\* An enabled pup is taken out of the system and put back as a new container.
RemoveFromConfig == At(Updater, "unlink") /\ ApplyPatch(Updater, <<RemovePupFile>>, "ready")
AddBack ==
  /\ At(Updater, "relink")
  /\ ApplyPatch(Updater, <<WritePupFile(work[Updater].state), UpdateIncludesFile>>, "done")

\* The main loop writes the pup file only, and waits for the rebuild itself.
BuildDirect ==
  /\ At(Loop, "build")
  /\ ApplyPatch(Loop, <<[file |-> Pup(Loop), to |-> [enabled |-> work[Loop].state.enabled,
                                                  version |-> work[Loop].state.version]]>>,
                "done")

Await(a) ==
  /\ work[a].at = "await" /\ Discard(a)
  /\ Goto(a, IF patch[a].at = "applied" \/ work[a].then = "snapshot" THEN work[a].then
             ELSE OnError(a))
  /\ UNCHANGED <<pup, disk, files, snapshot, queue, saving, purged, unsure, requests, crashes, past>>

PatchStep(a) ==
  /\ Write(a) \/ Evaluate(a) \/ Switch(a) \/ ("nix" \in Faults /\ Fail(a))
  /\ UNCHANGED pupVars

Finish(a) ==
  /\ At(a, "done") \/ At(a, "failed")
  /\ work' = [work EXCEPT ![a] = NoWork]
  /\ UNCHANGED <<configVars, pup, disk, files, snapshot, queue, saving, purged, unsure, requests, crashes, past>>

\* Mutant: a recovered pup is marked in memory and not saved.
RestartUnsaved ==
  /\ crashes < MaxCrashes /\ crashes' = crashes + 1
  /\ pup' = [p \in Pups |-> IF disk[p].inst = "installing"
                              THEN [disk[p] EXCEPT !.inst = "broken"] ELSE disk[p]]
  /\ StopPatches
  /\ queue' = <<>> /\ work' = [a \in Patchers |-> NoWork]
  /\ saving' = [a \in Patchers |-> NoPup]
  /\ left' = [p \in Pups |-> pup'[p].inst]
  /\ UNCHANGED <<disk, files, snapshot, purged, unsure, requests, withdrawn>>

\* The process dies and starts again: loadPups, then recoverStuckPups.
Restart ==
  /\ crashes < MaxCrashes /\ crashes' = crashes + 1
  /\ pup' = [p \in Pups |-> IF disk[p].inst = "installing"
                              THEN [disk[p] EXCEPT !.inst = "broken"] ELSE disk[p]]
  /\ disk' = pup'
  /\ StopPatches
  /\ queue' = <<>> /\ work' = [a \in Patchers |-> NoWork]
  /\ saving' = [a \in Patchers |-> NoPup]
  /\ left' = [p \in Pups |-> pup'[p].inst]
  /\ UNCHANGED <<files, snapshot, purged, unsure, requests, withdrawn>>

-----------------------------------------------------------------------------
LoopStep ==
  \/ indexPup \/ sendSystemJobWithPupDetails \/ updatePupConfig \/ BuildDirect

UpdaterStep ==
  \/ TakeJob \/ installPup \/ uninstallPup \/ purgePup \/ enablePup \/ disablePup
  \/ upgradePup \/ rollbackPupUpgrade \/ importBlockchainData \/ DownloadPup \/ PreparePup
  \/ RestoreState \/ StopContainer \/ ImportData \/ CreateSnapshot \/ UpdateVersion
  \/ MarkReady \/ MarkUninstalled \/ DeleteSnapshot \/ RemoveGob \/ RemoveSource
  \/ PurgePup \/ markPupBroken \/ BuildPup \/ RebuildOnly \/ RemoveFromConfig \/ AddBack

Step(a) ==
  \/ a = Loop /\ LoopStep
  \/ a = Updater /\ UpdaterStep
  \/ Saved(a) \/ SaveFails(a) \/ PatchStep(a) \/ Await(a) \/ Finish(a)

NewRequest ==
  \E p \in Pups :
    \/ \E v \in Versions : AdoptPup(p, v) \/ Dispatch("upgrade", p, v)
    \/ \E kind \in {"uninstall", "purge", "enable", "disable", "rollback", "import"} :
         Dispatch(kind, p, 0)
    \/ \E kind \in {"config", "touch"} : DirectUpdate(kind, p)

Next == \/ NewRequest
        \/ \E i \in DOMAIN queue : RemoveFromQueue(i)
        \/ \E a \in Patchers : Step(a)
        \/ Restart

Spec == Init /\ [][Next]_vars

\* Both goroutines keep running, and what they call returns.
FairSpec == Spec /\ \A a \in Patchers : WF_vars(Step(a))
-----------------------------------------------------------------------------
\* The pup's container is part of this configuration and starts by itself
\* (dogebox.nix imports the pup files it lists when they exist; autoStart).
Live(dir, p) ==
  /\ dir[Includes] # Missing /\ dir[Includes][p]
  /\ dir[p] # Missing /\ dir[p].enabled

Quiet == /\ queue = <<>>
         /\ \A a \in Patchers : work[a].at = "idle" /\ saving[a] = NoPup

\* A pup that is READY has on disk the files of the version its state names,
\* whatever failed and whoever else updated it meanwhile ("this ensures state is
\* always consistent", updater.go:857-860).  After a crash this only holds for
\* pups whose saves did not cross: the rename that came last won.
ReadyHasFiles == \A p \in Pups :
  pup[p].inst = "ready" /\ (crashes = 0 \/ p \notin unsure) => files[p] = pup[p].version

\* The user has deleted a queued job of one of these kinds for p.
Withdrawn(kinds, p) == \E kind \in kinds : <<kind, p>> \in withdrawn

\* A pup that is shown as installing, upgrading, uninstalling or being purged has
\* a job of that kind working on it or, installing, still to come.  Two things
\* leave one behind: a user who deletes the queued install (the pup stays
\* INSTALLING until the next start), and a crash, which leaves the pups it has
\* interrupted, but none that is installing (recoverStuckPups).
WorkInProgress == \A p \in Pups :
  pup[p].inst \in DOMAIN WorkerOf =>
    \/ /\ work[Updater].at \notin {"idle", "done", "failed"}
       /\ Pup(Updater) = p /\ Kind(Updater) \in WorkerOf[pup[p].inst]
    \/ /\ pup[p].inst = "installing"
       /\ \/ \E i \in DOMAIN queue : queue[i].pup = p /\ queue[i].kind = "install"
          \/ work[Loop].at = "send" /\ Pup(Loop) = p /\ Kind(Loop) = "install"
          \/ Withdrawn({"install"}, p)
    \/ pup[p].inst # "installing" /\ pup[p].inst = left[p]

\* When all jobs are done the system runs exactly the pups that are READY and
\* enabled ("Is this pup supposed to be running?", pups.go), but for a pup whose
\* queued enable or disable the user has deleted: its flag was flipped at
\* dispatch and the system not changed.  A pup whose queued install was deleted
\* stays INSTALLING, and an enable makes it part of the system like that.
Settled == Quiet => \A p \in Pups :
  \/ Live(running, p) <=> pup[p].inst = "ready" /\ pup[p].enabled
  \/ pup[p].inst = "ready" /\ Withdrawn(Switches, p)
  \/ pup[p].inst = "installing" /\ Withdrawn({"install"}, p)

\* When all jobs are done the saved pups are those in memory, so a restart
\* finds what the user last saw ("before saving to disk as an atomic update",
\* actions.go:138-140): for every pup that no save failed for and that the main
\* loop never saved while the updater worked on it.
SavedIsCurrent == Quiet => \A p \in Pups \ unsure : disk[p] = pup[p]

\* The updater comes to the end of every job, whatever fails in it.
JobsEnd == work[Updater].at = "start" ~> work[Updater].at = "idle"
=============================================================================
