--------------------------- MODULE PupLifecycleInv ---------------------------
(***************************************************************************)
(* The inductive invariant of PupLifecycle, in named parts.                *)
(***************************************************************************)
EXTENDS PupLifecycle

(* A goroutine that is not idle has a job; one that is idle, that waits for  *)
(* a patch or that is to mark its pup broken has nothing to save.            *)
Resting == {"idle", "await", "broken"}
JobInv == \A a \in Patchers :
  /\ work[a].at # "idle" => work[a].job \in Jobs
  /\ work[a].at \in Resting => saving[a] = NoPup

(* A pup that is being adopted is not in memory yet.                         *)
AdoptInv ==
  /\ work[Loop].then # "adopt"
  /\ work[Loop].at = "adopt" =>
       /\ Kind(Loop) = "install" /\ work[Loop].state.inst = "installing"
       /\ pup[Pup(Loop)] = NoPup

(* At one of these points, or waiting for a patch on the way to one of those. *)
Between(at, then, labels, thens) == at \in labels \/ (at = "await" /\ then \in thens)

(* A job of this kind, at this point, has put its pup in this passing state: *)
(* it is between the step that marks the pup and the one that ends that.     *)
MarkedBy(inst, kind, at, then) ==
  \/ /\ inst = "installing" /\ kind = "install"
     /\ Between(at, then, {"start", "download", "prepare", "build", "ready", "broken"}, {"ready"})
  \/ /\ inst = "upgrading" /\ kind = "upgrade"
     /\ Between(at, then, {"download", "prepare", "build", "unlink", "ready", "broken"},
                {"unlink", "ready"})
  \/ /\ inst = "upgrading" /\ kind = "rollback"
     /\ Between(at, then, {"download", "restore", "prepare", "ready", "broken"}, {})
  \/ /\ inst = "uninstalling" /\ kind = "uninstall"
     /\ Between(at, then, {"build", "gone", "broken"}, {"gone"})
  \/ /\ inst = "purging" /\ kind = "purge"
     /\ Between(at, then, {"removeGob", "removeSource", "purge", "broken"}, {})

(* Only an upgrade is at, or on its way to, one of these points.             *)
Upgrading == {"rebuild", "snapshot", "manifest"}
Fitting(kind, at, then) ==
  Between(at, then, Upgrading, Upgrading) => kind = "upgrade"
KindInv == Fitting(Kind(Updater), work[Updater].at, work[Updater].then)

(* The install of a pup is still on its way to the updater.                  *)
Coming(p) ==
  \/ \E i \in DOMAIN queue : queue[i].pup = p /\ queue[i].kind = "install"
  \/ At(Loop, "send") /\ Pup(Loop) = p /\ Kind(Loop) = "install"

(* What else explains a passing state.                                       *)
Excused(p) == IF pup[p].inst = "installing" THEN Coming(p) \/ Withdrawn({"install"}, p)
              ELSE pup[p].inst = left[p]

Marked(p) ==
  Pup(Updater) = p
    /\ MarkedBy(pup[p].inst, Kind(Updater), work[Updater].at, work[Updater].then)

ProgressInv ==
  \A p \in Pups : pup[p].inst \in DOMAIN WorkerOf => Excused(p) \/ Marked(p)

IInv == TypeOK /\ JobInv /\ AdoptInv /\ KindInv /\ ProgressInv
-----------------------------------------------------------------------------
(* For ReadyHasFiles and SavedIsCurrent.                                     *)

On(a, p) == work[a].at # "idle" /\ Pup(a) = p
Adopting(p) == work[Loop].at = "adopt" /\ Pup(Loop) = p

(* A pup without a state is no pup.                                          *)
Real(r) == r.inst = "none" => r = NoPup
RealInv ==
  /\ \A p \in Pups : Real(pup[p]) /\ Real(disk[p])
  /\ \A a \in Patchers : Real(saving[a])

(* Whoever has a job for a pup has found it in memory; it is there until it  *)
(* is purged.  A pup that is being adopted is not, and has never been.       *)
KnownInv ==
  /\ \A i \in DOMAIN queue : pup[queue[i].pup] # NoPup \/ queue[i].pup \in purged
  /\ \A p \in Pups : On(Updater, p) => pup[p] # NoPup \/ p \in purged
  /\ work[Loop].at = "adopt" =>
       /\ Pup(Loop) \notin purged
       /\ work[Loop].state.version = work[Loop].job.to
       /\ saving[Loop] \in {NoPup, work[Loop].state}

(* The pup of this job is as AdoptPup has made it.                           *)
Adopted(job) == pup[job.pup].inst = "installing" /\ pup[job.pup].version = job.to

(* The install of a pup is the first job it gets.                            *)
InstallFirst ==
  /\ \A i \in DOMAIN queue : queue[i].kind = "install" =>
       /\ Adopted(queue[i]) /\ ~On(Updater, queue[i].pup)
       /\ \A k \in DOMAIN queue : k < i => queue[k].pup # queue[i].pup
  /\ work[Loop].at = "send" /\ Kind(Loop) = "install" =>
       /\ Adopted(work[Loop].job) /\ ~On(Updater, Pup(Loop))
       /\ \A k \in DOMAIN queue : queue[k].pup # Pup(Loop)

(* What a job has made of its pup, now in state r, and of the files, now of  *)
(* version f, on its way to READY or, for a purge, before it removes them; v *)
(* is the version to roll back to.  And what some points say of the job.     *)
Staged(kind, to, at, then, r, f, v) ==
  LET moving == r.inst \in {"installing", "upgrading"} IN
  /\ at = "start" /\ kind = "install" => r.inst = "installing" /\ r.version = to
  /\ at = "download" => moving /\ (kind = "rollback" \/ r.version = to)
  /\ at = "restore" => moving /\ f = v
  /\ Between(at, then, {"prepare", "unlink", "ready"}, {"unlink", "ready"})
       => moving /\ f = r.version
  /\ at = "build" /\ kind \in {"install", "upgrade"} => moving /\ f = r.version
  /\ at = "await" => then \in {"snapshot", "unlink", "ready", "dropSnapshot", "gone", "done"}
  /\ at \in {"stop", "import"} => kind \in {"disable", "import"}
  /\ at \in {"removeGob", "removeSource", "purge"} => r.inst = "purging"

StageInv == LET p == Pup(Updater) IN
  Staged(Kind(Updater), work[Updater].job.to, work[Updater].at, work[Updater].then,
         pup[p], files[p], snapshot[p].version)

(* The main loop sends no job and saves no pup after a patch, and the pups   *)
(* it saves while the updater works on them are unsure.                      *)
Savers == {"enable", "disable", "config", "touch"}
CrossInv ==
  /\ work[Loop].then \notin {"send", "config"}
  /\ work[Loop].at = "config" => Kind(Loop) \in Savers
  /\ saving[Loop] # NoPup => Kind(Loop) \in Savers \/ work[Loop].at = "adopt"
  /\ work[Updater].at # "idle" /\ On(Loop, Pup(Updater)) /\ Kind(Loop) \in Savers
       => Pup(Updater) \in unsure

(* A pup in memory that is not saved yet has a save on its way; an adopted   *)
(* one is saved first, a purged one removed first.                           *)
BeingSaved(p) ==
  \E a \in Patchers : saving[a] # NoPup /\ Pup(a) = p /\ saving[a] = pup[p]
Removed(p) == work[Updater].at \in {"removeSource", "purge"} /\ Pup(Updater) = p

SavedInv == \A p \in Pups \ unsure :
  IF Adopting(p) THEN disk[p] = IF saving[Loop] = NoPup THEN work[Loop].state ELSE NoPup
  ELSE IF Removed(p) THEN disk[p] = NoPup
  ELSE disk[p] = pup[p] \/ BeingSaved(p)

(* A save on its way is of the pup in memory; the removals follow the save.  *)
FreshInv ==
  /\ \A a \in Patchers :
       saving[a] # NoPup /\ Pup(a) \notin unsure /\ ~Adopting(Pup(a)) => saving[a] = pup[Pup(a)]
  /\ work[Updater].at \in {"removeSource", "purge"} => saving[Updater] = NoPup

(* A pup that a restart finds READY has its files.                           *)
DiskHasFiles == \A p \in Pups \ unsure : disk[p].inst = "ready" => files[p] = disk[p].version

FInv == RealInv /\ KnownInv /\ InstallFirst /\ StageInv /\ CrossInv /\ SavedInv /\ FreshInv
          /\ DiskHasFiles /\ ReadyHasFiles
-----------------------------------------------------------------------------
(* For Settled: nothing fails, nobody upgrades, rolls back or configures.    *)

Calm == /\ Faults = {} /\ MaxCrashes = 0
        /\ Kinds \cap {"upgrade", "rollback", "config"} = {}

(* The points of the jobs of each kind; only the updater applies patches.    *)
CalmKinds == {"install", "uninstall", "purge", "enable", "disable", "import"}
Route(kind, at, then) ==
  \/ at \in {"idle", "start", "done", "failed", "broken"}
  \/ kind = "install" /\ Between(at, then, {"download", "prepare", "build", "ready"}, {"ready"})
  \/ kind = "uninstall" /\ Between(at, then, {"build", "gone"}, {"gone"})
  \/ kind = "purge" /\ at \in {"removeGob", "removeSource", "purge"}
  \/ kind \in {"enable", "disable", "import"} /\ Between(at, then, {"build"}, {"done"})
  \/ kind \in {"disable", "import"} /\ at = "stop"
  \/ kind = "import" /\ at = "import"
RouteInv ==
  /\ work[Loop].at \in {"idle", "adopt", "send", "done"} /\ patch[Loop].at = "idle"
  /\ work[Loop].at = "send" => Kind(Loop) \in CalmKinds
  /\ \A i \in DOMAIN queue : queue[i].kind \in CalmKinds
  /\ work[Updater].at # "idle" => Kind(Updater) \in CalmKinds
  /\ Route(Kind(Updater), work[Updater].at, work[Updater].then)

(* The updater waits for its patch, and then runs what it has written.       *)
PatchInv == LET now == patch[Updater] IN
  /\ now.at \in {"idle", "write", "switch", "applied"}
  /\ now.at # "idle" => work[Updater].at = "await"
  /\ now.at # "write" => now.ops = <<>>
  /\ now.at = "switch" => now.cfg = nixDir
  /\ now.at \in {"idle", "applied"} => running = nixDir

(* A pup that is not, or no more, to be part of the system; a purge is only  *)
(* begun for such a one, and none of them comes back.                        *)
Stopped(p) == pup[p].inst \notin {"installing", "ready"}
StoppedInv ==
  /\ \A p \in Pups : pup[p].inst # "upgrading"
  /\ work[Updater].at = "broken" => Mine = NoPup
  /\ Between(work[Updater].at, work[Updater].then, {"build", "gone"}, {"gone"})
       /\ Kind(Updater) = "uninstall"
       => Mine.inst = "uninstalling"
  /\ work[Updater].at = "start" /\ Kind(Updater) = "purge" /\ Seen.inst = "uninstalled"
       => Stopped(Pup(Updater))
  /\ \A i \in DOMAIN queue :
       queue[i].kind = "purge" /\ queue[i].seen.inst = "uninstalled" => Stopped(queue[i].pup)

(* An enable or a disable of p is on its way to the updater, or was deleted. *)
Flipped(p) ==
  \/ Withdrawn(Switches, p)
  \/ \E i \in DOMAIN queue : queue[i].pup = p /\ queue[i].kind \in Switches
  \/ work[Loop].at = "send" /\ Pup(Loop) = p /\ Kind(Loop) \in Switches

(* The job at work will write the file of p, as it then finds it.            *)
WillWrite(p) ==
  /\ On(Updater, p)
  /\ \/ Kind(Updater) \in Switches /\ work[Updater].at \in {"start", "stop", "build"}
     \/ Kind(Updater) = "import" /\ work[Updater].at \in {"stop", "import"} /\ Seen.enabled
     \/ Kind(Updater) = "import" /\ work[Updater].at = "build"

(* What is to be written is the pup in memory, or will be written again.     *)
CopyInv ==
  /\ work[Updater].at \in {"stop", "build"} /\ Kind(Updater) \in {"install", "enable", "disable"}
  /\ Mine # NoPup
  => work[Updater].state.enabled = Mine.enabled \/ Flipped(Pup(Updater))

(* What file f holds once the patch of the updater is written.               *)
Becoming(f) == LET ops == patch[Updater].ops
                   for == {i \in DOMAIN ops : ops[i].file = f} IN
  IF for = {} THEN {nixDir[f]} ELSE {ops[i].to : i \in for}

Installed(p) ==
  \/ pup[p].inst = "ready"
  \/ /\ On(Updater, p) /\ Kind(Updater) = "install"
     /\ Between(work[Updater].at, work[Updater].then, {"ready"}, {"ready"})
Leaving(p) == On(Updater, p) /\ Kind(Updater) = "uninstall" /\ work[Updater].at = "build"

ListRight(c, p) ==
  /\ c # Missing
  /\ Installed(p) => c[p]
  /\ Stopped(p) /\ ~Leaving(p) => ~c[p]
FileRight(c, p) ==
  Installed(p) => /\ c # Missing
                  /\ c.enabled = pup[p].enabled \/ Flipped(p) \/ WillWrite(p)
NixInv == \A p \in Pups :
  /\ \A c \in Becoming(Includes) : ListRight(c, p)
  /\ \A c \in Becoming(p) : FileRight(c, p)

GInv == RouteInv /\ PatchInv /\ StoppedInv /\ CopyInv /\ NixInv
=============================================================================
