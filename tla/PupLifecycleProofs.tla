------------------------- MODULE PupLifecycleProofs -------------------------
(***************************************************************************)
(* What the jobs do to pups, for any pups, versions, kinds of jobs, faults *)
(* and number of requests and crashes: the types, that a pup in a passing  *)
(* state has its job, that a READY pup has the files of its version, and   *)
(* that a pup is on disk as it is in memory when all jobs are done; and,   *)
(* while nothing fails and nobody upgrades a pup, that the system runs     *)
(* what it should when all jobs are done.                                  *)
(***************************************************************************)
EXTENDS PupLifecycleInv, TLAPS

Works == [at : Labels, job : Jobs \cup {<<>>}, state : PupStates, then : Labels]
VersionsOrNone == Versions \cup {0}

-----------------------------------------------------------------------------
(* Records and their fields.                                                 *)

LEMMA Goroutines == Loop \in Patchers /\ Updater \in Patchers /\ Patchers = {Loop, Updater}
                    /\ Loop # Updater
  BY LifecycleAssumption DEF Loop, Updater

LEMMA PupStateFields ==
  /\ NoPup \in PupStates /\ NoPup.inst = "none"
  /\ \A r \in PupStates : /\ r.inst \in Installation /\ r.enabled \in BOOLEAN
                          /\ r.version \in VersionsOrNone
  /\ \A i \in Installation, e \in BOOLEAN, v \in VersionsOrNone :
       [inst |-> i, enabled |-> e, version |-> v] \in PupStates
  BY DEF PupStates, NoPup, Installation, VersionsOrNone

LEMMA PupStateChanges ==
  ASSUME NEW r \in PupStates
  PROVE  /\ \A i \in Installation : [r EXCEPT !.inst = i] \in PupStates
                                    /\ [r EXCEPT !.inst = i].inst = i
         /\ \A e \in BOOLEAN : [r EXCEPT !.enabled = e] \in PupStates
                               /\ [r EXCEPT !.enabled = e].inst = r.inst
         /\ \A v \in VersionsOrNone : [r EXCEPT !.version = v] \in PupStates
                                      /\ [r EXCEPT !.version = v].inst = r.inst
         /\ \A i \in Installation, e \in BOOLEAN :
              /\ [r EXCEPT !.inst = i, !.enabled = e] \in PupStates
              /\ [r EXCEPT !.inst = i, !.enabled = e].inst = i
         /\ \A i \in Installation, v \in VersionsOrNone :
              /\ [r EXCEPT !.inst = i, !.version = v] \in PupStates
              /\ [r EXCEPT !.inst = i, !.version = v].inst = i
  BY DEF PupStates, VersionsOrNone

LEMMA JobFields ==
  ASSUME NEW j \in Jobs
  PROVE  /\ j.kind \in AllKinds /\ j.pup \in Pups /\ j.to \in VersionsOrNone
         /\ j.seen \in PupStates
         /\ \A r \in PupStates : /\ [j EXCEPT !.seen = r] \in Jobs
                                 /\ [j EXCEPT !.seen = r].kind = j.kind
                                 /\ [j EXCEPT !.seen = r].pup = j.pup
  BY DEF Jobs, VersionsOrNone

LEMMA NoWorkType == NoWork \in Works /\ NoWork.at = "idle"
  BY PupStateFields DEF NoWork, Works, Labels

LEMMA TypeParts ==
  TypeOK <=> /\ NixTypeOK
             /\ pup \in [Pups -> PupStates] /\ disk \in [Pups -> PupStates]
             /\ files \in [Pups -> VersionsOrNone] /\ snapshot \in [Pups -> Snapshots]
             /\ queue \in Seq(Jobs) /\ work \in [Patchers -> Works]
             /\ saving \in [Patchers -> PupStates]
             /\ purged \subseteq Pups /\ unsure \subseteq Pups
             /\ requests \in Nat /\ crashes \in Nat
             /\ withdrawn \subseteq AllKinds \X Pups /\ left \in [Pups -> Installation]
  BY DEF TypeOK, Works, VersionsOrNone

LEMMA WorkFields ==
  ASSUME NEW w \in Works
  PROVE  w.at \in Labels /\ w.job \in Jobs \cup {<<>>} /\ w.state \in PupStates /\ w.then \in Labels
  BY DEF Works

-----------------------------------------------------------------------------
(* Steps of one goroutine.                                                   *)

LEMMA GotoEffect ==
  ASSUME work \in [Patchers -> Works], NEW a \in Patchers, NEW l \in Labels, Goto(a, l)
  PROVE  /\ work' \in [Patchers -> Works]
         /\ work'[a].at = l /\ work'[a].job = work[a].job
         /\ work'[a].state = work[a].state /\ work'[a].then = work[a].then
         /\ \A b \in Patchers \ {a} : work'[b] = work[b]
<1>1. work[a] \in Works
  OBVIOUS
<1>2. /\ [work[a] EXCEPT !.at = l] \in Works
      /\ [work[a] EXCEPT !.at = l].at = l
      /\ [work[a] EXCEPT !.at = l].job = work[a].job
      /\ [work[a] EXCEPT !.at = l].state = work[a].state
      /\ [work[a] EXCEPT !.at = l].then = work[a].then
  BY <1>1 DEF Works
<1>3. work' = [work EXCEPT ![a] = [work[a] EXCEPT !.at = l]]
  BY DEF Goto
<1>4. work'[a] = [work[a] EXCEPT !.at = l]
  BY <1>3
<1> QED
  BY <1>2, <1>3, <1>4

LEMMA OnErrorLabel == \A a \in Patchers : OnError(a) \in {"broken", "failed"}
  BY DEF OnError

(* What UpdatePup does to the state of a and of its pup p when r is the new  *)
(* state of the pup.                                                         *)
Updated(a, r, l) ==
  /\ pup[Pup(a)] # NoPup
  /\ pup' = [pup EXCEPT ![Pup(a)] = r] /\ saving' = [saving EXCEPT ![a] = r]
  /\ work'[a].at = l
NotThere(a) ==
  /\ pup[Pup(a)] = NoPup /\ pup' = pup /\ saving' = saving /\ work'[a].at = OnError(a)

LEMMA UpdateEffect ==
  ASSUME TypeOK, JobInv, NEW a \in Patchers, work[a].at # "idle",
         NEW r \in PupStates, NEW l \in Labels, UpdatePup(a, r, l)
  PROVE  /\ work' \in [Patchers -> Works] /\ pup' \in [Pups -> PupStates]
         /\ saving' \in [Patchers -> PupStates]
         /\ work'[a].job = work[a].job /\ work'[a].then = work[a].then
         /\ \A b \in Patchers \ {a} : work'[b] = work[b] /\ saving'[b] = saving[b]
         /\ Updated(a, r, l) \/ NotThere(a)
<1>1. /\ work \in [Patchers -> Works] /\ pup \in [Pups -> PupStates]
      /\ saving \in [Patchers -> PupStates]
  BY TypeParts
<1>2. CASE pup[Pup(a)] = NoPup
  <2>1. Goto(a, OnError(a)) /\ UNCHANGED <<pup, saving>>
    BY <1>2 DEF UpdatePup
  <2>2. OnError(a) \in Labels
    BY OnErrorLabel DEF Labels
  <2> HIDE DEF Goto
  <2>3. /\ work' \in [Patchers -> Works]
        /\ work'[a].at = OnError(a) /\ work'[a].job = work[a].job
        /\ work'[a].then = work[a].then
        /\ \A b \in Patchers \ {a} : work'[b] = work[b]
    BY <1>1, <2>1, <2>2, GotoEffect
  <2> QED
    BY <1>1, <1>2, <2>1, <2>3 DEF NotThere
<1>3. CASE pup[Pup(a)] # NoPup
  <2>1. work[a] \in Works
    BY <1>1
  <2> DEFINE w == [work[a] EXCEPT !.at = l, !.state = r]
  <2>2. w \in Works /\ w.at = l /\ w.job = work[a].job /\ w.then = work[a].then
    BY <2>1 DEF Works
  <2>3. /\ pup' = [pup EXCEPT ![Pup(a)] = r] /\ saving' = [saving EXCEPT ![a] = r]
        /\ work' = [work EXCEPT ![a] = w]
    BY <1>3 DEF UpdatePup
  <2> HIDE DEF w
  <2>4. work'[a] = w
    BY <1>1, <2>3
  <2> QED
    BY <1>1, <1>3, <2>2, <2>3, <2>4 DEF Updated
<1> QED
  BY <1>2, <1>3

-----------------------------------------------------------------------------
(* Nix patches.                                                              *)

Patching == [at : {"idle"} \cup Active \cup Result, ops : Seq(Ops), cfg : Dirs \cup {<<>>}]

LEMMA NoPatchType == NoPatch \in Patching /\ NoPatch.at # "switch"
  BY DEF NoPatch, Patching

LEMMA Ended ==
  \A s \in Result : /\ [NoPatch EXCEPT !.at = s] \in Patching
                     /\ [NoPatch EXCEPT !.at = s].at # "switch"
<1> TAKE s \in Result
<1>1. [NoPatch EXCEPT !.at = s] = [at |-> s, ops |-> <<>>, cfg |-> <<>>]
  BY DEF NoPatch
<1>2. <<>> \in Seq(Ops)
  OBVIOUS
<1> QED
  BY <1>1, <1>2 DEF Patching, Result

\* A patch may be begun with any operations, and is written and switched to as
\* directories are.
LEMMA PatchTypes ==
  ASSUME NixTypeOK, NEW a \in Patchers
  PROVE  /\ \A ops \in Seq(Ops) : Apply(a, ops) => NixTypeOK'
         /\ Write(a) \/ Evaluate(a) \/ Switch(a) \/ Fail(a) \/ Discard(a) => NixTypeOK'
         /\ StopPatches => NixTypeOK'
<1>1. /\ nixDir \in Dirs /\ running \in Dirs /\ patch \in [Patchers -> Patching]
      /\ \A b \in Patchers : patch[b].at = "switch" => patch[b].cfg \in Dirs
  BY DEF NixTypeOK, Patching
<1>2. patch[a] \in Patching
  BY <1>1
<1>3. ASSUME nixDir' \in Dirs, running' \in Dirs, NEW w \in Patching,
             w.at = "switch" => w.cfg \in Dirs, patch' = [patch EXCEPT ![a] = w]
      PROVE  NixTypeOK'
  BY <1>1, <1>3 DEF NixTypeOK, Patching
<1>4. ASSUME NEW ops \in Seq(Ops), Apply(a, ops) PROVE NixTypeOK'
  <2>1. /\ [at |-> "write", ops |-> ops, cfg |-> <<>>] \in Patching
        /\ [at |-> "write", ops |-> ops, cfg |-> <<>>].at # "switch"
    BY DEF Patching, Active
  <2> QED
    BY <1>1, <1>3, <1>4, <2>1 DEF Apply
<1>5. ASSUME Write(a) PROVE NixTypeOK'
  <2>1. patch[a].ops \in Seq(Ops) /\ patch[a].ops # <<>>
    BY <1>2, <1>5 DEF Patching, Write
  <2>2. Head(patch[a].ops) \in Ops /\ Tail(patch[a].ops) \in Seq(Ops)
    BY <2>1
  <2>3. nixDir' \in Dirs
    BY <1>1, <1>5, <2>2 DEF Write, Ops, Dirs
  <2>4. /\ [patch[a] EXCEPT !.ops = Tail(@)] \in Patching
        /\ [patch[a] EXCEPT !.ops = Tail(@)].at = "write"
    BY <1>2, <1>5, <2>2 DEF Patching, Write
  <2>5. patch' = [patch EXCEPT ![a] = [patch[a] EXCEPT !.ops = Tail(@)]]
    BY <1>1, <1>5 DEF Write
  <2> QED
    BY <1>1, <1>3, <1>5, <2>3, <2>4, <2>5 DEF Write
<1>6. ASSUME Evaluate(a) PROVE NixTypeOK'
  <2>1. /\ [patch[a] EXCEPT !.at = "switch", !.cfg = nixDir] \in Patching
        /\ [patch[a] EXCEPT !.at = "switch", !.cfg = nixDir].cfg = nixDir
    BY <1>1, <1>2 DEF Patching, Active
  <2>2. patch' = [patch EXCEPT ![a] = [patch[a] EXCEPT !.at = "switch", !.cfg = nixDir]]
    BY <1>1, <1>6 DEF Evaluate
  <2> QED
    BY <1>1, <1>3, <1>6, <2>1, <2>2 DEF Evaluate
<1>7. ASSUME Switch(a) PROVE NixTypeOK'
  <2>1. running' \in Dirs
    BY <1>1, <1>7 DEF Switch
  <2>2. /\ [NoPatch EXCEPT !.at = "applied"] \in Patching
        /\ [NoPatch EXCEPT !.at = "applied"].at # "switch"
    BY Ended DEF Result
  <2> QED
    BY <1>1, <1>3, <1>7, <2>1, <2>2 DEF Switch
<1>8. ASSUME Fail(a) PROVE NixTypeOK'
  <2>1. /\ [NoPatch EXCEPT !.at = "errored"] \in Patching
        /\ [NoPatch EXCEPT !.at = "errored"].at # "switch"
    BY Ended DEF Result
  <2> QED
    BY <1>1, <1>3, <1>8, <2>1 DEF Fail
<1>9. ASSUME Discard(a) PROVE NixTypeOK'
  BY <1>1, <1>3, <1>9, NoPatchType DEF Discard
<1>10. ASSUME StopPatches PROVE NixTypeOK'
  BY <1>1, <1>10, NoPatchType DEF StopPatches, NixTypeOK, Patching
<1> QED
  BY <1>4, <1>5, <1>6, <1>7, <1>8, <1>9, <1>10

\* What the jobs write are contents of the files they write them to.
LEMMA PupOps ==
  ASSUME pup \in [Pups -> PupStates], Pup(Updater) \in Pups
  PROVE  /\ RemovePupFile \in Ops /\ UpdateIncludesFile \in Ops
         /\ \A r \in PupStates : WritePupFile(r) \in Ops
<1>1. Pup(Updater) \in Files /\ Includes \in Files
  BY LifecycleAssumption
<1>2. [p \in Pups |-> pup[p].inst \in {"installing", "ready"}] \in Contents
  <2> DEFINE l == [p \in Pups |-> pup[p].inst \in {"installing", "ready"}]
  <2>1. l \in Listings
    <3>1. \A p \in Pups : (pup[p].inst \in {"installing", "ready"}) \in BOOLEAN
      OBVIOUS
    <3> QED
      BY <3>1, Zenon DEF Listings
  <2> QED
    BY <2>1, LifecycleAssumption
<1>3. ASSUME NEW r \in PupStates
      PROVE  [enabled |-> r.enabled, version |-> r.version] \in Contents
  BY LifecycleAssumption DEF PupStates, PupFiles
<1> QED
  BY <1>1, <1>2, <1>3, NixConfigAssumption
     DEF Ops, RemovePupFile, UpdateIncludesFile, WritePupFile
-----------------------------------------------------------------------------
(* Steps of the updater, at its pup.                                         *)

Passing == {"installing", "upgrading", "uninstalling", "purging"}

LEMMA PassingStates == DOMAIN WorkerOf = Passing /\ "none" \notin Passing
  BY DEF WorkerOf, Passing

(* The updater goes on with its job, and touches no pup but the job's.       *)
UpdaterMoves ==
  /\ work'[Loop] = work[Loop] /\ saving'[Loop] = saving[Loop]
  /\ queue' = queue /\ crashes' = crashes /\ past' = past
  /\ work'[Updater].job.pup = Pup(Updater) /\ work'[Updater].job.kind = Kind(Updater)
  /\ \A p \in Pups \ {Pup(Updater)} : pup'[p] = pup[p]
  /\ pup[Pup(Updater)] = NoPup => pup'[Pup(Updater)] = NoPup

LEMMA UpdaterProgress ==
  ASSUME IInv, UpdaterMoves, Pup(Updater) \in Pups,
         Fitting(Kind(Updater), work'[Updater].at, work'[Updater].then),
         LET i == pup'[Pup(Updater)].inst
         IN  i \in Passing =>
               \/ MarkedBy(i, Kind(Updater), work'[Updater].at, work'[Updater].then)
               \/ /\ i = pup[Pup(Updater)].inst
                  /\ ~MarkedBy(i, Kind(Updater), work[Updater].at, work[Updater].then)
  PROVE  AdoptInv' /\ KindInv' /\ ProgressInv'
<1>1. \A p \in Pups : Coming(p)' <=> Coming(p)
  BY DEF UpdaterMoves, Coming, At, Kind, Pup, past
<1>2. AdoptInv'
  <2> SUFFICES ASSUME work'[Loop].at = "adopt" PROVE pup'[Pup(Loop)] = NoPup
    BY DEF IInv, AdoptInv, UpdaterMoves, Kind, Pup, past
  <2>1. pup[Pup(Loop)] = NoPup /\ Pup(Loop) \in Pups
    BY Goroutines, JobFields DEF IInv, AdoptInv, JobInv, UpdaterMoves, Pup, past
  <2> QED
    BY <2>1 DEF UpdaterMoves, past
<1>3. ASSUME NEW p \in Pups, pup'[p].inst \in Passing PROVE (Excused(p) \/ Marked(p))'
  <2>1. pup[p].inst \in Passing => Excused(p) \/ Marked(p)
    BY PassingStates DEF IInv, ProgressInv
  <2>2. pup'[p].inst = pup[p].inst => (Excused(p)' <=> Excused(p))
    BY <1>1 DEF Excused, UpdaterMoves, past, Withdrawn
  <2>3. CASE p # Pup(Updater)
    BY <1>3, <2>1, <2>2, <2>3 DEF UpdaterMoves, Marked, past
  <2>4. CASE p = Pup(Updater)
    BY <1>3, <2>1, <2>2, <2>4 DEF UpdaterMoves, Marked, Pup, Kind, past
  <2> QED
    BY <2>3, <2>4
<1>4. KindInv'
  BY DEF KindInv, UpdaterMoves, Kind, past
<1> QED
  BY <1>2, <1>3, <1>4, PassingStates DEF ProgressInv

(* What else a step of the updater keeps.                                    *)
OthersTyped ==
  /\ NixTypeOK' /\ disk' \in [Pups -> PupStates] /\ files' \in [Pups -> VersionsOrNone]
  /\ snapshot' \in [Pups -> Snapshots] /\ purged' \subseteq Pups /\ unsure' \subseteq Pups
  /\ requests' = requests /\ queue' = queue /\ crashes' = crashes /\ past' = past

LEMMA FilesKept == TypeOK /\ keepFiles => OthersTyped
  BY TypeParts DEF keepFiles, OthersTyped, configVars, NixTypeOK, Active, Result, Dirs, Ops, past

LEMMA Busy ==
  ASSUME IInv, work[Updater].at # "idle"
  PROVE  /\ work[Updater].job \in Jobs /\ work[Updater] \in Works
         /\ Pup(Updater) \in Pups /\ Kind(Updater) \in AllKinds
         /\ pup[Pup(Updater)] \in PupStates
  BY Goroutines, JobFields, TypeParts DEF IInv, JobInv, Pup, Kind

\* The updater updates its pup to r and goes on at l.
LEMMA UpdaterUpdates ==
  ASSUME IInv, work[Updater].at # "idle", saving[Updater] = NoPup, keepFiles,
         NEW r \in PupStates, NEW l \in Labels \ Resting, UpdatePup(Updater, r, l),
         Fitting(Kind(Updater), l, work[Updater].then),
         r.inst \in Passing =>
           \/ MarkedBy(r.inst, Kind(Updater), l, work[Updater].then)
           \/ /\ r.inst = pup[Pup(Updater)].inst
              /\ ~MarkedBy(r.inst, Kind(Updater), work[Updater].at, work[Updater].then)
  PROVE  IInv'
<1>1. /\ work' \in [Patchers -> Works] /\ pup' \in [Pups -> PupStates]
      /\ saving' \in [Patchers -> PupStates]
      /\ work'[Updater].job = work[Updater].job /\ work'[Updater].then = work[Updater].then
      /\ work'[Loop] = work[Loop] /\ saving'[Loop] = saving[Loop]
      /\ Updated(Updater, r, l) \/ NotThere(Updater)
  BY UpdateEffect, Goroutines DEF IInv
<1>2. OthersTyped
  BY FilesKept DEF IInv
<1>3. TypeOK'
  BY <1>1, <1>2, TypeParts DEF OthersTyped, TypeOK, Works, VersionsOrNone, IInv, past
<1>4. /\ work'[Updater].at # "idle"
      /\ work'[Updater].at \in Resting => saving'[Updater] = NoPup
  BY <1>1, OnErrorLabel, Goroutines DEF Updated, NotThere, Resting
<1>5. JobInv'
  BY <1>1, <1>4, Busy, Goroutines DEF JobInv, IInv
<1>6. UpdaterMoves
  BY <1>1, <1>2, Busy, TypeParts DEF UpdaterMoves, OthersTyped, Pup, Kind, Updated, NotThere, IInv, past
<1>7. pup'[Pup(Updater)].inst \in Passing =>
        /\ pup'[Pup(Updater)] = r
        /\ work'[Updater].at = l
  BY <1>1, Busy, TypeParts, PassingStates, PupStateFields DEF Updated, NotThere, IInv
<1>8. Fitting(Kind(Updater), work'[Updater].at, work'[Updater].then)
  BY <1>1, OnErrorLabel, Goroutines DEF Updated, NotThere, Fitting, Upgrading, Between
<1> QED
  BY <1>1, <1>3, <1>5, <1>6, <1>7, <1>8, Busy, UpdaterProgress DEF IInv

\* The updater goes on at l.
LEMMA UpdaterGoes ==
  ASSUME IInv, work[Updater].at # "idle", OthersTyped, UNCHANGED pup,
         saving' \in [Patchers -> PupStates], saving'[Loop] = saving[Loop],
         saving'[Updater] = NoPup, NEW l \in Labels, Goto(Updater, l),
         Fitting(Kind(Updater), l, work[Updater].then),
         LET i == pup[Pup(Updater)].inst
         IN  i \in Passing /\ MarkedBy(i, Kind(Updater), work[Updater].at, work[Updater].then)
               => MarkedBy(i, Kind(Updater), l, work[Updater].then)
  PROVE  IInv'
<1>1. /\ work' \in [Patchers -> Works]
      /\ work'[Updater].job = work[Updater].job /\ work'[Updater].then = work[Updater].then
      /\ work'[Updater].at = l /\ work'[Loop] = work[Loop]
  BY GotoEffect, Goroutines, TypeParts DEF IInv
<1>2. TypeOK'
  BY <1>1, TypeParts DEF OthersTyped, TypeOK, Works, VersionsOrNone, IInv, past
<1>3. JobInv'
  BY <1>1, Busy, Goroutines DEF JobInv, IInv
<1>4. UpdaterMoves
  BY <1>1 DEF UpdaterMoves, OthersTyped, Pup, Kind, past
<1> QED
  BY <1>1, <1>2, <1>3, <1>4, Busy, UpdaterProgress DEF IInv
\* The updater goes on as w says, its pup as it was or not.
LEMMA UpdaterWorks ==
  ASSUME IInv, work[Updater].at # "idle", OthersTyped,
         saving' \in [Patchers -> PupStates], saving'[Loop] = saving[Loop],
         pup' \in [Pups -> PupStates], \A p \in Pups \ {Pup(Updater)} : pup'[p] = pup[p],
         pup[Pup(Updater)] = NoPup => pup'[Pup(Updater)] = NoPup,
         NEW w \in Works, work' = [work EXCEPT ![Updater] = w],
         saving'[Updater] = NoPup \/ w.at \notin Resting,
         w.at # "idle", w.job \in Jobs, w.job.pup = Pup(Updater), w.job.kind = Kind(Updater),
         Fitting(Kind(Updater), w.at, w.then),
         LET i == pup'[Pup(Updater)].inst
         IN  i \in Passing =>
               \/ MarkedBy(i, Kind(Updater), w.at, w.then)
               \/ /\ i = pup[Pup(Updater)].inst
                  /\ ~MarkedBy(i, Kind(Updater), work[Updater].at, work[Updater].then)
  PROVE  IInv'
<1>1. work' \in [Patchers -> Works] /\ work'[Updater] = w /\ work'[Loop] = work[Loop]
  BY Goroutines, TypeParts DEF IInv
<1>2. TypeOK'
  BY <1>1, TypeParts DEF OthersTyped, TypeOK, Works, VersionsOrNone, IInv, past
<1>3. JobInv'
  BY <1>1, Goroutines DEF JobInv, IInv
<1>4. UpdaterMoves
  BY <1>1 DEF UpdaterMoves, OthersTyped, Pup, Kind, past
<1> QED
  BY <1>1, <1>2, <1>3, <1>4, Busy, UpdaterProgress DEF IInv

\* The updater applies a patch and waits for it.
LEMMA UpdaterApplies ==
  ASSUME IInv, work[Updater].at \in Labels \ {"idle"}, saving[Updater] = NoPup, NEW ops \in Seq(Ops),
         NEW l \in Labels, ApplyPatch(Updater, ops, l),
         l \in Upgrading => Kind(Updater) = "upgrade",
         LET i == pup[Pup(Updater)].inst
         IN  MarkedBy(i, Kind(Updater), work[Updater].at, work[Updater].then)
               => MarkedBy(i, Kind(Updater), "await", l)
  PROVE  IInv'
<1> DEFINE w == [work[Updater] EXCEPT !.at = "await", !.then = l]
<1>1. w \in Works /\ w.at = "await" /\ w.then = l /\ w.job = work[Updater].job
  BY Busy DEF Works, Labels
<1>2. work' = [work EXCEPT ![Updater] = w]
  BY Goroutines DEF ApplyPatch
<1>3. OthersTyped
  BY PatchTypes, Goroutines, TypeParts DEF ApplyPatch, OthersTyped, IInv, past
<1>4. UNCHANGED <<pup, saving>>
  BY DEF ApplyPatch
<1> HIDE DEF w
<1> QED
  BY <1>1, <1>2, <1>3, <1>4, UpdaterWorks, Busy, TypeParts
     DEF IInv, Pup, Kind, Fitting, Upgrading, Between
-----------------------------------------------------------------------------
(* The actions of the updater.                                               *)

\* The first step of each job marks its pup, or leaves its state alone.
LEMMA Beginnings ==
  ASSUME IInv, \/ installPup \/ uninstallPup \/ purgePup \/ enablePup \/ disablePup
               \/ upgradePup \/ rollbackPupUpgrade
  PROVE  IInv'
<1>1. /\ work[Updater].at = "start" /\ keepFiles /\ saving[Updater] = NoPup
      /\ {"download", "build", "removeGob", "stop", "rebuild", "snapshot", "failed"}
           \subseteq Labels \ Resting
  BY DEF installPup, uninstallPup, purgePup, enablePup, disablePup, upgradePup,
         rollbackPupUpgrade, Starting, At, Labels, Resting
<1>2. Mine \in PupStates /\ OthersTyped
  BY <1>1, Busy, FilesKept DEF Mine, IInv
<1>3. /\ \A i \in {"installing", "upgrading"} : /\ [Mine EXCEPT !.inst = i] \in PupStates
                                               /\ [Mine EXCEPT !.inst = i].inst = i
      /\ \A i \in {"uninstalling", "purging"} :
           /\ [Mine EXCEPT !.inst = i, !.enabled = FALSE] \in PupStates
           /\ [Mine EXCEPT !.inst = i, !.enabled = FALSE].inst = i
      /\ \A e \in BOOLEAN : /\ [Mine EXCEPT !.enabled = e] \in PupStates
                            /\ [Mine EXCEPT !.enabled = e].inst = Mine.inst
  <2> DEFINE m == Mine
  <2>1. m \in PupStates /\ FALSE \in BOOLEAN
        /\ {"installing", "upgrading", "uninstalling", "purging"} \subseteq Installation
    BY <1>2 DEF Installation
  <2> HIDE DEF m
  <2>2. \A i \in {"installing", "upgrading"} : /\ [m EXCEPT !.inst = i] \in PupStates
                                               /\ [m EXCEPT !.inst = i].inst = i
    BY <2>1 DEF PupStates
  <2>3. \A i \in {"uninstalling", "purging"} :
          /\ [m EXCEPT !.inst = i, !.enabled = FALSE] \in PupStates
          /\ [m EXCEPT !.inst = i, !.enabled = FALSE].inst = i
    BY <2>1 DEF PupStates
  <2>4. \A e \in BOOLEAN : /\ [m EXCEPT !.enabled = e] \in PupStates
                            /\ [m EXCEPT !.enabled = e].inst = m.inst
    BY <2>1 DEF PupStates
  <2> QED
    BY <2>2, <2>3, <2>4 DEF m
<1>4. CASE installPup
  BY <1>1, <1>3, <1>4, UpdaterUpdates DEF installPup, Starting, MarkedBy, Between, Fitting, Upgrading
<1>5. CASE uninstallPup
  BY <1>1, <1>3, <1>5, UpdaterUpdates DEF uninstallPup, Starting, MarkedBy, Between, Fitting, Upgrading
<1>6. CASE purgePup
  <2>1. CASE Seen.inst # "uninstalled"
    BY <1>1, <1>2, <1>6, <2>1, UpdaterGoes, TypeParts
       DEF purgePup, Starting, MarkedBy, Between, Fitting, Upgrading, IInv
  <2>2. CASE Seen.inst = "uninstalled"
    BY <1>1, <1>3, <1>6, <2>2, UpdaterUpdates DEF purgePup, Starting, MarkedBy, Between, Fitting, Upgrading
  <2> QED
    BY <2>1, <2>2
<1>7. CASE enablePup
  BY <1>1, <1>3, <1>7, UpdaterUpdates DEF enablePup, Starting, MarkedBy, Between, Fitting, Upgrading, Mine
<1>8. CASE disablePup
  BY <1>1, <1>3, <1>8, UpdaterUpdates DEF disablePup, Starting, MarkedBy, Between, Fitting, Upgrading, Mine
<1>9. CASE upgradePup
  <2>1. CASE Seen.enabled /\ Mine # NoPup /\ Mine.enabled
    BY <1>1, <1>3, <1>9, <2>1, UpdaterUpdates DEF upgradePup, Starting, MarkedBy, Between, Fitting, Upgrading, Mine
  <2>2. CASE ~(Seen.enabled /\ Mine # NoPup /\ Mine.enabled)
    BY <1>1, <1>2, <1>9, <2>2, UpdaterGoes, TypeParts
       DEF upgradePup, Starting, MarkedBy, Between, Fitting, Upgrading, IInv
  <2> QED
    BY <2>1, <2>2
<1>10. CASE rollbackPupUpgrade
  <2>1. CASE snapshot[Pup(Updater)] = NoSnapshot
    BY <1>1, <1>2, <1>10, <2>1, UpdaterGoes, TypeParts
       DEF rollbackPupUpgrade, Starting, MarkedBy, Between, Fitting, Upgrading, IInv
  <2>2. CASE snapshot[Pup(Updater)] # NoSnapshot
    BY <1>1, <1>3, <1>10, <2>2, UpdaterUpdates
       DEF rollbackPupUpgrade, Starting, MarkedBy, Between, Fitting, Upgrading
  <2> QED
    BY <2>1, <2>2
<1> QED
  BY <1>4, <1>5, <1>6, <1>7, <1>8, <1>9, <1>10
\* The state a job gives its pup, where it is one of these changes of it.
LEMMA MineChanges ==
  ASSUME IInv, work[Updater].at # "idle"
  PROVE  /\ \A i \in {"ready", "uninstalled", "broken"} :
              [Mine EXCEPT !.inst = i] \in PupStates /\ [Mine EXCEPT !.inst = i].inst = i
         /\ [Mine EXCEPT !.enabled = TRUE] \in PupStates
         /\ [Mine EXCEPT !.enabled = TRUE].inst = Mine.inst
         /\ \A v \in VersionsOrNone :
              /\ [Mine EXCEPT !.version = v] \in PupStates
              /\ [Mine EXCEPT !.version = v].inst = Mine.inst
              /\ [Mine EXCEPT !.inst = "upgrading", !.version = v] \in PupStates
              /\ [Mine EXCEPT !.inst = "upgrading", !.version = v].inst = "upgrading"
         /\ \A e \in BOOLEAN :
              /\ [Mine EXCEPT !.inst = "ready", !.enabled = e] \in PupStates
              /\ [Mine EXCEPT !.inst = "ready", !.enabled = e].inst = "ready"
<1> DEFINE m == Mine
<1>1. m \in PupStates
  BY Busy DEF Mine
<1> HIDE DEF m
<1>2. \A i \in {"ready", "uninstalled", "broken"} :
        [m EXCEPT !.inst = i] \in PupStates /\ [m EXCEPT !.inst = i].inst = i
  BY <1>1 DEF PupStates, Installation
<1>3. [m EXCEPT !.enabled = TRUE] \in PupStates /\ [m EXCEPT !.enabled = TRUE].inst = m.inst
  BY <1>1 DEF PupStates
<1>4. \A v \in VersionsOrNone :
         /\ [m EXCEPT !.version = v] \in PupStates
         /\ [m EXCEPT !.version = v].inst = m.inst
         /\ [m EXCEPT !.inst = "upgrading", !.version = v] \in PupStates
         /\ [m EXCEPT !.inst = "upgrading", !.version = v].inst = "upgrading"
  BY <1>1 DEF PupStates, VersionsOrNone, Installation
<1>5. \A e \in BOOLEAN :
         /\ [m EXCEPT !.inst = "ready", !.enabled = e] \in PupStates
         /\ [m EXCEPT !.inst = "ready", !.enabled = e].inst = "ready"
  BY <1>1 DEF PupStates, Installation
<1> QED
  BY <1>2, <1>3, <1>4, <1>5 DEF m

\* Files, preparation and the state restored by a rollback.
LEMMA Preparation ==
  ASSUME IInv, DownloadPup \/ PreparePup \/ RestoreState PROVE IInv'
<1>1. work[Updater].at \in {"download", "prepare", "restore"} /\ saving[Updater] = NoPup
  BY DEF DownloadPup, PreparePup, RestoreState, At
<1>2. /\ {"restore", "prepare", "build", "ready"} \subseteq Labels \ Resting
      /\ "broken" \in Labels \ {"idle"}
  BY DEF Labels, Resting
<1>3. /\ snapshot[Pup(Updater)].version \in VersionsOrNone
      /\ work[Updater].job.to \in VersionsOrNone
  BY <1>1, Busy, JobFields, TypeParts DEF IInv, Snapshots, VersionsOrNone
<1>4. CASE DownloadPup
  <2>1. OthersTyped /\ UNCHANGED <<pup, saving>>
    <3>1. Fetched \in VersionsOrNone /\ 0 \in VersionsOrNone
      BY <1>3 DEF Fetched, VersionsOrNone
    <3>2. files' \in [Pups -> VersionsOrNone]
      BY <1>4, <3>1, TypeParts DEF DownloadPup, IInv
    <3> QED
      BY <1>4, <3>2, TypeParts
         DEF DownloadPup, OthersTyped, IInv, configVars, NixTypeOK, Active, Result, Dirs, Ops, past
  <2>2. PICK l \in {"restore", "prepare", "broken"} :
          /\ Goto(Updater, l)
          /\ l = "restore" => Kind(Updater) = "rollback"
          /\ l = "prepare" => Kind(Updater) # "rollback"
    BY <1>4 DEF DownloadPup
  <2> QED
    BY <1>2, <1>4, <2>1, <2>2, UpdaterGoes, TypeParts DEF DownloadPup, At, MarkedBy, Between, Fitting, Upgrading, IInv
<1>5. CASE PreparePup
  <2>1. OthersTyped /\ keepFiles
    BY <1>5, FilesKept DEF PreparePup, IInv
  <2>2. CASE /\ Kind(Updater) = "install"
             /\ UpdatePup(Updater, [Mine EXCEPT !.enabled = TRUE], "build")
    <3>1. Mine.inst = pup[Pup(Updater)].inst
      BY DEF Mine
    <3> QED
      BY <1>1, <1>2, <1>5, <2>1, <2>2, <3>1, MineChanges, UpdaterUpdates
         DEF PreparePup, At, MarkedBy, Between, Fitting, Upgrading, Passing
  <2>3. CASE /\ Kind(Updater) = "upgrade"
             /\ work' = [work EXCEPT ![Updater].at = "build", ![Updater].state = Mine]
             /\ UNCHANGED <<pup, saving>>
    <3> DEFINE w == [work[Updater] EXCEPT !.at = "build", !.state = Mine]
    <3>1. w \in Works /\ w.at = "build" /\ w.job = work[Updater].job /\ w.then = work[Updater].then
      BY <1>1, Busy DEF Works, Labels, Mine
    <3>2. work' = [work EXCEPT ![Updater] = w]
      BY <2>3
    <3> HIDE DEF w
    <3> QED
      BY <1>1, <1>5, <2>1, <2>3, <3>1, <3>2, UpdaterWorks, Busy, TypeParts
         DEF PreparePup, At, MarkedBy, Between, Fitting, Upgrading, Pup, Kind, IInv
  <2>4. CASE /\ \/ Goto(Updater, "ready") /\ Kind(Updater) = "rollback"
                \/ Goto(Updater, "broken")
             /\ UNCHANGED <<pup, saving>>
    <3>1. PICK l \in {"ready", "broken"} : /\ Goto(Updater, l)
                                           /\ l = "ready" => Kind(Updater) = "rollback"
      BY <2>4
    <3> QED
      BY <1>1, <1>2, <1>5, <2>1, <2>4, <3>1, UpdaterGoes, TypeParts
         DEF PreparePup, At, MarkedBy, Between, Fitting, Upgrading, IInv
  <2> QED
    BY <1>5, <2>2, <2>3, <2>4 DEF PreparePup
<1>6. CASE RestoreState
  <2>1. Mine.inst = pup[Pup(Updater)].inst
    BY DEF Mine
  <2> QED
    BY <1>1, <1>2, <1>3, <1>6, <2>1, MineChanges, UpdaterUpdates
       DEF RestoreState, At, MarkedBy, Between, Fitting, Upgrading, Passing
<1> QED
  BY <1>4, <1>5, <1>6

\* The end of a container, the copy of an import, the snapshot.
LEMMA Interludes ==
  ASSUME IInv, StopContainer \/ ImportData \/ CreateSnapshot \/ DeleteSnapshot PROVE IInv'
<1>1. /\ work[Updater].at \in {"stop", "import", "snapshot", "dropSnapshot"}
      /\ {"import", "build", "failed", "done", "manifest"} \subseteq Labels \ Resting
      /\ saving[Updater] = NoPup
  BY DEF StopContainer, ImportData, CreateSnapshot, DeleteSnapshot, At, Labels, Resting
<1>2. \A i : ~MarkedBy(i, Kind(Updater), work[Updater].at, work[Updater].then)
  BY <1>1 DEF MarkedBy, Between, Fitting, Upgrading
<1>3. Mine.inst = pup[Pup(Updater)].inst
  BY DEF Mine
<1>4. CASE StopContainer \/ ImportData
  <2>1. OthersTyped /\ keepFiles
    BY <1>4, FilesKept DEF StopContainer, ImportData, IInv
  <2>2. ASSUME NEW l \in {"import", "build", "failed", "done"}, Goto(Updater, l),
               UNCHANGED <<pup, saving>>
        PROVE  IInv'
    BY <1>1, <1>2, <2>1, <2>2, UpdaterGoes, TypeParts DEF IInv, Fitting, Upgrading, Between
  <2>3. ASSUME NEW l \in {"build", "failed"},
               UpdatePup(Updater, [Mine EXCEPT !.enabled = TRUE], l)
        PROVE  IInv'
    BY <1>1, <1>2, <1>3, <2>1, <2>3, MineChanges, UpdaterUpdates DEF Fitting, Upgrading, Between
  <2> QED
    BY <1>4, <2>2, <2>3 DEF StopContainer, ImportData
<1>5. CASE CreateSnapshot \/ DeleteSnapshot
  <2>1. snapshot' \in [Pups -> Snapshots]
    <3>1. [version |-> Seen.version, enabled |-> Seen.enabled] \in Snapshots
      BY <1>1, Busy, JobFields, PupStateFields DEF Seen, Snapshots, VersionsOrNone
    <3>2. NoSnapshot \in Snapshots
      BY DEF NoSnapshot, Snapshots
    <3> QED
      BY <1>5, <3>1, <3>2, TypeParts DEF CreateSnapshot, DeleteSnapshot, IInv
  <2>2. OthersTyped /\ UNCHANGED <<pup, saving>>
    BY <1>5, <2>1, TypeParts
       DEF CreateSnapshot, DeleteSnapshot, OthersTyped, IInv, configVars, NixTypeOK,
           Active, Result, Dirs, Ops, past
  <2>3. PICK l \in {"manifest", "failed", "done"} :
          Goto(Updater, l) /\ (l = "manifest" => CreateSnapshot)
    BY <1>5 DEF CreateSnapshot, DeleteSnapshot
  <2>4. Fitting(Kind(Updater), l, work[Updater].then)
    BY <2>3 DEF IInv, KindInv, Fitting, Upgrading, Between, CreateSnapshot, At
  <2> QED
    BY <1>1, <1>2, <2>2, <2>3, <2>4, UpdaterGoes, TypeParts DEF IInv
<1> QED
  BY <1>4, <1>5
\* The steps that end a job's marks, and those of a purge.
LEMMA Endings ==
  ASSUME IInv, \/ UpdateVersion \/ MarkReady \/ MarkUninstalled \/ markPupBroken
               \/ RemoveGob \/ RemoveSource
  PROVE  IInv'
<1>1. /\ work[Updater].at \in {"manifest", "ready", "gone", "broken", "removeGob", "removeSource"}
      /\ {"download", "build", "relink", "done", "failed", "removeSource", "purge"}
           \subseteq Labels \ Resting
      /\ "broken" \in Labels \ {"idle"} /\ saving[Updater] = NoPup
  BY DEF UpdateVersion, MarkReady, MarkUninstalled, markPupBroken, RemoveGob, RemoveSource,
         At, Labels, Resting
<1>2. work[Updater].job.to \in VersionsOrNone
  BY <1>1, Busy, JobFields
<1>3. CASE UpdateVersion
  <2>1. Kind(Updater) = "upgrade"
    BY <1>3 DEF UpdateVersion, At, IInv, KindInv, Fitting, Upgrading, Between
  <2>2. OthersTyped /\ keepFiles
    BY <1>3, FilesKept DEF UpdateVersion, IInv
  <2>3. CASE Goto(Updater, "broken") /\ UNCHANGED <<pup, saving>>
    BY <1>1, <1>3, <2>2, <2>3, UpdaterGoes, TypeParts
       DEF UpdateVersion, At, MarkedBy, Between, Fitting, Upgrading, IInv
  <2>4. CASE UpdatePup(Updater,
                [Mine EXCEPT !.inst = "upgrading", !.version = work[Updater].job.to], "download")
    BY <1>1, <1>2, <2>1, <2>2, <2>4, MineChanges, UpdaterUpdates
       DEF MarkedBy, Between, Fitting, Upgrading
  <2> QED
    BY <1>3, <2>3, <2>4 DEF UpdateVersion
<1>4. CASE MarkReady
  <2> DEFINE e == Mine.enabled \/ (Kind(Updater) # "install" /\ WasEnabled)
             l == CASE Kind(Updater) = "rollback" -> "build"
                    [] Kind(Updater) = "upgrade" /\ WasEnabled -> "relink"
                    [] OTHER -> "done"
  <2>1. e \in BOOLEAN /\ l \in {"build", "relink", "done"}
    OBVIOUS
  <2>2. UpdatePup(Updater, [Mine EXCEPT !.inst = "ready", !.enabled = e], l) /\ keepFiles
    <3>1. [Mine EXCEPT !.inst = "ready",
                       !.enabled = @ \/ (Kind(Updater) # "install" /\ WasEnabled)]
            = [Mine EXCEPT !.inst = "ready", !.enabled = e]
      OBVIOUS
    <3> QED
      BY <1>4, <3>1, Zenon DEF MarkReady
  <2> HIDE DEF e, l
  <2> QED
    BY <1>1, <1>4, <2>1, <2>2, MineChanges, UpdaterUpdates
       DEF MarkReady, At, Fitting, Upgrading, Between, Passing
<1>5. CASE MarkUninstalled \/ markPupBroken
  <2>1. PICK i \in {"uninstalled", "broken"}, l \in {"done", "failed"} :
          UpdatePup(Updater, [Mine EXCEPT !.inst = i], l) /\ keepFiles
    BY <1>5 DEF MarkUninstalled, markPupBroken
  <2> QED
    BY <1>1, <2>1, MineChanges, UpdaterUpdates DEF Fitting, Upgrading, Between, Passing
<1>6. CASE RemoveGob \/ RemoveSource
  <2>1. OthersTyped /\ UNCHANGED <<pup, saving>>
    <3>1. /\ disk' \in [Pups -> PupStates] /\ files' \in [Pups -> VersionsOrNone]
          /\ unsure' \subseteq Pups
      BY <1>1, <1>6, Busy, PupStateFields, TypeParts
         DEF RemoveGob, RemoveSource, IInv, VersionsOrNone
    <3> QED
      BY <1>6, <3>1, TypeParts
         DEF RemoveGob, RemoveSource, OthersTyped, IInv, configVars, NixTypeOK, Active,
             Result, Dirs, Ops, past
  <2>2. PICK l \in {"removeSource", "purge"} : Goto(Updater, l)
    BY <1>6 DEF RemoveGob, RemoveSource
  <2> QED
    BY <1>1, <1>6, <2>1, <2>2, UpdaterGoes, TypeParts
       DEF RemoveGob, RemoveSource, At, MarkedBy, Between, Fitting, Upgrading, IInv
<1> QED
  BY <1>3, <1>4, <1>5, <1>6

\* An import keeps what it has found in the job, where it looks it up again.
LEMMA Imports ==
  ASSUME IInv, importBlockchainData PROVE IInv'
<1>1. work[Updater].at = "start" /\ Kind(Updater) = "import" /\ keepFiles
  BY DEF importBlockchainData, Starting, At
<1>2. /\ OthersTyped /\ Mine \in PupStates /\ work[Updater] \in Works
      /\ work[Updater].job \in Jobs /\ Mine = pup[Pup(Updater)] /\ Pup(Updater) \in Pups
  BY <1>1, FilesKept, Busy DEF IInv, Mine
<1>3. ASSUME NEW seen \in PupStates, NEW l \in {"stop", "import"}
      PROVE  LET w == [work[Updater] EXCEPT !.at = l, !.job.seen = seen]
             IN  /\ w \in Works /\ w.at = l /\ w.job \in Jobs /\ w.job.pup = Pup(Updater)
                 /\ w.job.kind = "import" /\ w.then = work[Updater].then
  <2> DEFINE j == [work[Updater].job EXCEPT !.seen = seen]
  <2>1. j \in Jobs /\ j.pup = Pup(Updater) /\ j.kind = "import"
    BY <1>1, <1>2, JobFields DEF Pup, Kind
  <2>2. [work[Updater] EXCEPT !.at = l, !.job.seen = seen]
          = [work[Updater] EXCEPT !.at = l, !.job = j]
    BY <1>2 DEF Works
  <2>3. l \in Labels
    BY DEF Labels
  <2> HIDE DEF j
  <2> QED
    BY <1>2, <2>1, <2>2, <2>3 DEF Works
<1>4. CASE Mine # NoPup /\ Mine.enabled
  <2> DEFINE w == [work[Updater] EXCEPT !.at = "stop", !.job.seen = Mine]
             m == [pup[Pup(Updater)] EXCEPT !.enabled = FALSE]
  <2>1. /\ w \in Works /\ w.at = "stop" /\ w.job \in Jobs /\ w.job.pup = Pup(Updater)
        /\ w.job.kind = "import" /\ w.then = work[Updater].then
    BY <1>2, <1>3
  <2>2. m \in PupStates /\ m.inst = pup[Pup(Updater)].inst
    BY <1>2, PupStateChanges
  <2>3. /\ work' = [work EXCEPT ![Updater] = w] /\ pup' = [pup EXCEPT ![Pup(Updater)] = m]
        /\ saving' = [saving EXCEPT ![Updater] = m]
    BY <1>1, <1>4 DEF importBlockchainData, Mine
  <2> HIDE DEF w, m
  <2>4. /\ pup' \in [Pups -> PupStates] /\ saving' \in [Patchers -> PupStates]
        /\ saving'[Loop] = saving[Loop] /\ pup'[Pup(Updater)] = m
        /\ \A p \in Pups \ {Pup(Updater)} : pup'[p] = pup[p]
    BY <1>2, <2>2, <2>3, Goroutines, TypeParts DEF IInv
  <2> QED
    BY <1>1, <1>2, <1>4, <2>1, <2>2, <2>3, <2>4, UpdaterWorks
       DEF MarkedBy, Between, Fitting, Upgrading, Resting
<1>5. CASE ~(Mine # NoPup /\ Mine.enabled)
  <2> DEFINE w == [work[Updater] EXCEPT !.at = "import", !.job.seen = NoPup]
  <2>1. /\ w \in Works /\ w.at = "import" /\ w.job \in Jobs /\ w.job.pup = Pup(Updater)
        /\ w.job.kind = "import" /\ w.then = work[Updater].then
    BY <1>3, PupStateFields
  <2>2. work' = [work EXCEPT ![Updater] = w] /\ UNCHANGED <<pup, saving>>
    BY <1>1, <1>5 DEF importBlockchainData
  <2> HIDE DEF w
  <2> QED
    BY <1>1, <1>2, <2>1, <2>2, UpdaterWorks, TypeParts
       DEF IInv, MarkedBy, Between, Fitting, Upgrading, Resting
<1> QED
  BY <1>4, <1>5

\* A purge forgets the pup.
LEMMA Purges ==
  ASSUME IInv, PurgePup PROVE IInv'
<1>1. /\ work[Updater].at = "purge" /\ saving[Updater] = NoPup
      /\ Goto(Updater, "done") /\ "done" \in Labels
  BY DEF PurgePup, At, Labels
<1>2. /\ work[Updater] \in Works /\ work[Updater].job \in Jobs /\ Pup(Updater) \in Pups
  BY <1>1, Busy
<1>3. OthersTyped
  BY <1>2, TypeParts
     DEF PurgePup, OthersTyped, IInv, configVars, NixTypeOK, Active, Result, Dirs, Ops, past
<1> DEFINE w == [work[Updater] EXCEPT !.at = "done"]
<1>4. /\ w \in Works /\ w.at = "done" /\ w.job = work[Updater].job
      /\ w.then = work[Updater].then
  BY <1>1, <1>2 DEF Works
<1>5. work' = [work EXCEPT ![Updater] = w]
  BY <1>1 DEF Goto
<1>6. /\ pup' \in [Pups -> PupStates] /\ saving' = saving /\ pup'[Pup(Updater)] = NoPup
      /\ \A p \in Pups \ {Pup(Updater)} : pup'[p] = pup[p]
  BY <1>2, PupStateFields, TypeParts DEF PurgePup, IInv
<1> HIDE DEF w
<1> QED
  BY <1>1, <1>2, <1>3, <1>4, <1>5, <1>6, UpdaterWorks, PupStateFields, PassingStates, TypeParts
     DEF IInv, Fitting, Upgrading, Between, Pup, Kind

\* A job's patches are followed by the steps that end its mark.
LEMMA Builds ==
  ASSUME IInv, BuildPup \/ RebuildOnly \/ RemoveFromConfig \/ AddBack PROVE IInv'
<1>1. work[Updater].at \in {"build", "rebuild", "unlink", "relink"} /\ saving[Updater] = NoPup
  BY DEF BuildPup, RebuildOnly, RemoveFromConfig, AddBack, At
<1>2. work[Updater].at \in Labels \ {"idle"}
  BY <1>1 DEF Labels
<1>3. /\ Pup(Updater) \in Pups /\ Mine \in PupStates /\ work[Updater].state \in PupStates
  BY <1>1, Busy, WorkFields DEF Mine
<1>4. /\ RemovePupFile \in Ops /\ UpdateIncludesFile \in Ops
      /\ WritePupFile(Written) \in Ops /\ WritePupFile(work[Updater].state) \in Ops
  BY <1>3, PupOps, TypeParts DEF IInv, Written
<1>5. {"ready", "unlink", "gone", "dropSnapshot", "done", "snapshot"} \subseteq Labels
  BY DEF Labels
<1>6. CASE BuildPup
  <2> DEFINE ops == CASE Kind(Updater) = "uninstall" -> <<RemovePupFile, UpdateIncludesFile>>
                      [] Kind(Updater) \in {"enable", "disable", "import"} -> <<WritePupFile(Written)>>
                      [] OTHER -> <<WritePupFile(Written), UpdateIncludesFile>>
             l == CASE Kind(Updater) = "install" -> "ready"
                    [] Kind(Updater) = "upgrade" -> IF Seen.enabled THEN "unlink" ELSE "ready"
                    [] Kind(Updater) = "uninstall" -> "gone"
                    [] Kind(Updater) = "rollback" -> "dropSnapshot"
                    [] OTHER -> "done"
  <2>1. ops \in Seq(Ops)
    <3> DEFINE write == WritePupFile(Written)
               remove == RemovePupFile
               list == UpdateIncludesFile
    <3>1. /\ write \in Ops /\ remove \in Ops /\ list \in Ops
          /\ ops = CASE Kind(Updater) = "uninstall" -> <<remove, list>>
                     [] Kind(Updater) \in {"enable", "disable", "import"} -> <<write>>
                     [] OTHER -> <<write, list>>
      BY <1>4
    <3> HIDE DEF write, remove, list, ops
    <3> QED
      BY <3>1
  <2>2. l \in Labels /\ l \notin Upgrading
    BY <1>5 DEF Upgrading
  <2>3. LET i == pup[Pup(Updater)].inst
        IN  MarkedBy(i, Kind(Updater), work[Updater].at, work[Updater].then)
              => MarkedBy(i, Kind(Updater), "await", l)
    BY <1>6 DEF BuildPup, At, MarkedBy, Between
  <2>4. ApplyPatch(Updater, ops, l)
    BY <1>6 DEF BuildPup
  <2> HIDE DEF ops, l
  <2> QED
    BY <1>1, <1>2, <2>1, <2>2, <2>3, <2>4, UpdaterApplies
<1>7. CASE RebuildOnly
  <2>1. ApplyPatch(Updater, <<>>, "snapshot") /\ <<>> \in Seq(Ops)
    BY <1>7 DEF RebuildOnly
  <2>2. Kind(Updater) = "upgrade"
    BY <1>7 DEF RebuildOnly, At, IInv, KindInv, Fitting, Upgrading, Between
  <2>3. \A i : ~MarkedBy(i, Kind(Updater), work[Updater].at, work[Updater].then)
    BY <1>7 DEF RebuildOnly, At, MarkedBy, Between
  <2> QED
    BY <1>1, <1>2, <1>5, <2>1, <2>2, <2>3, UpdaterApplies
<1>8. CASE RemoveFromConfig
  <2>1. ApplyPatch(Updater, <<RemovePupFile>>, "ready") /\ <<RemovePupFile>> \in Seq(Ops)
    BY <1>4, <1>8 DEF RemoveFromConfig
  <2>2. LET i == pup[Pup(Updater)].inst
        IN  MarkedBy(i, Kind(Updater), work[Updater].at, work[Updater].then)
              => MarkedBy(i, Kind(Updater), "await", "ready")
    BY <1>8 DEF RemoveFromConfig, At, MarkedBy, Between
  <2> QED
    BY <1>1, <1>2, <1>5, <2>1, <2>2, UpdaterApplies DEF Upgrading
<1>9. CASE AddBack
  <2> DEFINE ops == <<WritePupFile(work[Updater].state), UpdateIncludesFile>>
  <2>1. ApplyPatch(Updater, ops, "done") /\ ops \in Seq(Ops)
    BY <1>4, <1>9 DEF AddBack
  <2>2. \A i : ~MarkedBy(i, Kind(Updater), work[Updater].at, work[Updater].then)
    BY <1>9 DEF AddBack, At, MarkedBy, Between
  <2> HIDE DEF ops
  <2> QED
    BY <1>1, <1>2, <1>5, <2>1, <2>2, UpdaterApplies DEF Upgrading
<1> QED
  BY <1>6, <1>7, <1>8, <1>9
-----------------------------------------------------------------------------
(* Steps of the main loop, and of either goroutine.                          *)

\* The variables a step types by itself.
Typed ==
  /\ NixTypeOK' /\ disk' \in [Pups -> PupStates] /\ files' \in [Pups -> VersionsOrNone]
  /\ snapshot' \in [Pups -> Snapshots] /\ purged' \subseteq Pups /\ unsure' \subseteq Pups
  /\ requests' \in Nat /\ queue' \in Seq(Jobs) /\ crashes' = crashes /\ past' = past

LEMMA OthersAreTyped == IInv /\ OthersTyped => Typed
  BY TypeParts DEF IInv, OthersTyped, Typed, past

LEMMA ConfigKept == NixTypeOK /\ UNCHANGED configVars => NixTypeOK'
  BY DEF configVars, NixTypeOK, Active, Result, Dirs, Ops

\* The main loop goes on as w says: a pup it puts in a passing state is installing
\* and its job is coming.
LEMMA LoopWorks ==
  ASSUME IInv, Typed, pup' \in [Pups -> PupStates], saving' \in [Patchers -> PupStates],
         saving'[Updater] = saving[Updater],
         NEW w \in Works, work' = [work EXCEPT ![Loop] = w],
         w.at # "idle" => w.job \in Jobs, w.at \in Resting => saving'[Loop] = NoPup,
         w.then # "adopt",
         w.at = "adopt" => /\ w.job.kind = "install" /\ w.state.inst = "installing"
                           /\ pup'[w.job.pup] = NoPup,
         \A p \in Pups : pup[p].inst \in Passing /\ Coming(p) => Coming(p)',
         \A p \in Pups : pup'[p].inst \in Passing =>
           pup'[p].inst = pup[p].inst \/ (pup'[p].inst = "installing" /\ Coming(p)')
  PROVE  IInv'
<1>1. /\ work' \in [Patchers -> Works] /\ work'[Loop] = w /\ work'[Updater] = work[Updater]
  BY Goroutines, TypeParts DEF IInv
<1>2. TypeOK'
  BY <1>1, TypeParts DEF Typed, TypeOK, Works, VersionsOrNone, IInv, past
<1>3. JobInv'
  BY <1>1, Goroutines DEF JobInv, IInv
<1>4. AdoptInv' /\ KindInv'
  BY <1>1 DEF AdoptInv, KindInv, Kind, Pup, IInv
<1>5. ASSUME NEW p \in Pups, pup'[p].inst \in Passing PROVE (Excused(p) \/ Marked(p))'
  <2>1. pup[p].inst \in Passing => Excused(p) \/ Marked(p)
    BY PassingStates DEF IInv, ProgressInv
  <2>2. pup'[p].inst = pup[p].inst => (Marked(p)' <=> Marked(p))
    BY <1>1 DEF Marked, Pup, Kind
  <2>3. CASE pup'[p].inst = pup[p].inst
    BY <1>5, <2>1, <2>2, <2>3 DEF Excused, Typed, past, Withdrawn
  <2>4. CASE pup'[p].inst = "installing" /\ Coming(p)'
    BY <2>4 DEF Excused, past, Withdrawn
  <2> QED
    BY <1>5, <2>3, <2>4
<1> QED
  BY <1>2, <1>3, <1>4, <1>5, PassingStates DEF ProgressInv, IInv

\* The jobs that are on their way stay there when the queue does.
LEMMA StillComing ==
  ASSUME NEW p \in Pups, Coming(p), UNCHANGED queue,
         At(Loop, "send") => At(Loop, "send")' /\ work'[Loop].job = work[Loop].job
  PROVE  Coming(p)'
  BY DEF Coming, Pup, Kind

LEMMA DoingType ==
  ASSUME NEW kind \in AllKinds, NEW p \in Pups, NEW v \in VersionsOrNone,
         NEW r \in PupStates, NEW l \in Labels
  PROVE  LET w == Doing(kind, p, v, r, l)
         IN  /\ w \in Works /\ w.at = l /\ w.state = r /\ w.then = "idle" /\ w.job \in Jobs
             /\ w.job.kind = kind /\ w.job.pup = p
<1> DEFINE j == [kind |-> kind, pup |-> p, to |-> v, seen |-> NoPup]
<1>1. j \in Jobs /\ j.kind = kind /\ j.pup = p
  BY PupStateFields DEF Jobs, VersionsOrNone
<1>2. Doing(kind, p, v, r, l) = [at |-> l, job |-> j, state |-> r, then |-> "idle"]
  <2>1. Doing(kind, p, v, r, l) = [NoWork EXCEPT !.at = l, !.state = r, !.job = j]
    BY DEF Doing
  <2> HIDE DEF j
  <2> DEFINE none == NoPup
  <2>2. NoWork = [at |-> "idle", job |-> <<>>, state |-> none, then |-> "idle"]
    BY DEF NoWork
  <2> HIDE DEF none
  <2> QED
    BY <2>1, <2>2
<1>3. "idle" \in Labels
  BY DEF Labels
<1> HIDE DEF j
<1> QED
  BY <1>1, <1>2, <1>3 DEF Works

LEMMA Adoptions ==
  ASSUME IInv, NEW p \in Pups, NEW v \in Versions, AdoptPup(p, v) PROVE IInv'
<1> DEFINE r == [inst |-> "installing", enabled |-> FALSE, version |-> v]
           w == Doing("install", p, v, r, "adopt")
<1>1. r \in PupStates /\ r.inst = "installing"
  BY DEF PupStates, Installation
<1>2. /\ work[Loop].at = "idle" /\ pup[p] = NoPup
      /\ saving' = [saving EXCEPT ![Loop] = r] /\ work' = [work EXCEPT ![Loop] = w]
      /\ UNCHANGED <<configVars, pup, disk, files, snapshot, queue, purged, unsure, crashes, past>>
      /\ requests' = requests + 1
  BY DEF AdoptPup, Request
<1>3. /\ w \in Works /\ w.at = "adopt" /\ w.state = r /\ w.then = "idle" /\ w.job \in Jobs
      /\ w.job.kind = "install" /\ w.job.pup = p
  <2>1. "install" \in AllKinds /\ v \in VersionsOrNone /\ "adopt" \in Labels
    BY DEF AllKinds, VersionsOrNone, Labels
  <2> HIDE DEF r
  <2> QED
    BY <1>1, <2>1, DoingType
<1> HIDE DEF r, w
<1>4. Typed
  BY <1>2, ConfigKept, TypeParts DEF Typed, IInv, past
<1>5. saving' \in [Patchers -> PupStates] /\ saving'[Updater] = saving[Updater]
  BY <1>1, <1>2, Goroutines, TypeParts DEF IInv
<1>6. \A q \in Pups : Coming(q) => Coming(q)'
  BY <1>2, StillComing DEF At
<1>7. pup' \in [Pups -> PupStates] /\ pup' = pup /\ w.at \notin Resting
  BY <1>2, <1>3, TypeParts DEF IInv, Resting
<1> QED
  BY <1>1, <1>2, <1>3, <1>4, <1>5, <1>6, <1>7, LoopWorks

LEMMA Dispatches ==
  ASSUME IInv, NEW kind \in AllKinds, NEW p \in Pups, NEW v \in VersionsOrNone,
         Dispatch(kind, p, v) \/ DirectUpdate(kind, p)
  PROVE  IInv'
<1>1. /\ work[Loop].at = "idle" /\ requests' = requests + 1
      /\ UNCHANGED <<configVars, disk, files, snapshot, queue, purged, crashes, past>>
      /\ unsure' \subseteq unsure \cup {p}
  BY DEF Dispatch, DirectUpdate, Request, Crossed
<1>2. \A q \in Pups : Coming(q) => Coming(q)'
  BY <1>1, StillComing DEF At
<1>3. Typed
  BY <1>1, ConfigKept, TypeParts DEF Typed, IInv, past
<1>4. pup[p] \in PupStates
  BY TypeParts DEF IInv
<1>5. ASSUME NEW m \in PupStates, m.inst = pup[p].inst, NEW x \in VersionsOrNone,
             NEW l \in Labels \ (Resting \cup {"adopt"}),
             pup' = [pup EXCEPT ![p] = m], saving' \in {saving, [saving EXCEPT ![Loop] = m]},
             work' = [work EXCEPT ![Loop] = Doing(kind, p, x, m, l)]
      PROVE  IInv'
  <2> DEFINE w == Doing(kind, p, x, m, l)
  <2>2. w \in Works /\ w.at = l /\ w.then = "idle" /\ w.job \in Jobs
    BY DoingType
  <2>3. work' = [work EXCEPT ![Loop] = w]
    BY <1>5
  <2> HIDE DEF w
  <2>4. /\ saving' \in [Patchers -> PupStates] /\ saving'[Updater] = saving[Updater]
        /\ pup' \in [Pups -> PupStates] /\ \A q \in Pups : pup'[q].inst = pup[q].inst
    BY <1>5, Goroutines, TypeParts DEF IInv
  <2> QED
    BY <1>2, <1>3, <1>5, <2>2, <2>3, <2>4, LoopWorks
<1>6. {"send", "done", "config"} \subseteq Labels \ (Resting \cup {"adopt"})
      /\ 0 \in VersionsOrNone
  BY DEF Labels, Resting, VersionsOrNone
<1>7. pup = [pup EXCEPT ![p] = pup[p]]
  BY TypeParts DEF IInv
<1>8. CASE Dispatch(kind, p, v)
  <2>1. CASE kind \in {"enable", "disable"}
    <3> DEFINE m == [pup[p] EXCEPT !.enabled = (kind = "enable")]
    <3>1. m \in PupStates /\ m.inst = pup[p].inst
      BY <1>4, PupStateChanges
    <3>2. /\ pup' = [pup EXCEPT ![p] = m] /\ saving' = [saving EXCEPT ![Loop] = m]
          /\ work' = [work EXCEPT ![Loop] = Doing(kind, p, v, m, "send")]
      BY <1>8, <2>1 DEF Dispatch
    <3> HIDE DEF m
    <3> QED
      BY <1>5, <1>6, <3>1, <3>2
  <2>2. CASE kind \notin {"enable", "disable"}
    <3>1. /\ work' = [work EXCEPT ![Loop] = Doing(kind, p, v, pup[p], "send")]
          /\ UNCHANGED <<pup, saving>>
      BY <1>8, <2>2 DEF Dispatch
    <3> QED
      BY <1>4, <1>5, <1>6, <1>7, <3>1
  <2> QED
    BY <2>1, <2>2
<1>9. CASE DirectUpdate(kind, p)
  <2> DEFINE l == IF kind = "touch" THEN "done" ELSE "config"
  <2>1. /\ saving' = [saving EXCEPT ![Loop] = pup[p]] /\ UNCHANGED pup
        /\ work' = [work EXCEPT ![Loop] = Doing(kind, p, 0, pup[p], l)]
    BY <1>9 DEF DirectUpdate
  <2>2. l \in {"done", "config"}
    OBVIOUS
  <2> HIDE DEF l
  <2> QED
    BY <1>4, <1>5, <1>6, <1>7, <2>1, <2>2
<1> QED
  BY <1>8, <1>9

\* The main loop goes on at l.
LEMMA LoopGoes ==
  ASSUME IInv, Typed, work[Loop].at # "idle", UNCHANGED pup,
         saving' \in [Patchers -> PupStates], saving'[Updater] = saving[Updater],
         NEW l \in Labels, Goto(Loop, l), l \in Resting => saving'[Loop] = NoPup, l # "adopt",
         \A p \in Pups : pup[p].inst \in Passing /\ Coming(p) => Coming(p)'
  PROVE  IInv'
<1> DEFINE w == [work[Loop] EXCEPT !.at = l]
<1>1. work[Loop] \in Works /\ work[Loop].job \in Jobs
  BY Goroutines, TypeParts DEF IInv, JobInv
<1>2. w \in Works /\ w.at = l /\ w.job \in Jobs /\ w.then = work[Loop].then
  BY <1>1 DEF Works
<1>3. work' = [work EXCEPT ![Loop] = w]
  BY DEF Goto
<1>4. w.then # "adopt"
  BY <1>2 DEF IInv, AdoptInv
<1> HIDE DEF w
<1> QED
  BY <1>2, <1>3, <1>4, LoopWorks, TypeParts DEF IInv

LEMMA LoopBusy ==
  ASSUME IInv, work[Loop].at # "idle"
  PROVE  /\ work[Loop] \in Works /\ work[Loop].job \in Jobs /\ Pup(Loop) \in Pups
         /\ Kind(Loop) \in AllKinds /\ pup[Pup(Loop)] \in PupStates
         /\ work[Loop].state \in PupStates /\ work[Loop].then # "adopt"
  BY Goroutines, JobFields, WorkFields, TypeParts DEF IInv, JobInv, AdoptInv, Pup, Kind

\* A pup that is put in memory is installing, and its install is sent next.
LEMMA Indexing ==
  ASSUME IInv, indexPup PROVE IInv'
<1>1. /\ work[Loop].at = "adopt" /\ saving[Loop] = NoPup /\ Goto(Loop, "send")
      /\ pup' = [pup EXCEPT ![Pup(Loop)] = work[Loop].state] /\ "send" \in Labels
      /\ UNCHANGED <<configVars, disk, files, snapshot, queue, saving, purged, unsure,
                     requests, crashes, past>>
  BY DEF indexPup, At, Labels
<1>2. Kind(Loop) = "install" /\ work[Loop].state.inst = "installing"
  BY <1>1 DEF IInv, AdoptInv
<1> DEFINE w == [work[Loop] EXCEPT !.at = "send"]
<1>3. w \in Works /\ w.at = "send" /\ w.job = work[Loop].job /\ w.then # "adopt"
  BY <1>1, LoopBusy DEF Works
<1>4. work' = [work EXCEPT ![Loop] = w]
  BY <1>1 DEF Goto
<1> HIDE DEF w
<1>5. work'[Loop] = w
  BY <1>4, Goroutines, TypeParts DEF IInv
<1>6. Typed
  BY <1>1, ConfigKept, TypeParts DEF Typed, IInv, past
<1>7. /\ pup' \in [Pups -> PupStates] /\ saving' = saving /\ saving \in [Patchers -> PupStates]
      /\ pup'[Pup(Loop)].inst = "installing" /\ \A p \in Pups \ {Pup(Loop)} : pup'[p] = pup[p]
  BY <1>1, <1>2, LoopBusy, TypeParts DEF IInv
<1>8. ASSUME NEW p \in Pups, p = Pup(Loop) PROVE Coming(p)'
  BY <1>1, <1>2, <1>3, <1>5, <1>8 DEF Coming, At, Pup, Kind
<1>9. \A p \in Pups : Coming(p) => Coming(p)'
  BY <1>1, StillComing DEF At
<1>10. w.job \in Jobs /\ w.at \notin Resting /\ w.at # "adopt"
  BY <1>1, <1>3, LoopBusy DEF Resting
<1>11. \A p \in Pups : pup'[p].inst \in Passing =>
         pup'[p].inst = pup[p].inst \/ (pup'[p].inst = "installing" /\ Coming(p)')
  BY <1>7, <1>8
<1> QED
  BY <1>3, <1>4, <1>6, <1>7, <1>9, <1>10, <1>11, LoopWorks

\* What was coming is in the queue now, unless its pup is gone.
LEMMA Sendings ==
  ASSUME IInv, sendSystemJobWithPupDetails PROVE IInv'
<1>1. /\ work[Loop].at = "send" /\ saving[Loop] = NoPup /\ work' = [work EXCEPT ![Loop] = NoWork]
      /\ queue' = IF pup[Pup(Loop)] = NoPup THEN queue
                  ELSE Append(queue, [work[Loop].job EXCEPT !.seen = pup[Pup(Loop)]])
      /\ UNCHANGED <<configVars, pup, disk, files, snapshot, saving, purged, unsure,
                     requests, crashes, past>>
  BY DEF sendSystemJobWithPupDetails, At
<1> DEFINE j == [work[Loop].job EXCEPT !.seen = pup[Pup(Loop)]]
<1>2. j \in Jobs /\ j.pup = Pup(Loop) /\ j.kind = Kind(Loop)
  BY <1>1, LoopBusy, JobFields DEF Pup, Kind
<1>3. (queue' = queue /\ pup[Pup(Loop)] = NoPup) \/ queue' = Append(queue, j)
  BY <1>1
<1> HIDE DEF j
<1>4. queue \in Seq(Jobs) /\ queue' \in Seq(Jobs)
  <2>1. queue \in Seq(Jobs)
    BY TypeParts DEF IInv
  <2> QED
    BY <1>2, <1>3, <2>1
<1>5. Typed
  BY <1>1, <1>4, ConfigKept, TypeParts DEF Typed, IInv, past
<1>6. ASSUME NEW p \in Pups, pup[p].inst \in Passing, Coming(p) PROVE Coming(p)'
  <2>1. CASE queue' = queue /\ pup[Pup(Loop)] = NoPup
    <3>1. p # Pup(Loop)
      BY <1>6, <2>1, PupStateFields, PassingStates
    <3> QED
      BY <1>6, <2>1, <3>1 DEF Coming
  <2>2. CASE queue' = Append(queue, j)
    <3>1. CASE \E i \in DOMAIN queue : queue[i].pup = p /\ queue[i].kind = "install"
      <4>1. PICK i \in DOMAIN queue : queue[i].pup = p /\ queue[i].kind = "install"
        BY <3>1
      <4>2. i \in DOMAIN queue' /\ queue'[i] = queue[i]
        BY <1>2, <1>4, <2>2
      <4> QED
        BY <4>1, <4>2 DEF Coming
    <3>2. CASE Pup(Loop) = p /\ Kind(Loop) = "install"
      <4>1. Len(queue') \in DOMAIN queue' /\ queue'[Len(queue')] = j
        BY <1>2, <1>4, <2>2
      <4> QED
        BY <1>2, <3>2, <4>1 DEF Coming
    <3> QED
      BY <1>6, <3>1, <3>2 DEF Coming
  <2> QED
    BY <1>3, <2>1, <2>2
<1>7. /\ NoWork \in Works /\ NoWork.at = "idle" /\ NoWork.then = "idle"
  BY NoWorkType DEF NoWork
<1>8. pup' \in [Pups -> PupStates] /\ saving' = saving /\ saving \in [Patchers -> PupStates]
  BY <1>1, TypeParts DEF IInv
<1> QED
  BY <1>1, <1>5, <1>6, <1>7, <1>8, LoopWorks

\* The configuration of a pup leaves its installation state alone.
LEMMA Configurations ==
  ASSUME IInv, updatePupConfig \/ BuildDirect PROVE IInv'
<1>1. /\ work[Loop].at \in {"config", "build"} /\ saving[Loop] = NoPup
      /\ {"build", "failed", "await", "done"} \subseteq Labels
  BY DEF updatePupConfig, BuildDirect, At, Labels
<1>2. /\ pup \in [Pups -> PupStates] /\ saving \in [Patchers -> PupStates]
      /\ work \in [Patchers -> Works]
  BY TypeParts DEF IInv
<1>3. CASE updatePupConfig
  <2>1. Typed /\ UNCHANGED <<queue, crashes>>
    BY <1>3, ConfigKept, TypeParts DEF updatePupConfig, Typed, IInv, past
  <2>2. ASSUME NEW l \in {"build", "failed"}, Goto(Loop, l), UNCHANGED <<pup, saving>>
        PROVE  IInv'
    <3>1. \A p \in Pups : Coming(p) => Coming(p)'
      BY <1>1, <2>1, StillComing DEF At
    <3> QED
      BY <1>1, <1>2, <2>1, <2>2, <3>1, LoopGoes DEF Resting
  <2>3. CASE UpdatePup(Loop, [pup[Pup(Loop)] EXCEPT !.enabled = TRUE], "build")
    <3> DEFINE m == [pup[Pup(Loop)] EXCEPT !.enabled = TRUE]
               w == work'[Loop]
    <3>1. m \in PupStates /\ m.inst = pup[Pup(Loop)].inst
      BY <1>1, LoopBusy, PupStateChanges
    <3>2. UpdatePup(Loop, m, "build") /\ "build" \in Labels
      BY <1>1, <2>3
    <3> HIDE DEF m
    <3>3. /\ work' \in [Patchers -> Works] /\ pup' \in [Pups -> PupStates]
          /\ saving' \in [Patchers -> PupStates]
          /\ w.job = work[Loop].job /\ w.then = work[Loop].then
          /\ work'[Updater] = work[Updater] /\ saving'[Updater] = saving[Updater]
          /\ Updated(Loop, m, "build") \/ NotThere(Loop)
      BY <1>1, <3>1, <3>2, UpdateEffect, Goroutines DEF IInv
    <3>4. w.at \in {"build", "failed", "broken"} /\ (w.at \in Resting => saving'[Loop] = NoPup)
      BY <1>1, <3>3, OnErrorLabel, Goroutines DEF Updated, NotThere, Resting
    <3>5. \A p \in Pups : pup'[p].inst = pup[p].inst
      BY <1>1, <1>2, <3>1, <3>3, LoopBusy DEF Updated, NotThere
    <3>6. w \in Works /\ work' = [work EXCEPT ![Loop] = w]
      BY <1>2, <3>3, Goroutines
    <3> HIDE DEF w
    <3>7. \A p \in Pups : Coming(p) => Coming(p)'
      BY <1>1, <2>1, StillComing DEF At
    <3> QED
      BY <1>1, <2>1, <3>3, <3>4, <3>5, <3>6, <3>7, LoopBusy, LoopWorks
  <2> QED
    BY <1>3, <2>2, <2>3 DEF updatePupConfig
<1>4. CASE BuildDirect
  <2> DEFINE op == [file |-> Pup(Loop), to |-> [enabled |-> work[Loop].state.enabled,
                                               version |-> work[Loop].state.version]]
             w == [work[Loop] EXCEPT !.at = "await", !.then = "done"]
  <2>1. op \in Ops
    <3>1. [enabled |-> work[Loop].state.enabled, version |-> work[Loop].state.version] \in PupFiles
      BY <1>1, LoopBusy DEF PupStates, PupFiles
    <3> QED
      BY <1>1, <3>1, LoopBusy, LifecycleAssumption DEF Ops
  <2>2. /\ Apply(Loop, <<op>>) /\ work' = [work EXCEPT ![Loop] = w]
        /\ UNCHANGED <<pup, disk, files, snapshot, queue, saving, purged, unsure, requests, crashes, past>>
    BY <1>4 DEF BuildDirect, ApplyPatch
  <2>3. w \in Works /\ w.at = "await" /\ w.then = "done" /\ w.job = work[Loop].job
    BY <1>1, LoopBusy DEF Works
  <2> HIDE DEF op, w
  <2>4. Typed
    <3>1. <<op>> \in Seq(Ops)
      BY <2>1
    <3>2. NixTypeOK'
      BY <2>2, <3>1, PatchTypes, Goroutines, TypeParts DEF IInv
    <3> QED
      BY <2>2, <3>2, TypeParts DEF Typed, IInv, past
  <2>5. \A p \in Pups : Coming(p) => Coming(p)'
    BY <1>4, <2>2, StillComing DEF At, BuildDirect
  <2>6. pup' \in [Pups -> PupStates] /\ pup' = pup /\ saving' = saving
    BY <1>2, <2>2
  <2>7. w.job \in Jobs /\ (w.at \in Resting => saving'[Loop] = NoPup)
    BY <1>1, <2>3, <2>6, LoopBusy
  <2>8. saving' \in [Patchers -> PupStates] /\ saving'[Updater] = saving[Updater]
    BY <1>2, <2>6
  <2> QED
    BY <2>2, <2>3, <2>4, <2>5, <2>6, <2>7, <2>8, LoopWorks
<1> QED
  BY <1>3, <1>4

\* The install that comes first is taken, and has its pup to work on.
LEMMA Takes ==
  ASSUME IInv, TakeJob PROVE IInv'
<1> DEFINE j == Head(queue)
           w == [NoWork EXCEPT !.at = "start", !.job = j]
<1>1. /\ work[Updater].at = "idle" /\ queue # <<>> /\ work' = [work EXCEPT ![Updater] = w]
      /\ queue' = Tail(queue)
      /\ UNCHANGED <<configVars, pup, disk, files, snapshot, saving, purged, requests, crashes, left>>
      /\ withdrawn' \subseteq withdrawn
      /\ \A p \in Pups : Withdrawn({"install"}, p)' <=> Withdrawn({"install"}, p)
      /\ unsure' = unsure \/ (work[Loop].at # "idle" /\ unsure' = unsure \cup {Pup(Loop)})
  BY DEF TakeJob, Withdrawn, Switches
<1>2. queue \in Seq(Jobs) /\ j \in Jobs /\ queue' \in Seq(Jobs) /\ j = queue[1]
      /\ \A i \in DOMAIN queue : i # 1 => i - 1 \in DOMAIN queue' /\ queue'[i - 1] = queue[i]
  BY <1>1, TypeParts DEF IInv
<1> HIDE DEF j
<1>3. w \in Works /\ w.at = "start" /\ w.job = j
  BY <1>2, NoWorkType DEF Works, Labels
<1> HIDE DEF w
<1>4. /\ work' \in [Patchers -> Works] /\ work'[Updater] = w /\ work'[Loop] = work[Loop]
  BY <1>1, <1>3, Goroutines, TypeParts DEF IInv
<1>5. TypeOK'
  <2>1. NixTypeOK' /\ unsure' \subseteq Pups
    BY <1>1, ConfigKept, LoopBusy, TypeParts DEF IInv
  <2> QED
    BY <1>1, <1>2, <1>4, <2>1, TypeParts DEF IInv, TypeOK, Works, VersionsOrNone
<1>6. JobInv' /\ AdoptInv' /\ KindInv'
  <2>1. JobInv'
    BY <1>1, <1>2, <1>3, <1>4, Goroutines DEF JobInv, IInv, Resting
  <2>2. AdoptInv' /\ KindInv'
    BY <1>1, <1>3, <1>4 DEF AdoptInv, KindInv, Fitting, Upgrading, Between, Kind, Pup, IInv
  <2> QED
    BY <2>1, <2>2
<1>7. ASSUME NEW p \in Pups, pup[p].inst \in Passing PROVE (Excused(p) \/ Marked(p))'
  <2>1. Excused(p)
    BY <1>1, <1>7, PassingStates DEF IInv, ProgressInv, Marked, MarkedBy, Between
  <2>2. CASE pup[p].inst # "installing"
    BY <1>1, <2>1, <2>2 DEF Excused, past, Withdrawn
  <2>3. CASE /\ pup[p].inst = "installing"
             /\ \E i \in DOMAIN queue : queue[i].pup = p /\ queue[i].kind = "install"
    <3>1. PICK i \in DOMAIN queue : queue[i].pup = p /\ queue[i].kind = "install"
      BY <2>3
    <3>2. CASE i = 1
      BY <1>1, <1>2, <1>3, <1>4, <2>3, <3>1, <3>2 DEF Marked, MarkedBy, Between, Pup, Kind
    <3>3. CASE i # 1
      BY <1>1, <1>2, <2>3, <3>1, <3>3 DEF Excused, Coming, past, Withdrawn
    <3> QED
      BY <3>2, <3>3
  <2>4. CASE /\ pup[p].inst = "installing"
             /\ At(Loop, "send") /\ Pup(Loop) = p /\ Kind(Loop) = "install"
    BY <1>1, <1>4, <2>4 DEF Excused, Coming, At, Pup, Kind, past, Withdrawn
  <2>5. CASE pup[p].inst = "installing" /\ Withdrawn({"install"}, p)
    BY <1>1, <2>5 DEF Excused
  <2> QED
    BY <2>1, <2>2, <2>3, <2>4, <2>5 DEF Excused, Coming
<1> QED
  BY <1>1, <1>5, <1>6, <1>7, PassingStates DEF IInv, ProgressInv

\* A job that is over has left no mark.
LEMMA Finishes ==
  ASSUME IInv, NEW a \in Patchers, Finish(a) PROVE IInv'
<1>1. /\ work[a].at \in {"done", "failed"} /\ saving[a] = NoPup
      /\ work' = [work EXCEPT ![a] = NoWork]
      /\ UNCHANGED <<configVars, pup, disk, files, snapshot, queue, saving, purged, unsure,
                     requests, crashes, past>>
  BY DEF Finish, At
<1>2. NoWork \in Works /\ NoWork.at = "idle" /\ NoWork.then = "idle"
  BY NoWorkType DEF NoWork
<1>3. /\ work' \in [Patchers -> Works] /\ work'[a] = NoWork
      /\ \A b \in Patchers \ {a} : work'[b] = work[b]
  BY <1>1, <1>2, TypeParts DEF IInv
<1>4. TypeOK'
  BY <1>1, <1>3, ConfigKept, TypeParts DEF IInv, TypeOK, Works, VersionsOrNone, past
<1>5. JobInv' /\ AdoptInv' /\ KindInv'
  <2>1. JobInv'
    BY <1>1, <1>2, <1>3 DEF JobInv, IInv, Resting
  <2>2. AdoptInv' /\ KindInv'
    BY <1>1, <1>2, <1>3, Goroutines
       DEF AdoptInv, KindInv, Fitting, Upgrading, Between, Kind, Pup, IInv
  <2> QED
    BY <2>1, <2>2
<1>6. ASSUME NEW p \in Pups, pup[p].inst \in Passing PROVE (Excused(p) \/ Marked(p))'
  <2>1. Excused(p) \/ Marked(p)
    BY <1>6, PassingStates DEF IInv, ProgressInv
  <2>2. Excused(p) => Excused(p)'
    BY <1>1, <1>3, Goroutines DEF Excused, Coming, At, Pup, Kind, past, Withdrawn
  <2>3. Marked(p) => Marked(p)'
    BY <1>1, <1>3, Goroutines DEF Marked, MarkedBy, Between, Pup, Kind
  <2> QED
    BY <2>1, <2>2, <2>3
<1> QED
  BY <1>1, <1>4, <1>5, <1>6, PassingStates DEF IInv, ProgressInv

-----------------------------------------------------------------------------
(* Steps of either goroutine at its job.                                     *)

\* The step of a goroutine that changes no more than its point.
LEMMA EitherGoes ==
  ASSUME IInv, OthersTyped, NEW a \in Patchers, work[a].at # "idle", UNCHANGED pup,
         saving' \in [Patchers -> PupStates], saving'[a] = NoPup,
         \A b \in Patchers \ {a} : saving'[b] = saving[b],
         NEW l \in Labels, Goto(a, l), l # "adopt", ~At(Loop, "send") \/ a # Loop,
         a = Updater =>
           /\ Fitting(Kind(Updater), l, work[Updater].then)
           /\ LET i == pup[Pup(Updater)].inst
              IN  i \in Passing /\ MarkedBy(i, Kind(Updater), work[Updater].at, work[Updater].then)
                    => MarkedBy(i, Kind(Updater), l, work[Updater].then)
  PROVE  IInv'
<1>1. CASE a = Updater
  <2>1. Goto(Updater, l) /\ saving'[Updater] = NoPup /\ saving'[Loop] = saving[Loop]
        /\ work[Updater].at # "idle"
    BY <1>1, Goroutines
  <2> HIDE DEF Goto
  <2> QED
    BY <1>1, <2>1, UpdaterGoes
<1>2. CASE a = Loop
  <2>1. Typed
    BY OthersAreTyped
  <2>2. \A p \in Pups : Coming(p) => Coming(p)'
    BY <1>2, StillComing DEF OthersTyped, past
  <2>3. Goto(Loop, l) /\ saving'[Loop] = NoPup /\ saving'[Updater] = saving[Updater]
        /\ work[Loop].at # "idle"
    BY <1>2, Goroutines
  <2> QED
    BY <2>1, <2>2, <2>3, LoopGoes
<1> QED
  BY <1>1, <1>2, Goroutines

LEMMA EitherBusy ==
  ASSUME IInv, NEW a \in Patchers, work[a].at # "idle"
  PROVE  work[a] \in Works /\ work[a].job \in Jobs /\ Pup(a) \in Pups
  BY Goroutines, Busy, LoopBusy

\* The answer of a patch: the job goes on where it wanted to, or marks its pup.
LEMMA Awaits ==
  ASSUME IInv, NEW a \in Patchers, Await(a) PROVE IInv'
<1> DEFINE l == IF patch[a].at = "applied" \/ work[a].then = "snapshot" THEN work[a].then
                ELSE OnError(a)
<1>1. /\ work[a].at = "await" /\ Discard(a) /\ Goto(a, l)
      /\ UNCHANGED <<pup, disk, files, snapshot, queue, saving, purged, unsure, requests, crashes, past>>
  BY DEF Await
<1>2. work[a] \in Works /\ saving[a] = NoPup
  BY <1>1, EitherBusy DEF IInv, JobInv, Resting
<1>3. OthersTyped
  BY <1>1, PatchTypes, TypeParts DEF OthersTyped, IInv, past
<1>4. l \in Labels
  BY <1>2, WorkFields, OnErrorLabel DEF Labels
<1>5. a = Loop => l # "adopt"
  BY OnErrorLabel DEF IInv, AdoptInv
<1>6. a = Updater =>
        /\ Fitting(Kind(Updater), l, work[Updater].then)
        /\ LET i == pup[Pup(Updater)].inst
           IN  i \in Passing /\ MarkedBy(i, Kind(Updater), work[Updater].at, work[Updater].then)
                 => MarkedBy(i, Kind(Updater), l, work[Updater].then)
  <2> SUFFICES ASSUME a = Updater
               PROVE  /\ Fitting(Kind(Updater), l, work[Updater].then)
                      /\ \A i : MarkedBy(i, Kind(Updater), "await", work[Updater].then)
                                  => MarkedBy(i, Kind(Updater), l, work[Updater].then)
    BY <1>1
  <2>1. l = work[Updater].then \/ l = OnError(Updater)
    OBVIOUS
  <2>2. OnError(Updater) =
          IF Kind(Updater) \in {"install", "uninstall", "purge", "upgrade", "rollback"}
            THEN "broken" ELSE "failed"
    BY <1>1 DEF OnError, Updater
  <2>3. Fitting(Kind(Updater), "await", work[Updater].then)
    BY <1>1 DEF IInv, KindInv
  <2> HIDE DEF l
  <2>4. Fitting(Kind(Updater), l, work[Updater].then)
    BY <2>1, <2>2, <2>3 DEF Fitting, Between, Upgrading
  <2>5. \A i : MarkedBy(i, Kind(Updater), "await", work[Updater].then)
                 => MarkedBy(i, Kind(Updater), l, work[Updater].then)
    BY <2>1, <2>2 DEF MarkedBy, Between
  <2> QED
    BY <2>4, <2>5
<1> HIDE DEF l
<1>7. saving' \in [Patchers -> PupStates] /\ saving' = saving
  BY <1>1, TypeParts DEF IInv
<1>8. ~At(Loop, "send") \/ a # Loop
  BY <1>1 DEF At
<1>9. CASE a = Loop
  BY <1>1, <1>2, <1>3, <1>4, <1>5, <1>6, <1>7, <1>8, <1>9, EitherGoes, Goroutines
<1>10. CASE a = Updater
  BY <1>1, <1>2, <1>3, <1>4, <1>6, <1>7, <1>10, UpdaterGoes, Goroutines
<1> QED
  BY <1>9, <1>10, Goroutines

\* A save that fails.
LEMMA SavesFail ==
  ASSUME IInv, NEW a \in Patchers, SaveFails(a) PROVE IInv'
<1> DEFINE l == IF work[a].at = "rebuild" THEN "snapshot" ELSE OnError(a)
<1>1. /\ saving[a] # NoPup /\ saving' = [saving EXCEPT ![a] = NoPup] /\ Goto(a, l)
      /\ unsure' = unsure \cup {Pup(a)}
      /\ UNCHANGED <<configVars, pup, disk, files, snapshot, queue, purged, requests, crashes, past>>
  BY DEF SaveFails
<1>2. work[a].at \notin Resting
  BY <1>1 DEF IInv, JobInv
<1>3. work[a].at # "idle" /\ work[a].at # "await" /\ work[a].at # "broken" /\ Pup(a) \in Pups
  BY <1>2, EitherBusy DEF Resting
<1>4. OthersTyped
  BY <1>1, <1>3, ConfigKept, TypeParts DEF OthersTyped, IInv, past
<1>5. l \in Labels /\ l # "adopt"
  BY OnErrorLabel DEF Labels
<1>6. /\ saving' \in [Patchers -> PupStates] /\ saving'[a] = NoPup
      /\ \A b \in Patchers \ {a} : saving'[b] = saving[b]
  BY <1>1, PupStateFields, TypeParts DEF IInv
<1>7. ~At(Loop, "send") \/ a # Loop
  BY <1>1 DEF At
<1>8. a = Updater =>
        /\ Fitting(Kind(Updater), l, work[Updater].then)
        /\ \A i : MarkedBy(i, Kind(Updater), work[Updater].at, work[Updater].then)
                    => MarkedBy(i, Kind(Updater), l, work[Updater].then)
  <2> SUFFICES ASSUME a = Updater
               PROVE  /\ Fitting(Kind(Updater), l, work[Updater].then)
                      /\ \A i : MarkedBy(i, Kind(Updater), work[Updater].at, work[Updater].then)
                                  => MarkedBy(i, Kind(Updater), l, work[Updater].then)
    OBVIOUS
  <2>1. Fitting(Kind(Updater), work[Updater].at, work[Updater].then)
    BY DEF IInv, KindInv
  <2>2. OnError(Updater) =
          IF /\ work[Updater].at \notin {"broken", "failed"}
             /\ Kind(Updater) \in {"install", "uninstall", "purge", "upgrade", "rollback"}
            THEN "broken" ELSE "failed"
    BY DEF OnError, Updater
  <2>3. l = IF work[Updater].at = "rebuild" THEN "snapshot" ELSE OnError(Updater)
    OBVIOUS
  <2> HIDE DEF l
  <2>4. Fitting(Kind(Updater), l, work[Updater].then)
    BY <2>1, <2>2, <2>3 DEF Fitting, Between, Upgrading
  <2>5. \A i : MarkedBy(i, Kind(Updater), work[Updater].at, work[Updater].then)
                 => MarkedBy(i, Kind(Updater), l, work[Updater].then)
    BY <1>3, <2>2, <2>3 DEF MarkedBy, Between
  <2> QED
    BY <2>4, <2>5
<1> HIDE DEF l
<1> QED
  BY <1>1, <1>3, <1>4, <1>5, <1>6, <1>7, <1>8, EitherGoes

\* A save that is renamed into place, whatever the encoder has read.
LEMMA Saves ==
  ASSUME IInv, NEW a \in Patchers, Saved(a) PROVE IInv'
<1>1. /\ saving[a] # NoPup /\ saving' = [saving EXCEPT ![a] = NoPup]
      /\ UNCHANGED <<configVars, pup, files, snapshot, queue, purged, unsure, requests, crashes, past>>
  BY DEF Saved
<1>2. work[a].at \notin Resting
  BY <1>1 DEF IInv, JobInv
<1>3. work[a].at # "idle" /\ work[a] \in Works /\ work[a].job \in Jobs /\ Pup(a) \in Pups
  BY <1>2, EitherBusy DEF Resting
<1>4. /\ pup \in [Pups -> PupStates] /\ saving \in [Patchers -> PupStates]
      /\ disk \in [Pups -> PupStates] /\ work \in [Patchers -> Works]
  BY TypeParts DEF IInv
<1>5. disk' \in [Pups -> PupStates]
  <2> DEFINE r == saving[a]
             now == pup[Pup(a)]
  <2>1. r \in PupStates /\ now \in PupStates
    BY <1>3, <1>4
  <2>2. PICK x \in Encoded(r, now) : disk' = [disk EXCEPT ![Pup(a)] = x]
    BY DEF Saved
  <2> HIDE DEF r, now
  <2>3. Encoded(r, now) \subseteq PupStates
    BY <2>1 DEF Encoded, PupStates
  <2> QED
    BY <1>3, <1>4, <2>2, <2>3
<1>6. OthersTyped
  BY <1>1, <1>5, ConfigKept, TypeParts DEF OthersTyped, IInv, past
<1>7. PICK w \in Works :
        /\ work' = [work EXCEPT ![a] = w] /\ w.at = work[a].at /\ w.job = work[a].job
        /\ w.then = work[a].then /\ (w.state = work[a].state \/ pup[Pup(a)] # NoPup)
  <2>1. CASE UNCHANGED work
    BY <1>3, <1>4, <2>1
  <2>2. CASE pup[Pup(a)] # NoPup /\ work' = [work EXCEPT ![a].state = pup[Pup(a)]]
    <3> DEFINE now == pup[Pup(a)]
               w == [work[a] EXCEPT !.state = now]
    <3>1. now \in PupStates
      BY <1>3, <1>4
    <3>2. work' = [work EXCEPT ![a] = w]
      BY <2>2
    <3> HIDE DEF now
    <3>3. w \in Works /\ w.at = work[a].at /\ w.job = work[a].job /\ w.then = work[a].then
      BY <1>3, <3>1 DEF Works
    <3> HIDE DEF w
    <3> QED
      BY <2>2, <3>2, <3>3
  <2> QED
    BY <2>1, <2>2 DEF Saved
<1>8. /\ saving' \in [Patchers -> PupStates] /\ saving'[a] = NoPup
      /\ \A b \in Patchers \ {a} : saving'[b] = saving[b]
  BY <1>1, <1>4, PupStateFields
<1>9. CASE a = Updater
  <2>1. /\ work' = [work EXCEPT ![Updater] = w] /\ w.at # "idle" /\ w.job \in Jobs
        /\ w.job.pup = Pup(Updater) /\ w.job.kind = Kind(Updater)
        /\ w.at = work[Updater].at /\ w.then = work[Updater].then
    BY <1>3, <1>7, <1>9 DEF Pup, Kind
  <2>2. Fitting(Kind(Updater), w.at, w.then)
    BY <2>1 DEF IInv, KindInv
  <2>3. /\ saving'[Loop] = saving[Loop] /\ saving'[Updater] = NoPup /\ pup' = pup
        /\ work[Updater].at # "idle"
    BY <1>1, <1>3, <1>8, <1>9, Goroutines
  <2> QED
    BY <1>4, <1>6, <1>8, <2>1, <2>2, <2>3, UpdaterWorks
<1>10. CASE a = Loop
  <2>1. work' = [work EXCEPT ![Loop] = w] /\ w.at = work[Loop].at /\ w.job = work[Loop].job
        /\ w.job \in Jobs
    BY <1>3, <1>7, <1>10
  <2>2. Typed
    BY <1>6, OthersAreTyped
  <2>3. \A p \in Pups : Coming(p) => Coming(p)'
    BY <1>1, <1>10, StillComing DEF At
  <2>4. w.then # "adopt"
    BY <1>7, <1>10 DEF IInv, AdoptInv
  <2>5. w.at = "adopt" => /\ w.job.kind = "install" /\ w.state.inst = "installing"
                          /\ pup'[w.job.pup] = NoPup
    BY <1>1, <1>7, <1>10 DEF IInv, AdoptInv, Kind, Pup
  <2>6. saving'[Loop] = NoPup /\ saving'[Updater] = saving[Updater] /\ pup' = pup
    BY <1>1, <1>8, <1>10, Goroutines
  <2> QED
    BY <1>4, <1>8, <2>1, <2>2, <2>3, <2>4, <2>5, <2>6, LoopWorks
<1> QED
  BY <1>9, <1>10, Goroutines

\* The steps of a patch are no steps of the job that waits for it.
LEMMA Patches ==
  ASSUME IInv, NEW a \in Patchers, PatchStep(a) PROVE IInv'
<1>1. NixTypeOK' /\ UNCHANGED pupVars
  BY PatchTypes, TypeParts DEF PatchStep, IInv
<1>2. TypeOK'
  BY <1>1, TypeParts DEF TypeOK, Works, VersionsOrNone, pupVars, IInv, past
<1> QED
  BY <1>1, <1>2
     DEF IInv, pupVars, JobInv, AdoptInv, KindInv, ProgressInv, Excused, Marked, Coming, At,
         Kind, Pup, past, Withdrawn

\* A restart drops every job, and leaves no pup installing.
LEMMA Restarts ==
  ASSUME IInv, Restart PROVE IInv'
<1>1. /\ pup' = [p \in Pups |-> IF disk[p].inst = "installing"
                                THEN [disk[p] EXCEPT !.inst = "broken"] ELSE disk[p]]
      /\ disk' = pup' /\ StopPatches /\ queue' = <<>> /\ crashes' = crashes + 1
      /\ work' = [a \in Patchers |-> NoWork] /\ saving' = [a \in Patchers |-> NoPup]
      /\ UNCHANGED <<files, snapshot, purged, unsure, requests, withdrawn>>
      /\ left' = [p \in Pups |-> pup'[p].inst]
  BY DEF Restart
<1>2. \A p \in Pups : pup'[p] \in PupStates /\ pup'[p].inst # "installing"
  <2> TAKE p \in Pups
  <2> DEFINE r == disk[p]
  <2>1. r \in PupStates
    BY TypeParts DEF IInv
  <2>2. pup'[p] = IF r.inst = "installing" THEN [r EXCEPT !.inst = "broken"] ELSE r
    BY <1>1
  <2> HIDE DEF r
  <2>3. [r EXCEPT !.inst = "broken"] \in PupStates /\ [r EXCEPT !.inst = "broken"].inst = "broken"
    BY <2>1 DEF PupStates, Installation
  <2> QED
    BY <2>1, <2>2, <2>3
<1>3. pup' \in [Pups -> PupStates] /\ \A a \in Patchers : work'[a] = NoWork /\ saving'[a] = NoPup
  BY <1>1, <1>2
<1>4. NoWork \in Works /\ NoWork.at = "idle" /\ NoWork.then = "idle"
  BY NoWorkType DEF NoWork
<1>5. work' \in [Patchers -> Works] /\ saving' \in [Patchers -> PupStates]
  BY <1>1, <1>4, PupStateFields
<1>6. NixTypeOK' /\ queue' \in Seq(Jobs) /\ crashes' \in Nat /\ crashes' > 0
  BY <1>1, PatchTypes, Goroutines, TypeParts DEF IInv
<1>7. TypeOK'
  <2>1. left' \in [Pups -> Installation]
    BY <1>1, <1>2, PupStateFields
  <2> QED
    BY <1>1, <1>3, <1>5, <1>6, <2>1, TypeParts DEF IInv, TypeOK, Works, VersionsOrNone
<1>8. JobInv' /\ AdoptInv' /\ KindInv'
  BY <1>3, <1>4, Goroutines
     DEF JobInv, AdoptInv, KindInv, Fitting, Upgrading, Between
<1>9. ProgressInv'
  BY <1>1, <1>2 DEF ProgressInv, Excused, past, Withdrawn
<1> QED
  BY <1>7, <1>8, <1>9 DEF IInv

-----------------------------------------------------------------------------
(* The theorems.                                                             *)

LEMMA Initially == Init => IInv
<1> SUFFICES ASSUME Init PROVE IInv
  OBVIOUS
<1>1. /\ pup \in [Pups -> Found] /\ disk = pup
      /\ files = [p \in Pups |-> pup[p].version] /\ snapshot = [p \in Pups |-> NoSnapshot]
      /\ queue = <<>> /\ work = [a \in Patchers |-> NoWork]
      /\ saving = [a \in Patchers |-> NoPup]
      /\ purged = {} /\ unsure = {} /\ requests = 0 /\ crashes = 0
      /\ withdrawn = {} /\ left = [p \in Pups |-> "none"]
  BY DEF Init
<1>2. \A p \in Pups : /\ pup[p] \in PupStates /\ pup[p].inst \notin Passing
                      /\ pup[p].version \in VersionsOrNone
  BY <1>1, LifecycleAssumption, PassingStates, PupStateFields
<1>3. pup \in [Pups -> PupStates] /\ files \in [Pups -> VersionsOrNone]
  <2>1. pup \in [Pups -> PupStates]
    BY <1>1, <1>2
  <2>2. files \in [Pups -> VersionsOrNone]
    BY <1>1, <1>2
  <2> QED
    BY <2>1, <2>2
<1>4. NixTypeOK
  <2> DEFINE dir == [f \in Files |->
                      IF f = Includes THEN [p \in Pups |-> pup[p].inst = "ready"]
                      ELSE IF pup[f].inst = "ready"
                             THEN [enabled |-> pup[f].enabled, version |-> pup[f].version]
                      ELSE Missing]
             list == [p \in Pups |-> pup[p].inst = "ready"]
  <2>1. list \in Contents
    <3>1. \A p \in Pups : (pup[p].inst = "ready") \in BOOLEAN
      OBVIOUS
    <3>2. list \in Listings
      BY <3>1, Zenon DEF Listings
    <3> QED
      BY <3>2, LifecycleAssumption
  <2>2. \A f \in Pups : [enabled |-> pup[f].enabled, version |-> pup[f].version] \in Contents
    BY <1>2, PupStateFields, LifecycleAssumption DEF PupFiles, VersionsOrNone
  <2>3. \A f \in Files : dir[f] \in Contents
    <3> HIDE DEF list
    <3>1. \A f \in Files :
            dir[f] = IF f = Includes THEN list
                     ELSE IF pup[f].inst = "ready"
                            THEN [enabled |-> pup[f].enabled, version |-> pup[f].version]
                     ELSE Missing
      BY DEF list
    <3> HIDE DEF dir
    <3> QED
      BY <2>1, <2>2, <3>1, LifecycleAssumption, NixConfigAssumption
  <2>4. dir \in Dirs
    <3>1. dir = [f \in Files |-> dir[f]]
      OBVIOUS
    <3> HIDE DEF dir
    <3> QED
      BY <2>3, <3>1 DEF Dirs
  <2>5. nixDir = dir /\ running = dir /\ patch = [a \in Patchers |-> NoPatch]
    BY DEF Init, NixInit
  <2> HIDE DEF dir
  <2> QED
    BY <2>4, <2>5, NoPatchType DEF NixTypeOK, Patching
<1>5. /\ snapshot \in [Pups -> Snapshots] /\ queue \in Seq(Jobs) /\ work \in [Patchers -> Works]
      /\ saving \in [Patchers -> PupStates]
  <2>1. NoSnapshot \in Snapshots /\ <<>> \in Seq(Jobs)
    BY DEF NoSnapshot, Snapshots
  <2> QED
    BY <1>1, <2>1, NoWorkType, PupStateFields
<1>6. TypeOK
  <2>1. left \in [Pups -> Installation]
    BY <1>1 DEF Installation
  <2> QED
    BY <1>1, <1>3, <1>4, <1>5, <2>1, TypeParts
<1>7. \A a \in Patchers : work[a].at = "idle" /\ work[a].then = "idle" /\ saving[a] = NoPup
  BY <1>1, NoWorkType DEF NoWork
<1>8. JobInv /\ AdoptInv /\ KindInv
  BY <1>7, Goroutines DEF JobInv, AdoptInv, KindInv, Fitting, Upgrading, Between
<1>9. ProgressInv
  BY <1>2, PassingStates DEF ProgressInv
<1> QED
  BY <1>6, <1>8, <1>9 DEF IInv

LEMMA Requests == IInv /\ NewRequest => IInv'
<1> SUFFICES ASSUME IInv, NewRequest PROVE IInv'
  OBVIOUS
<1>1. PICK p \in Pups :
        \/ \E v \in Versions : AdoptPup(p, v) \/ Dispatch("upgrade", p, v)
        \/ \E kind \in {"uninstall", "purge", "enable", "disable", "rollback", "import"} :
             Dispatch(kind, p, 0)
        \/ \E kind \in {"config", "touch"} : DirectUpdate(kind, p)
  BY DEF NewRequest
<1>2. /\ Versions \subseteq VersionsOrNone /\ 0 \in VersionsOrNone
      /\ {"upgrade", "uninstall", "purge", "enable", "disable", "rollback", "import",
          "config", "touch"} \subseteq AllKinds
  BY DEF VersionsOrNone, AllKinds
<1> QED
  BY <1>1, <1>2, Adoptions, Dispatches

\* A queue without its job i: the others keep their order.
LEMMA QueueWithout ==
  ASSUME queue \in Seq(Jobs), NEW i \in DOMAIN queue, RemoveFromQueue(i)
  PROVE  /\ queue' \in Seq(Jobs) /\ DOMAIN queue' = 1 .. Len(queue) - 1
         /\ \A j \in DOMAIN queue' :
              /\ j \in DOMAIN queue /\ j + 1 \in DOMAIN queue
              /\ queue'[j] = IF j < i THEN queue[j] ELSE queue[j + 1]
<1> DEFINE n == Len(queue)
           a == SubSeq(queue, 1, i - 1)
           b == SubSeq(queue, i + 1, n)
<1>1. n \in Nat /\ i \in 1 .. n
  OBVIOUS
<1>2. /\ a \in Seq(Jobs) /\ Len(a) = i - 1 /\ \A j \in 1 .. i - 1 : a[j] = queue[j]
  BY <1>1
<1>3. /\ b \in Seq(Jobs) /\ Len(b) = n - i /\ \A j \in 1 .. n - i : b[j] = queue[i + j]
  BY <1>1
<1>4. queue' = a \o b
  BY DEF RemoveFromQueue
<1> HIDE DEF a, b
<1>5. queue' \in Seq(Jobs) /\ Len(queue') = n - 1
  BY <1>1, <1>2, <1>3, <1>4
<1>6. ASSUME NEW j \in 1 .. n - 1
      PROVE  queue'[j] = IF j < i THEN queue[j] ELSE queue[j + 1]
  <2>1. queue'[j] = IF j <= Len(a) THEN a[j] ELSE b[j - Len(a)]
    BY <1>1, <1>2, <1>3, <1>4, <1>6
  <2>2. CASE j < i
    BY <1>1, <1>2, <1>6, <2>1, <2>2
  <2>3. CASE ~(j < i)
    BY <1>1, <1>2, <1>3, <1>6, <2>1, <2>3
  <2> QED
    BY <2>2, <2>3
<1> QED
  BY <1>1, <1>5, <1>6

\* A job that is deleted excuses its pup; the others are still coming.
LEMMA Removals ==
  ASSUME IInv, NEW i \in DOMAIN queue, RemoveFromQueue(i) PROVE IInv'
<1>1. /\ UNCHANGED <<configVars, pup, disk, files, snapshot, work, saving, purged, unsure,
                     requests, crashes, left>>
      /\ withdrawn' = withdrawn \cup {<<queue[i].kind, queue[i].pup>>}
  BY DEF RemoveFromQueue
<1>2. queue \in Seq(Jobs)
  BY TypeParts DEF IInv
<1>3. queue[i] \in Jobs
  BY <1>2
<1>4. TypeOK'
  <2>1. queue' \in Seq(Jobs) /\ NixTypeOK'
    BY <1>1, <1>2, QueueWithout, ConfigKept, TypeParts DEF IInv
  <2>2. withdrawn' \subseteq AllKinds \X Pups
    BY <1>1, <1>3, JobFields, TypeParts DEF IInv
  <2> QED
    BY <1>1, <2>1, <2>2, TypeParts DEF IInv, TypeOK, Works, VersionsOrNone
<1>5. JobInv' /\ AdoptInv' /\ KindInv'
  BY <1>1 DEF IInv, JobInv, AdoptInv, KindInv, Kind, Pup
<1>6. ASSUME NEW p \in Pups, Coming(p) PROVE Coming(p)' \/ Withdrawn({"install"}, p)'
  <2>1. ASSUME NEW k \in DOMAIN queue, queue[k].pup = p, queue[k].kind = "install"
        PROVE  Coming(p)' \/ Withdrawn({"install"}, p)'
    <3>1. CASE k = i
      BY <1>1, <2>1, <3>1 DEF Withdrawn
    <3>2. CASE k < i
      BY <1>2, <2>1, <3>2, QueueWithout DEF Coming
    <3>3. CASE i < k
      <4>1. k - 1 \in DOMAIN queue' /\ queue'[k - 1] = queue[k]
        BY <1>2, <2>1, <3>3, QueueWithout
      <4> QED
        BY <2>1, <4>1 DEF Coming
    <3> QED
      BY <1>2, <2>1, <3>1, <3>2, <3>3
  <2> QED
    BY <1>1, <1>6, <2>1 DEF Coming, At, Kind, Pup
<1>7. ASSUME NEW p \in Pups, pup[p].inst \in Passing PROVE (Excused(p) \/ Marked(p))'
  BY <1>1, <1>6, <1>7, PassingStates
     DEF IInv, ProgressInv, Excused, Withdrawn, Marked, Kind, Pup
<1> QED
  BY <1>1, <1>4, <1>5, <1>7, PassingStates DEF IInv, ProgressInv

LEMMA Steps == IInv /\ (\E a \in Patchers : Step(a)) => IInv'
<1> SUFFICES ASSUME IInv, NEW a \in Patchers, Step(a) PROVE IInv'
  OBVIOUS
<1>1. CASE LoopStep
  BY <1>1, Indexing, Sendings, Configurations DEF LoopStep
<1>2. CASE UpdaterStep
  BY <1>2, Takes, Beginnings, Imports, Preparation, Interludes, Endings, Purges, Builds
     DEF UpdaterStep
<1>3. CASE Saved(a) \/ SaveFails(a) \/ PatchStep(a) \/ Await(a) \/ Finish(a)
  BY <1>3, Saves, SavesFail, Patches, Awaits, Finishes
<1> QED
  BY <1>1, <1>2, <1>3 DEF Step

LEMMA Stutters == IInv /\ UNCHANGED vars => IInv'
<1> SUFFICES ASSUME IInv, UNCHANGED vars PROVE IInv'
  OBVIOUS
<1>1. NixTypeOK' /\ UNCHANGED pupVars
  BY ConfigKept, TypeParts DEF vars, IInv
<1>2. TypeOK'
  BY <1>1, TypeParts DEF TypeOK, Works, VersionsOrNone, pupVars, IInv, past
<1> QED
  BY <1>1, <1>2
     DEF IInv, pupVars, JobInv, AdoptInv, KindInv, ProgressInv, Excused, Marked, Coming, At,
         Kind, Pup, past, Withdrawn

(* In every reachable state, for any pups and versions and whatever fails, a *)
(* pup in a passing state is marked by the job the updater is at, or its     *)
(* install is still to come or was deleted from the queue, or the last crash *)
(* has left it so; an upgrade alone stops, rebuilds and takes a snapshot,    *)
(* and nothing is left to save while a patch is awaited.                     *)
THEOREM Invariance == Spec => []IInv
<1>1. IInv /\ [Next]_vars => IInv'
  BY Requests, Removals, Steps, Restarts, Stutters DEF Next
<1> QED
  BY <1>1, Initially, PTL DEF Spec

(* The pups in memory and on disk, the jobs, the snapshots and the nix files *)
(* are always what their types say (types.go, nix_patch.go).                 *)
THEOREM Typing == Spec => []TypeOK
<1>1. IInv => TypeOK
  BY DEF IInv
<1> QED
  BY <1>1, Invariance, PTL

(* A pup shown as installing, upgrading, uninstalling or being purged has a  *)
(* job of that kind working on it, or, installing, still to come; a deleted  *)
(* install leaves one behind as installing, and a crash another one that is  *)
(* not (recoverStuckPups, RemoveFromQueue).                                  *)
THEOREM WorkVisible == Spec => []WorkInProgress
<1>1. ASSUME IInv, NEW p \in Pups, pup[p].inst \in DOMAIN WorkerOf
      PROVE  \/ /\ work[Updater].at \notin {"idle", "done", "failed"}
                /\ Pup(Updater) = p /\ Kind(Updater) \in WorkerOf[pup[p].inst]
             \/ /\ pup[p].inst = "installing"
                /\ \/ \E i \in DOMAIN queue : queue[i].pup = p /\ queue[i].kind = "install"
                   \/ work[Loop].at = "send" /\ Pup(Loop) = p /\ Kind(Loop) = "install"
                   \/ Withdrawn({"install"}, p)
             \/ pup[p].inst # "installing" /\ pup[p].inst = left[p]
  <2>1. Excused(p) \/ Marked(p)
    BY <1>1 DEF IInv, ProgressInv
  <2>2. CASE Excused(p)
    BY <2>2 DEF Excused, Coming, At, past, Withdrawn
  <2>3. CASE Marked(p)
    <3>1. /\ WorkerOf["installing"] = {"install"} /\ WorkerOf["upgrading"] = {"upgrade", "rollback"}
          /\ WorkerOf["uninstalling"] = {"uninstall"} /\ WorkerOf["purging"] = {"purge"}
      BY DEF WorkerOf
    <3> QED
      BY <2>3, <3>1 DEF Marked, MarkedBy, Between
  <2> QED
    BY <2>1, <2>2, <2>3
<1>2. IInv => WorkInProgress
  BY <1>1 DEF WorkInProgress
<1> QED
  BY <1>2, Invariance, PTL
-----------------------------------------------------------------------------
(* The files of a READY pup, and the saved pups.  First, a step of the       *)
(* updater at its pup.                                                       *)

LEMMA JobTarget ==
  ASSUME NEW j \in Jobs, NEW r
  PROVE  /\ [j EXCEPT !.seen = r].kind = j.kind /\ [j EXCEPT !.seen = r].pup = j.pup
         /\ [j EXCEPT !.seen = r].to = j.to
  BY DEF Jobs

LEMMA NoPupIsReal == Real(NoPup) /\ \A r \in PupStates : r.inst # "none" => Real(r) /\ r # NoPup
  BY PupStateFields DEF Real

AtOwnPup ==
  /\ work[Updater].at # "idle" /\ work'[Updater].at # "idle"
  /\ work'[Loop] = work[Loop] /\ saving'[Loop] = saving[Loop]
  /\ work'[Updater].job.pup = Pup(Updater) /\ queue' = queue /\ crashes' = crashes
  /\ purged' \subseteq purged \cup {Pup(Updater)} /\ purged \subseteq purged'
  /\ unsure \subseteq unsure'
  /\ \A p \in Pups \ {Pup(Updater)} :
       pup'[p] = pup[p] /\ disk'[p] = disk[p] /\ files'[p] = files[p]

\* What is known of the pup the updater is at.
LEMMA OwnPup ==
  ASSUME IInv, FInv, work[Updater].at # "idle"
  PROVE  LET p == Pup(Updater) IN
         /\ p \in Pups /\ (pup[p] # NoPup \/ p \in purged) /\ ~Adopting(p)
         /\ \A i \in DOMAIN queue : queue[i].kind = "install" => queue[i].pup # p
         /\ work[Loop].at = "send" /\ Kind(Loop) = "install" => Pup(Loop) # p
         /\ p \notin unsure =>
              /\ saving[Loop] # NoPup => Pup(Loop) # p
              /\ Removed(p) => disk[p] = NoPup
              /\ ~Removed(p) => \/ disk[p] = pup[p]
                                \/ saving[Updater] # NoPup /\ saving[Updater] = pup[p]
<1> DEFINE p == Pup(Updater)
<1>1. p \in Pups /\ On(Updater, p)
  BY Busy DEF On
<1>2. pup[p] # NoPup \/ p \in purged
  BY <1>1 DEF FInv, KnownInv
<1>3. ~Adopting(p)
  BY <1>2 DEF Adopting, FInv, KnownInv, IInv, AdoptInv
<1>4. /\ \A i \in DOMAIN queue : queue[i].kind = "install" => queue[i].pup # p
      /\ work[Loop].at = "send" /\ Kind(Loop) = "install" => Pup(Loop) # p
  BY <1>1 DEF FInv, InstallFirst
<1>5. ASSUME p \notin unsure, saving[Loop] # NoPup PROVE Pup(Loop) # p
  <2>1. work[Loop].at # "idle"
    BY <1>5, Goroutines DEF IInv, JobInv, Resting
  <2> QED
    BY <1>3, <1>5, <2>1 DEF FInv, CrossInv, On, Adopting
<1>6. ASSUME p \notin unsure PROVE IF Removed(p) THEN disk[p] = NoPup
                                   ELSE disk[p] = pup[p] \/ BeingSaved(p)
  BY <1>1, <1>3, <1>6 DEF FInv, SavedInv
<1>7. ASSUME p \notin unsure, BeingSaved(p)
      PROVE  saving[Updater] # NoPup /\ saving[Updater] = pup[p]
  BY <1>5, <1>7, Goroutines DEF BeingSaved
<1> QED
  BY <1>1, <1>2, <1>3, <1>4, <1>5, <1>6, <1>7

\* A step of the updater that leaves its own pup as it has to be.
LEMMA OwnPupKeeps ==
  ASSUME IInv, FInv, AtOwnPup, StageInv',
         LET p == Pup(Updater) IN
         /\ Real(pup'[p]) /\ Real(disk'[p]) /\ Real(saving'[Updater])
         /\ pup'[p] = NoPup => pup[p] = NoPup \/ p \in purged'
         /\ work'[Updater].at \in {"removeSource", "purge"} => saving'[Updater] = NoPup
         /\ p \notin unsure' =>
              /\ saving'[Updater] # NoPup => saving'[Updater] = pup'[p]
              /\ work'[Updater].at \in {"removeSource", "purge"} => disk'[p] = NoPup
              /\ work'[Updater].at \notin {"removeSource", "purge"} =>
                   disk'[p] = pup'[p] \/ saving'[Updater] # NoPup
              /\ disk'[p].inst = "ready" => files'[p] = disk'[p].version
         /\ pup'[p].inst = "ready" /\ (crashes = 0 \/ p \notin unsure') =>
              files'[p] = pup'[p].version
  PROVE  FInv'
<1> DEFINE p == Pup(Updater)
<1>1. /\ p \in Pups /\ (pup[p] # NoPup \/ p \in purged) /\ ~Adopting(p)
      /\ \A i \in DOMAIN queue : queue[i].kind = "install" => queue[i].pup # p
      /\ work[Loop].at = "send" /\ Kind(Loop) = "install" => Pup(Loop) # p
  BY OwnPup DEF AtOwnPup
<1>2. \A i \in DOMAIN queue : queue[i] \in Jobs /\ queue[i].pup \in Pups
  BY JobFields, TypeParts DEF IInv
<1>3. /\ Pup(Updater)' = p /\ Pup(Loop)' = Pup(Loop) /\ Kind(Loop)' = Kind(Loop)
      /\ \A x \in Pups : Adopting(x)' <=> Adopting(x)
      /\ \A x : On(Updater, x)' <=> On(Updater, x)
  BY DEF AtOwnPup, Pup, Kind, Adopting, On
<1>4. RealInv'
  BY <1>1, Goroutines DEF FInv, RealInv, AtOwnPup
<1>5. KnownInv'
  <2>1. \A x \in Pups : pup[x] # NoPup \/ x \in purged => pup'[x] # NoPup \/ x \in purged'
    BY <1>1 DEF AtOwnPup
  <2>2. \A i \in DOMAIN queue' : pup'[queue'[i].pup] # NoPup \/ queue'[i].pup \in purged'
    BY <1>2, <2>1 DEF FInv, KnownInv, AtOwnPup
  <2>3. \A x \in Pups : On(Updater, x)' => pup'[x] # NoPup \/ x \in purged'
    BY <1>3, <2>1 DEF FInv, KnownInv
  <2>4. work[Loop].at = "adopt" => Pup(Loop) \notin purged'
    BY <1>1 DEF FInv, KnownInv, AtOwnPup, Adopting
  <2> QED
    BY <1>3, <2>2, <2>3, <2>4 DEF FInv, KnownInv, AtOwnPup
<1>6. InstallFirst'
  <2>1. ASSUME NEW j \in Jobs, j.pup # p, Adopted(j)
        PROVE  pup'[j.pup].inst = "installing" /\ pup'[j.pup].version = j.to
    BY <2>1, JobFields DEF Adopted, AtOwnPup
  <2>2. \A i \in DOMAIN queue : queue[i].kind = "install" => Adopted(queue[i])'
    BY <1>1, <1>2, <2>1 DEF FInv, InstallFirst, AtOwnPup, Adopted
  <2>3. work[Loop].at = "send" /\ Kind(Loop) = "install" => Adopted(work[Loop].job)'
    <3>1. work[Loop].at # "idle" => work[Loop].job \in Jobs
      BY LoopBusy
    <3> QED
      BY <1>1, <2>1, <3>1 DEF FInv, InstallFirst, Pup, AtOwnPup, Adopted
  <2> QED
    BY <1>3, <2>2, <2>3 DEF FInv, InstallFirst, AtOwnPup, Adopted
<1>7. CrossInv'
  BY <1>3 DEF FInv, CrossInv, AtOwnPup, On
<1>8. ASSUME NEW x \in Pups \ unsure', x # p
      PROVE  IF Adopting(x) THEN disk'[x] = IF saving'[Loop] = NoPup THEN work'[Loop].state ELSE NoPup
             ELSE disk'[x] = pup'[x] \/ BeingSaved(x)'
  <2>1. x \in Pups \ unsure /\ ~Removed(x) /\ pup'[x] = pup[x] /\ disk'[x] = disk[x]
    BY <1>8 DEF AtOwnPup, Removed
  <2>2. BeingSaved(x) => BeingSaved(x)'
    BY <1>3, <1>8, <2>1, Goroutines DEF BeingSaved, AtOwnPup
  <2> QED
    BY <2>1, <2>2 DEF FInv, SavedInv, AtOwnPup
<1>9. ASSUME p \notin unsure'
      PROVE  IF Removed(p)' THEN disk'[p] = NoPup ELSE disk'[p] = pup'[p] \/ BeingSaved(p)'
  BY <1>3, <1>9, Goroutines DEF Removed, BeingSaved
<1>10. SavedInv'
  BY <1>1, <1>3, <1>8, <1>9 DEF SavedInv, Removed
<1>11. FreshInv'
  <2>1. ASSUME saving'[Loop] # NoPup, Pup(Loop) \notin unsure', ~Adopting(Pup(Loop))
        PROVE  saving'[Loop] = pup'[Pup(Loop)]
    <3>1. saving[Loop] # NoPup /\ Pup(Loop) \notin unsure /\ saving[Loop] = pup[Pup(Loop)]
      BY <2>1, Goroutines DEF FInv, FreshInv, AtOwnPup
    <3>2. Pup(Loop) # p
      BY <2>1, <3>1, OwnPup DEF AtOwnPup
    <3>3. Pup(Loop) \in Pups
      BY <3>1, LoopBusy, Goroutines DEF IInv, JobInv, Resting
    <3> QED
      BY <3>1, <3>2, <3>3 DEF AtOwnPup
  <2>2. ASSUME NEW a \in Patchers, saving'[a] # NoPup, Pup(a)' \notin unsure', ~Adopting(Pup(a))'
        PROVE  saving'[a] = pup'[Pup(a)']
    <3>1. CASE a = Loop
      BY <2>1, <2>2, <3>1 DEF Adopting, AtOwnPup, Pup
    <3>2. CASE a = Updater
      BY <1>3, <2>2, <3>2
    <3> QED
      BY <3>1, <3>2, Goroutines
  <2> QED
    BY <2>2 DEF FreshInv
<1>12. DiskHasFiles' /\ ReadyHasFiles'
  BY DEF FInv, DiskHasFiles, ReadyHasFiles, AtOwnPup
<1> QED
  BY <1>4, <1>5, <1>6, <1>7, <1>10, <1>11, <1>12 DEF FInv

Removing == {"removeSource", "purge"}

\* A job that has failed is at no stage.
LEMMA FailedStage ==
  \A kind, to, then, r, f, v :
    Staged(kind, to, "broken", then, r, f, v) /\ Staged(kind, to, "failed", then, r, f, v)
  BY DEF Staged, Between

\* The updater updates its pup to r and goes on at l.
LEMMA OwnPupUpdated ==
  ASSUME IInv, FInv, work[Updater].at \notin Removing \cup {"idle"}, saving[Updater] = NoPup,
         keepFiles, NEW r \in PupStates, NEW l \in Labels \ (Removing \cup {"idle"}),
         UpdatePup(Updater, r, l),
         Mine # NoPup =>
           /\ r.inst # "none"
           /\ r.inst = "ready" => /\ r.version = Mine.version
                                  /\ Mine.inst = "ready" \/ files[Pup(Updater)] = Mine.version
           /\ Staged(Kind(Updater), work[Updater].job.to, l, work[Updater].then, r,
                     files[Pup(Updater)], snapshot[Pup(Updater)].version)
  PROVE  FInv'
<1> DEFINE p == Pup(Updater)
<1>1. /\ work' \in [Patchers -> Works] /\ pup' \in [Pups -> PupStates]
      /\ saving' \in [Patchers -> PupStates]
      /\ work'[Updater].job = work[Updater].job /\ work'[Updater].then = work[Updater].then
      /\ work'[Loop] = work[Loop] /\ saving'[Loop] = saving[Loop]
      /\ Updated(Updater, r, l) \/ NotThere(Updater)
  BY UpdateEffect, Goroutines DEF IInv
<1>2. UNCHANGED <<disk, files, snapshot, queue, purged, unsure, requests, crashes>>
  BY DEF keepFiles
<1>3. /\ p \in Pups /\ pup \in [Pups -> PupStates] /\ saving \in [Patchers -> PupStates]
  BY Busy, TypeParts DEF IInv
<1>4. Pup(Updater)' = p /\ Kind(Updater)' = Kind(Updater)
  BY <1>1 DEF Pup, Kind
<1>5. Real(pup[p]) /\ Real(disk[p]) /\ Real(NoPup)
  BY <1>3, NoPupIsReal DEF FInv, RealInv
<1>6. /\ p \notin unsure => disk[p] = pup[p]
      /\ p \notin unsure /\ disk[p].inst = "ready" => files[p] = disk[p].version
      /\ pup[p].inst = "ready" /\ (crashes = 0 \/ p \notin unsure) => files[p] = pup[p].version
  <2>1. ~Removed(p)
    BY DEF Removed, Removing
  <2> QED
    BY <1>3, <2>1, OwnPup DEF FInv, DiskHasFiles, ReadyHasFiles
<1>7. CASE Updated(Updater, r, l)
  <2>1. /\ pup'[p] = r /\ saving'[Updater] = r /\ work'[Updater].at = l /\ pup[p] # NoPup
        /\ \A x \in Pups \ {p} : pup'[x] = pup[x]
    BY <1>3, <1>7, Goroutines DEF Updated
  <2>2. /\ r.inst # "none" /\ Real(r) /\ r # NoPup
        /\ r.inst = "ready" => /\ r.version = pup[p].version
                               /\ pup[p].inst = "ready" \/ files[p] = pup[p].version
    BY <2>1, NoPupIsReal DEF Mine
  <2>3. StageInv'
    BY <1>1, <1>2, <1>4, <2>1 DEF StageInv, Mine, Kind
  <2>4. AtOwnPup
    BY <1>1, <1>2, <2>1 DEF AtOwnPup, Pup, Removing
  <2> QED
    BY <1>2, <1>5, <1>6, <2>1, <2>2, <2>3, <2>4, OwnPupKeeps DEF Removing
<1>8. CASE NotThere(Updater)
  <2>1. /\ pup' = pup /\ saving' = saving /\ work'[Updater].at \in {"broken", "failed"}
    BY <1>8, OnErrorLabel, Goroutines DEF NotThere
  <2>2. StageInv'
    BY <1>1, <2>1, FailedStage DEF StageInv
  <2>3. AtOwnPup
    BY <1>1, <1>2, <2>1 DEF AtOwnPup, Pup, Removing
  <2> QED
    BY <1>2, <1>5, <1>6, <2>1, <2>2, <2>3, OwnPupKeeps
<1> QED
  BY <1>1, <1>7, <1>8

\* The updater goes on, with its pup as it is.
LEMMA OwnPupKept ==
  ASSUME IInv, FInv, work[Updater].at \notin Removing \cup {"idle"}, saving[Updater] = NoPup,
         UNCHANGED <<pup, disk, files, queue, saving, purged, unsure, crashes>>,
         work'[Loop] = work[Loop], work'[Updater].job.pup = Pup(Updater),
         work'[Updater].at \notin Removing \cup {"idle"}, StageInv'
  PROVE  FInv'
<1> DEFINE p == Pup(Updater)
<1>1. p \in Pups /\ Real(pup[p]) /\ Real(disk[p]) /\ Real(NoPup)
  BY Busy, NoPupIsReal DEF FInv, RealInv, Removing
<1>2. /\ p \notin unsure => disk[p] = pup[p]
      /\ p \notin unsure /\ disk[p].inst = "ready" => files[p] = disk[p].version
      /\ pup[p].inst = "ready" /\ (crashes = 0 \/ p \notin unsure) => files[p] = pup[p].version
  <2>1. ~Removed(p)
    BY DEF Removed, Removing
  <2> QED
    BY <1>1, <2>1, OwnPup DEF FInv, DiskHasFiles, ReadyHasFiles, Removing
<1>3. AtOwnPup
  BY DEF AtOwnPup, Removing
<1> QED
  BY <1>1, <1>2, <1>3, OwnPupKeeps DEF Removing

\* The updater goes on at l, and keeps its job.
LEMMA OwnPupGoes ==
  ASSUME IInv, FInv, work[Updater].at \notin Removing \cup {"idle"}, saving[Updater] = NoPup,
         UNCHANGED <<pup, disk, files, queue, saving, purged, unsure, crashes>>,
         NEW l \in Labels \ (Removing \cup {"idle"}), Goto(Updater, l),
         \A r, f, v : Staged(Kind(Updater), work[Updater].job.to, work[Updater].at,
                             work[Updater].then, r, f, v)
                        => Staged(Kind(Updater), work[Updater].job.to, l,
                                  work[Updater].then, r, f, snapshot'[Pup(Updater)].version)
  PROVE  FInv'
<1>1. /\ work'[Updater].at = l /\ work'[Updater].job = work[Updater].job
      /\ work'[Updater].then = work[Updater].then /\ work'[Loop] = work[Loop]
  BY GotoEffect, Goroutines, TypeParts DEF IInv
<1>2. StageInv'
  BY <1>1 DEF FInv, StageInv, Pup, Kind
<1> QED
  BY <1>1, <1>2, OwnPupKept DEF Pup

\* The updater applies a patch.
LEMMA OwnPupApplies ==
  ASSUME IInv, FInv, work[Updater].at \notin Removing \cup {"idle"}, saving[Updater] = NoPup,
         NEW ops, NEW l \in Labels, ApplyPatch(Updater, ops, l),
         \A r, f, v : Staged(Kind(Updater), work[Updater].job.to, work[Updater].at,
                             work[Updater].then, r, f, v)
                        => Staged(Kind(Updater), work[Updater].job.to, "await", l, r, f, v)
  PROVE  FInv'
<1> DEFINE w == [work[Updater] EXCEPT !.at = "await", !.then = l]
<1>1. w.at = "await" /\ w.then = l /\ w.job = work[Updater].job
  BY Busy DEF Works, Removing
<1>2. work' = [work EXCEPT ![Updater] = w]
  BY DEF ApplyPatch
<1>3. UNCHANGED <<pup, disk, files, snapshot, queue, saving, purged, unsure, crashes>>
  BY DEF ApplyPatch
<1> HIDE DEF w
<1>4. work'[Updater] = w /\ work'[Loop] = work[Loop]
  BY <1>2, Goroutines, TypeParts DEF IInv
<1>5. StageInv'
  BY <1>1, <1>3, <1>4 DEF FInv, StageInv, Pup, Kind
<1> QED
  BY <1>1, <1>3, <1>4, <1>5, OwnPupKept DEF Pup, Removing
-----------------------------------------------------------------------------
(* The actions of the updater, again.                                        *)

\* What the changes of its pup leave as it was.
LEMMA MineKept ==
  ASSUME IInv, FInv, work[Updater].at # "idle"
  PROVE  /\ Mine \in PupStates /\ Mine = pup[Pup(Updater)]
         /\ Mine # NoPup => Mine.inst # "none"
         /\ \A i : /\ [Mine EXCEPT !.inst = i].inst = i
                   /\ [Mine EXCEPT !.inst = i].version = Mine.version
         /\ \A i, e : /\ [Mine EXCEPT !.inst = i, !.enabled = e].inst = i
                      /\ [Mine EXCEPT !.inst = i, !.enabled = e].version = Mine.version
         /\ \A e : /\ [Mine EXCEPT !.enabled = e].inst = Mine.inst
                   /\ [Mine EXCEPT !.enabled = e].version = Mine.version
         /\ \A i, v : /\ [Mine EXCEPT !.inst = i, !.version = v].inst = i
                      /\ [Mine EXCEPT !.inst = i, !.version = v].version = v
         /\ \A v : /\ [Mine EXCEPT !.version = v].inst = Mine.inst
                   /\ [Mine EXCEPT !.version = v].version = v
<1> DEFINE m == Mine
<1>1. m \in PupStates /\ Mine = pup[Pup(Updater)]
  BY Busy DEF Mine
<1>2. m # NoPup => m.inst # "none"
  BY <1>1, Busy DEF FInv, RealInv, Real
<1> HIDE DEF m
<1>3. \A i, e, v :
        /\ [m EXCEPT !.inst = i].inst = i /\ [m EXCEPT !.inst = i].version = m.version
        /\ [m EXCEPT !.inst = i, !.enabled = e].inst = i
        /\ [m EXCEPT !.inst = i, !.enabled = e].version = m.version
        /\ [m EXCEPT !.enabled = e].inst = m.inst /\ [m EXCEPT !.enabled = e].version = m.version
        /\ [m EXCEPT !.inst = i, !.version = v].inst = i
        /\ [m EXCEPT !.inst = i, !.version = v].version = v
        /\ [m EXCEPT !.version = v].inst = m.inst /\ [m EXCEPT !.version = v].version = v
  BY <1>1 DEF PupStates
<1> QED
  BY <1>1, <1>2, <1>3 DEF m

\* What is known of its pup and its files at the point where the updater is.
LEMMA AtStage ==
  ASSUME IInv, FInv, work[Updater].at # "idle"
  PROVE  LET p == Pup(Updater) IN
         /\ Staged(Kind(Updater), work[Updater].job.to, work[Updater].at, work[Updater].then,
                   Mine, files[p], snapshot[p].version)
         /\ p \in Pups
  BY Busy DEF FInv, StageInv, Mine

LEMMA BeginningsKeep ==
  ASSUME IInv, FInv, \/ installPup \/ uninstallPup \/ purgePup \/ enablePup \/ disablePup
                     \/ upgradePup \/ rollbackPupUpgrade
  PROVE  FInv'
<1>1. /\ work[Updater].at = "start" /\ keepFiles /\ saving[Updater] = NoPup
      /\ {"download", "build", "removeGob", "stop", "rebuild", "snapshot", "failed"}
           \subseteq Labels \ (Removing \cup {"idle"})
      /\ work[Updater].at \notin Removing \cup {"idle"}
  BY DEF installPup, uninstallPup, purgePup, enablePup, disablePup, upgradePup,
         rollbackPupUpgrade, Starting, At, Labels, Removing
<1>2. /\ Mine \in PupStates
      /\ Mine # NoPup => Mine.inst # "none"
      /\ Kind(Updater) = "install" => Mine.inst = "installing"
                                      /\ Mine.version = work[Updater].job.to
  BY <1>1, MineKept, AtStage DEF Staged
<1>3. ASSUME NEW l \in {"failed", "snapshot"}, Goto(Updater, l), UNCHANGED <<pup, saving>>
      PROVE  FInv'
  BY <1>1, <1>3, OwnPupGoes DEF keepFiles, Staged, Between
<1>4. ASSUME NEW i \in {"installing", "uninstalling", "purging", "upgrading"},
             NEW r \in PupStates, r.inst = i, r.version = Mine.version,
             NEW l \in {"download", "build", "removeGob"}, UpdatePup(Updater, r, l),
             l = "download" => /\ i \in {"installing", "upgrading"}
                               /\ Kind(Updater) \in {"install", "rollback"},
             l = "build" => Kind(Updater) = "uninstall",
             l = "removeGob" => i = "purging"
      PROVE  FInv'
  BY <1>1, <1>2, <1>4, OwnPupUpdated DEF Staged, Between
<1>5. ASSUME NEW r \in PupStates, r.inst = Mine.inst, r.version = Mine.version,
             NEW l \in {"build", "stop", "rebuild"}, UpdatePup(Updater, r, l),
             l = "build" => Kind(Updater) = "enable",
             l = "stop" => Kind(Updater) = "disable"
      PROVE  FInv'
  BY <1>1, <1>2, <1>5, OwnPupUpdated DEF Staged, Between
<1> DEFINE m == Mine
<1>6. /\ \A i \in {"installing", "upgrading"} :
           LET r == [m EXCEPT !.inst = i]
           IN  r \in PupStates /\ r.inst = i /\ r.version = m.version
      /\ \A i \in {"uninstalling", "purging"} :
           LET r == [m EXCEPT !.inst = i, !.enabled = FALSE]
           IN  r \in PupStates /\ r.inst = i /\ r.version = m.version
      /\ \A e \in BOOLEAN :
           LET r == [m EXCEPT !.enabled = e]
           IN  r \in PupStates /\ r.inst = m.inst /\ r.version = m.version
  <2>1. m \in PupStates
    BY <1>2
  <2> HIDE DEF m
  <2> QED
    BY <2>1 DEF PupStates, Installation
<1>7. CASE installPup
  BY <1>4, <1>6, <1>7 DEF installPup, Starting
<1>8. CASE uninstallPup
  BY <1>4, <1>6, <1>8 DEF uninstallPup, Starting
<1>9. CASE purgePup
  BY <1>3, <1>4, <1>6, <1>9 DEF purgePup, Starting
<1>10. CASE enablePup
  BY <1>5, <1>6, <1>10 DEF enablePup, Starting
<1>11. CASE disablePup
  BY <1>5, <1>6, <1>11 DEF disablePup, Starting
<1>12. CASE upgradePup
  BY <1>3, <1>5, <1>6, <1>12 DEF upgradePup, Starting
<1>13. CASE rollbackPupUpgrade
  BY <1>3, <1>4, <1>6, <1>13 DEF rollbackPupUpgrade, Starting
<1> QED
  BY <1>7, <1>8, <1>9, <1>10, <1>11, <1>12, <1>13

LEMMA ImportsKeep ==
  ASSUME IInv, FInv, importBlockchainData PROVE FInv'
<1> DEFINE p == Pup(Updater)
<1>1. /\ work[Updater].at = "start" /\ Kind(Updater) = "import" /\ keepFiles
      /\ saving[Updater] = NoPup /\ work[Updater].at \notin Removing \cup {"idle"}
  BY DEF importBlockchainData, Starting, At, Removing
<1>2. /\ Mine \in PupStates /\ work[Updater] \in Works /\ work[Updater].job \in Jobs
      /\ Mine = pup[p] /\ p \in Pups
  BY <1>1, Busy DEF Mine
<1>3. ASSUME NEW seen \in PupStates, NEW l \in {"stop", "import"},
             work' = [work EXCEPT ![Updater].at = l, ![Updater].job.seen = seen]
      PROVE  /\ work'[Updater].at = l /\ work'[Updater].job.pup = p
             /\ work'[Loop] = work[Loop] /\ StageInv'
  <2> DEFINE j == [work[Updater].job EXCEPT !.seen = seen]
             w == [work[Updater] EXCEPT !.at = l, !.job = j]
  <2>1. j.pup = p /\ j.kind = "import"
    BY <1>1, <1>2, JobTarget DEF Pup, Kind
  <2>2. work' = [work EXCEPT ![Updater] = [work[Updater] EXCEPT !.at = l, !.job.seen = seen]]
    BY <1>3
  <2>3. [work[Updater] EXCEPT !.at = l, !.job.seen = seen] = w
    BY <1>2 DEF Works
  <2> HIDE DEF j
  <2>4. w.at = l /\ w.job = j
    BY <1>2 DEF Works
  <2> HIDE DEF w
  <2>5. work'[Updater] = w /\ work'[Loop] = work[Loop]
    BY <2>2, <2>3, Goroutines, TypeParts DEF IInv
  <2> QED
    BY <1>1, <2>1, <2>4, <2>5 DEF StageInv, Staged, Between, Kind
<1>4. CASE Mine # NoPup /\ Mine.enabled
  <2> DEFINE m == [pup[p] EXCEPT !.enabled = FALSE]
  <2>1. m.inst = pup[p].inst /\ m.version = pup[p].version
    BY <1>1, <1>2, MineKept
  <2>2. /\ pup' = [pup EXCEPT ![p] = m] /\ saving' = [saving EXCEPT ![Updater] = m]
        /\ work' = [work EXCEPT ![Updater].at = "stop", ![Updater].job.seen = Mine]
    BY <1>4 DEF importBlockchainData, Mine
  <2>3. /\ pup[p].inst # "none" /\ m # NoPup /\ Real(m)
    BY <1>1, <1>2, <1>4, <2>1, MineKept, PupStateFields DEF Real
  <2> HIDE DEF m
  <2>4. /\ pup'[p] = m /\ \A x \in Pups \ {p} : pup'[x] = pup[x]
        /\ saving'[Updater] = m /\ saving'[Loop] = saving[Loop]
    BY <1>2, <2>2, Goroutines, TypeParts DEF IInv
  <2>5. /\ work'[Updater].at = "stop" /\ work'[Updater].job.pup = p
        /\ work'[Loop] = work[Loop] /\ StageInv'
    BY <1>2, <1>3, <2>2
  <2>6. AtOwnPup
    BY <1>1, <2>4, <2>5 DEF AtOwnPup, keepFiles, Removing
  <2>7. /\ Real(disk[p])
        /\ p \notin unsure /\ disk[p].inst = "ready" => files[p] = disk[p].version
        /\ pup[p].inst = "ready" /\ (crashes = 0 \/ p \notin unsure) => files[p] = pup[p].version
    BY <1>2 DEF FInv, RealInv, DiskHasFiles, ReadyHasFiles
  <2> QED
    BY <1>1, <2>1, <2>3, <2>4, <2>5, <2>6, <2>7, OwnPupKeeps DEF keepFiles
<1>5. CASE ~(Mine # NoPup /\ Mine.enabled)
  <2>1. /\ work' = [work EXCEPT ![Updater].at = "import", ![Updater].job.seen = NoPup]
        /\ UNCHANGED <<pup, saving>>
    BY <1>5 DEF importBlockchainData
  <2>2. /\ work'[Updater].at = "import" /\ work'[Updater].job.pup = p
        /\ work'[Loop] = work[Loop] /\ StageInv'
    BY <1>3, <2>1, PupStateFields
  <2> QED
    BY <1>1, <2>1, <2>2, OwnPupKept DEF keepFiles, Removing
<1> QED
  BY <1>4, <1>5

LEMMA PreparationKeeps ==
  ASSUME IInv, FInv, DownloadPup \/ PreparePup \/ RestoreState PROVE FInv'
<1> DEFINE p == Pup(Updater)
<1>1. /\ work[Updater].at \in {"download", "prepare", "restore"} /\ saving[Updater] = NoPup
      /\ work[Updater].at \notin Removing \cup {"idle"}
      /\ {"restore", "prepare", "build", "ready", "broken"} \subseteq Labels \ (Removing \cup {"idle"})
  BY DEF DownloadPup, PreparePup, RestoreState, At, Labels, Removing
<1>2. /\ Mine \in PupStates /\ Mine = pup[p] /\ p \in Pups
      /\ Staged(Kind(Updater), work[Updater].job.to, work[Updater].at, work[Updater].then,
                Mine, files[p], snapshot[p].version)
  BY <1>1, MineKept, AtStage
<1>3. CASE DownloadPup
  <2>1. /\ work[Updater].at = "download"
        /\ UNCHANGED <<pup, disk, snapshot, queue, saving, purged, unsure, crashes>>
        /\ Mine.inst \in {"installing", "upgrading"}
        /\ Kind(Updater) = "rollback" \/ Mine.version = work[Updater].job.to
    BY <1>2, <1>3 DEF DownloadPup, At, Staged
  <2>2. PICK l \in {"restore", "prepare", "broken"} :
          /\ Goto(Updater, l)
          /\ l = "restore" => Kind(Updater) = "rollback"
          /\ l = "prepare" => Kind(Updater) # "rollback"
          /\ l # "broken" => files' = [files EXCEPT ![p] = Fetched]
          /\ l = "broken" => files' = files \/ files' = [files EXCEPT ![p] = 0]
    BY <1>3 DEF DownloadPup
  <2>3. /\ work'[Updater].at = l /\ work'[Updater].job = work[Updater].job
        /\ work'[Updater].then = work[Updater].then /\ work'[Loop] = work[Loop]
    BY <1>1, <2>2, GotoEffect, Goroutines, TypeParts DEF IInv
  <2>4. /\ \A x \in Pups \ {p} : files'[x] = files[x]
        /\ l # "broken" => files'[p] = Fetched
    BY <1>2, <2>2, TypeParts DEF IInv
  <2>5. StageInv'
    BY <1>2, <2>1, <2>2, <2>3, <2>4 DEF StageInv, Staged, Between, Pup, Kind, Fetched
  <2>6. AtOwnPup
    BY <1>1, <2>1, <2>2, <2>3, <2>4 DEF AtOwnPup, Pup
  <2>7. /\ Real(pup[p]) /\ Real(disk[p]) /\ Real(NoPup)
        /\ p \notin unsure => disk[p] = pup[p]
    BY <1>1, <1>2, <2>1, OwnPup, NoPupIsReal DEF FInv, RealInv, Removed
  <2> QED
    BY <1>1, <1>2, <2>1, <2>2, <2>3, <2>5, <2>6, <2>7, OwnPupKeeps
<1>4. CASE PreparePup
  <2>1. work[Updater].at = "prepare" /\ keepFiles
        /\ Mine.inst \in {"installing", "upgrading"} /\ files[p] = Mine.version
    BY <1>2, <1>4 DEF PreparePup, At, Staged, Between
  <2>2. CASE /\ Kind(Updater) = "install"
             /\ UpdatePup(Updater, [Mine EXCEPT !.enabled = TRUE], "build")
    <3> DEFINE r == [Mine EXCEPT !.enabled = TRUE]
    <3>1. r \in PupStates /\ r.inst = Mine.inst /\ r.version = Mine.version
      BY <1>1, MineKept, MineChanges
    <3>2. UpdatePup(Updater, r, "build")
      BY <2>2
    <3> HIDE DEF r
    <3> QED
      BY <1>1, <2>1, <2>2, <3>1, <3>2, OwnPupUpdated DEF Staged, Between
  <2>3. CASE /\ Kind(Updater) = "upgrade"
             /\ work' = [work EXCEPT ![Updater].at = "build", ![Updater].state = Mine]
             /\ UNCHANGED <<pup, saving>>
    <3> DEFINE w == [work[Updater] EXCEPT !.at = "build", !.state = Mine]
    <3>1. w.at = "build" /\ w.job = work[Updater].job
      BY <1>1, Busy DEF Works
    <3>2. work' = [work EXCEPT ![Updater] = w]
      BY <2>3
    <3> HIDE DEF w
    <3>3. work'[Updater] = w /\ work'[Loop] = work[Loop]
      BY <3>2, Goroutines, TypeParts DEF IInv
    <3>4. StageInv'
      BY <1>2, <2>1, <2>3, <3>1, <3>3 DEF StageInv, Staged, Between, keepFiles, Pup, Kind
    <3> QED
      BY <1>1, <2>1, <2>3, <3>1, <3>3, <3>4, OwnPupKept DEF keepFiles, Removing, Pup
  <2>4. CASE /\ \/ Goto(Updater, "ready") \/ Goto(Updater, "broken")
             /\ UNCHANGED <<pup, saving>>
    <3>1. PICK l \in {"ready", "broken"} : Goto(Updater, l)
      BY <2>4
    <3> QED
      BY <1>1, <2>1, <2>4, <3>1, OwnPupGoes DEF Staged, Between, keepFiles
  <2> QED
    BY <1>4, <2>2, <2>3, <2>4 DEF PreparePup
<1>5. CASE RestoreState
  <2> DEFINE v == snapshot[p].version
             r == [Mine EXCEPT !.version = v]
  <2>1. /\ work[Updater].at = "restore" /\ keepFiles
        /\ Mine.inst \in {"installing", "upgrading"} /\ files[p] = v
        /\ UpdatePup(Updater, r, "prepare")
    BY <1>2, <1>5 DEF RestoreState, At, Staged
  <2>2. r.inst = Mine.inst /\ r.version = v
    BY <1>1, MineKept
  <2>3. r \in PupStates
    <3>1. v \in VersionsOrNone
      BY <1>2, TypeParts DEF IInv, Snapshots, VersionsOrNone
    <3> QED
      BY <1>1, <3>1, MineChanges
  <2> HIDE DEF r
  <2> QED
    BY <1>1, <2>1, <2>2, <2>3, OwnPupUpdated DEF Staged, Between
<1> QED
  BY <1>3, <1>4, <1>5

LEMMA InterludesKeep ==
  ASSUME IInv, FInv, StopContainer \/ ImportData \/ CreateSnapshot \/ DeleteSnapshot PROVE FInv'
<1>1. /\ work[Updater].at \in {"stop", "import", "snapshot", "dropSnapshot"}
      /\ {"import", "build", "failed", "done", "manifest"} \subseteq Labels \ (Removing \cup {"idle"})
      /\ saving[Updater] = NoPup /\ work[Updater].at \notin Removing \cup {"idle"}
      /\ work[Updater].at \in {"stop", "import"} => Kind(Updater) \in {"disable", "import"}
  BY AtStage DEF Staged, StopContainer, ImportData, CreateSnapshot, DeleteSnapshot, At,
                 Labels, Removing
<1>2. ASSUME NEW l \in {"import", "failed", "done", "manifest", "build"},
             l = "build" => Kind(Updater) \notin {"install", "upgrade"},
             l = "import" => Kind(Updater) = "import", Goto(Updater, l),
             UNCHANGED <<pup, disk, files, queue, saving, purged, unsure, crashes>>
      PROVE  FInv'
  BY <1>1, <1>2, OwnPupGoes DEF Staged, Between
<1>3. ASSUME keepFiles, Kind(Updater) \in {"disable", "import"}, NEW l \in {"build", "failed"},
             UpdatePup(Updater, [Mine EXCEPT !.enabled = TRUE], l)
      PROVE  FInv'
  <2> DEFINE r == [Mine EXCEPT !.enabled = TRUE]
  <2>1. /\ r \in PupStates /\ r.inst = Mine.inst /\ r.version = Mine.version
        /\ Mine # NoPup => r.inst # "none"
    BY <1>1, MineKept, MineChanges
  <2>2. UpdatePup(Updater, r, l)
    BY <1>3
  <2> HIDE DEF r
  <2> QED
    BY <1>1, <1>3, <2>1, <2>2, OwnPupUpdated DEF Staged, Between
<1>4. CASE StopContainer
  BY <1>1, <1>2, <1>3, <1>4 DEF StopContainer, At, keepFiles
<1>5. CASE ImportData
  BY <1>1, <1>2, <1>3, <1>5 DEF ImportData, At, keepFiles
<1>6. CASE CreateSnapshot \/ DeleteSnapshot
  BY <1>2, <1>6 DEF CreateSnapshot, DeleteSnapshot
<1> QED
  BY <1>4, <1>5, <1>6

LEMMA EndingsKeep ==
  ASSUME IInv, FInv, UpdateVersion \/ MarkReady \/ MarkUninstalled \/ markPupBroken
  PROVE  FInv'
<1> DEFINE p == Pup(Updater)
<1>1. /\ work[Updater].at \in {"manifest", "ready", "gone", "broken"}
      /\ {"download", "build", "relink", "done", "failed", "broken"}
           \subseteq Labels \ (Removing \cup {"idle"})
      /\ saving[Updater] = NoPup /\ work[Updater].at \notin Removing \cup {"idle"} /\ keepFiles
  BY DEF UpdateVersion, MarkReady, MarkUninstalled, markPupBroken, At, Labels, Removing
<1>2. /\ Mine = pup[p] /\ p \in Pups /\ work[Updater].job.to \in VersionsOrNone
      /\ Staged(Kind(Updater), work[Updater].job.to, work[Updater].at, work[Updater].then,
                Mine, files[p], snapshot[p].version)
  BY <1>1, MineKept, AtStage, Busy, JobFields
<1>3. CASE UpdateVersion
  <2>1. CASE Goto(Updater, "broken") /\ UNCHANGED <<pup, saving>>
    BY <1>1, <2>1, OwnPupGoes, FailedStage DEF keepFiles
  <2>2. CASE UpdatePup(Updater,
                [Mine EXCEPT !.inst = "upgrading", !.version = work[Updater].job.to], "download")
    <3> DEFINE r == [Mine EXCEPT !.inst = "upgrading", !.version = work[Updater].job.to]
    <3>1. r.inst = "upgrading" /\ r.version = work[Updater].job.to
      BY <1>1, MineKept
    <3>2. UpdatePup(Updater, r, "download")
      BY <2>2
    <3>3. r \in PupStates
      BY <1>1, <1>2, MineChanges
    <3> HIDE DEF r
    <3> QED
      BY <1>1, <3>1, <3>2, <3>3, OwnPupUpdated DEF Staged, Between
  <2> QED
    BY <1>3, <2>1, <2>2 DEF UpdateVersion
<1>4. CASE MarkReady
  <2> DEFINE e == Mine.enabled \/ (Kind(Updater) # "install" /\ WasEnabled)
             l == CASE Kind(Updater) = "rollback" -> "build"
                    [] Kind(Updater) = "upgrade" /\ WasEnabled -> "relink"
                    [] OTHER -> "done"
             r == [Mine EXCEPT !.inst = "ready", !.enabled = e]
  <2>1. e \in BOOLEAN /\ l \in {"build", "relink", "done"}
        /\ (l = "build" => Kind(Updater) = "rollback")
    OBVIOUS
  <2>2. UpdatePup(Updater, r, l)
    <3>1. [Mine EXCEPT !.inst = "ready",
                       !.enabled = @ \/ (Kind(Updater) # "install" /\ WasEnabled)] = r
      OBVIOUS
    <3> QED
      BY <1>4, <3>1, Zenon DEF MarkReady
  <2> HIDE DEF e, l
  <2>3. r.inst = "ready" /\ r.version = Mine.version
    BY <1>1, MineKept
  <2>4. r \in PupStates
    BY <1>1, <2>1, MineChanges
  <2>5. files[p] = Mine.version
    BY <1>2, <1>4 DEF MarkReady, At, Staged, Between
  <2> HIDE DEF r
  <2> QED
    BY <1>1, <2>1, <2>2, <2>3, <2>4, <2>5, OwnPupUpdated DEF Staged, Between
<1>5. CASE MarkUninstalled \/ markPupBroken
  <2>1. PICK i \in {"uninstalled", "broken"}, l \in {"done", "failed"} :
          UpdatePup(Updater, [Mine EXCEPT !.inst = i], l)
    BY <1>5 DEF MarkUninstalled, markPupBroken
  <2> DEFINE r == [Mine EXCEPT !.inst = i]
  <2>2. r \in PupStates /\ r.inst = i
    BY <1>1, MineKept, MineChanges
  <2>3. UpdatePup(Updater, r, l)
    BY <2>1
  <2> HIDE DEF r
  <2> QED
    BY <1>1, <2>2, <2>3, OwnPupUpdated DEF Staged, Between
<1> QED
  BY <1>3, <1>4, <1>5

\* A purge removes the saved pup, then the files, then the pup.
LEMMA RemovalsKeep ==
  ASSUME IInv, FInv, RemoveGob \/ RemoveSource \/ PurgePup PROVE FInv'
<1> DEFINE p == Pup(Updater)
<1>1. /\ work[Updater].at \in {"removeGob", "removeSource", "purge"} /\ saving[Updater] = NoPup
      /\ {"removeSource", "purge", "done"} \subseteq Labels
      /\ UNCHANGED <<snapshot, queue, saving, crashes>>
  BY DEF RemoveGob, RemoveSource, PurgePup, At, Labels
<1>2. /\ p \in Pups /\ pup[p].inst = "purging" /\ Real(pup[p]) /\ Real(disk[p]) /\ Real(NoPup)
      /\ NoPup.inst # "ready" /\ NoPup.inst = "none"
  BY <1>1, AtStage, NoPupIsReal, PupStateFields DEF Staged, Mine, FInv, RealInv
<1>3. PICK l \in {"removeSource", "purge", "done"} :
        /\ Goto(Updater, l)
        /\ \/ l = "removeSource" /\ RemoveGob
           \/ l = "purge" /\ RemoveSource
           \/ l = "done" /\ PurgePup
  BY DEF RemoveGob, RemoveSource, PurgePup
<1>4. /\ work'[Updater].at = l /\ work'[Updater].job = work[Updater].job
      /\ work'[Updater].then = work[Updater].then /\ work'[Loop] = work[Loop]
  BY <1>1, <1>3, GotoEffect, Goroutines, TypeParts DEF IInv
<1>5. CASE RemoveGob
  <2>1. /\ l = "removeSource" /\ work[Updater].at = "removeGob" /\ pup' = pup /\ files' = files
        /\ purged' = purged
        /\ \/ disk' = [disk EXCEPT ![p] = NoPup] /\ unsure' = unsure
           \/ disk' = disk /\ unsure' = unsure \cup {p}
    BY <1>3, <1>5 DEF RemoveGob, RemoveSource, PurgePup, At
  <2>2. /\ \A x \in Pups \ {p} : disk'[x] = disk[x]
        /\ disk'[p] = NoPup \/ (p \in unsure' /\ disk'[p] = disk[p])
    BY <1>2, <2>1, TypeParts DEF IInv
  <2>3. StageInv'
    BY <1>2, <1>4, <2>1 DEF StageInv, Staged, Between, Pup
  <2>4. AtOwnPup
    BY <1>1, <1>4, <2>1, <2>2 DEF AtOwnPup, Pup
  <2> QED
    BY <1>1, <1>2, <1>4, <2>1, <2>2, <2>3, <2>4, OwnPupKeeps
<1>6. CASE RemoveSource
  <2>1. /\ l = "purge" /\ work[Updater].at = "removeSource"
        /\ UNCHANGED <<pup, disk, purged, unsure>>
        /\ files' = files \/ files' = [files EXCEPT ![p] = 0]
    BY <1>3, <1>6 DEF RemoveGob, RemoveSource, PurgePup, At
  <2>2. \A x \in Pups \ {p} : files'[x] = files[x]
    BY <2>1, TypeParts DEF IInv
  <2>3. StageInv'
    BY <1>2, <1>4, <2>1 DEF StageInv, Staged, Between, Pup
  <2>4. AtOwnPup
    BY <1>1, <1>4, <2>1, <2>2 DEF AtOwnPup, Pup
  <2>5. p \notin unsure => disk[p] = NoPup
    BY <1>1, <2>1, OwnPup DEF Removed
  <2> QED
    BY <1>1, <1>2, <1>4, <2>1, <2>2, <2>3, <2>4, <2>5, OwnPupKeeps
<1>7. CASE PurgePup
  <2>1. /\ l = "done" /\ work[Updater].at = "purge" /\ UNCHANGED <<disk, files, unsure>>
        /\ pup' = [pup EXCEPT ![p] = NoPup] /\ purged' = purged \cup {p}
    BY <1>3, <1>7 DEF RemoveGob, RemoveSource, PurgePup, At
  <2>2. pup'[p] = NoPup /\ \A x \in Pups \ {p} : pup'[x] = pup[x]
    BY <1>2, <2>1, TypeParts DEF IInv
  <2>3. StageInv'
    BY <1>4, <2>1 DEF StageInv, Staged, Between
  <2>4. AtOwnPup
    BY <1>1, <1>4, <2>1, <2>2 DEF AtOwnPup, Pup
  <2>5. p \notin unsure => disk[p] = NoPup
    BY <1>1, <2>1, OwnPup DEF Removed
  <2> QED
    BY <1>1, <1>2, <1>4, <2>1, <2>2, <2>3, <2>4, <2>5, OwnPupKeeps
<1> QED
  BY <1>5, <1>6, <1>7

LEMMA BuildsKeep ==
  ASSUME IInv, FInv, BuildPup \/ RebuildOnly \/ RemoveFromConfig \/ AddBack PROVE FInv'
<1>1. /\ work[Updater].at \in {"build", "rebuild", "unlink", "relink"} /\ saving[Updater] = NoPup
      /\ work[Updater].at \notin Removing \cup {"idle"}
      /\ {"ready", "unlink", "gone", "dropSnapshot", "done", "snapshot"} \subseteq Labels
  BY DEF BuildPup, RebuildOnly, RemoveFromConfig, AddBack, At, Removing, Labels
<1>2. CASE BuildPup
  <2>1. PICK l \in {"ready", "unlink", "gone", "dropSnapshot", "done"} :
          /\ \E ops : ApplyPatch(Updater, ops, l)
          /\ l \in {"ready", "unlink"} => Kind(Updater) \in {"install", "upgrade"}
    <3> DEFINE l == CASE Kind(Updater) = "install" -> "ready"
                      [] Kind(Updater) = "upgrade" -> IF Seen.enabled THEN "unlink" ELSE "ready"
                      [] Kind(Updater) = "uninstall" -> "gone"
                      [] Kind(Updater) = "rollback" -> "dropSnapshot"
                      [] OTHER -> "done"
    <3>1. l \in {"ready", "unlink", "gone", "dropSnapshot", "done"}
          /\ (l \in {"ready", "unlink"} => Kind(Updater) \in {"install", "upgrade"})
      OBVIOUS
    <3>2. \E ops : ApplyPatch(Updater, ops, l)
      BY <1>2 DEF BuildPup
    <3> HIDE DEF l
    <3> QED
      BY <3>1, <3>2
  <2>2. work[Updater].at = "build"
    BY <1>2 DEF BuildPup, At
  <2>3. PICK ops : ApplyPatch(Updater, ops, l)
    BY <2>1
  <2> QED
    BY <1>1, <2>1, <2>2, <2>3, OwnPupApplies DEF Staged, Between
<1>3. CASE RebuildOnly
  BY <1>1, <1>3, OwnPupApplies DEF RebuildOnly, Staged, Between
<1>4. CASE RemoveFromConfig
  BY <1>1, <1>4, OwnPupApplies DEF RemoveFromConfig, At, Staged, Between
<1>5. CASE AddBack
  BY <1>1, <1>5, OwnPupApplies DEF AddBack, At, Staged, Between
<1> QED
  BY <1>2, <1>3, <1>4, <1>5
-----------------------------------------------------------------------------
(* Steps of the main loop, again.                                            *)

AtLoop ==
  /\ work[Loop].at # "adopt" /\ work'[Loop].at # "adopt"
  /\ work'[Loop].at = "send" => work'[Loop].job.kind # "install"
  /\ saving[Loop] # NoPup => Pup(Loop) \in unsure'
  /\ work'[Updater] = work[Updater] /\ saving'[Updater] = saving[Updater]
  /\ UNCHANGED <<disk, files, snapshot, queue, purged, crashes>>
  /\ unsure \subseteq unsure'

\* The main loop puts its pup in state m, with the version and the installation
\* state it had, and starts to save it; or it goes on without a save.
LEMMA LoopKeeps ==
  ASSUME IInv, FInv, AtLoop, CrossInv', NEW q \in Pups, NEW m \in PupStates,
         \/ pup' = pup /\ saving'[Loop] = NoPup
         \/ /\ work'[Loop].at # "idle" /\ work'[Loop].job.pup = q /\ pup[q] # NoPup
            /\ m.inst = pup[q].inst /\ m.version = pup[q].version
            /\ pup' = [pup EXCEPT ![q] = m] /\ saving'[Loop] = m
  PROVE  FInv'
<1>1. /\ pup \in [Pups -> PupStates] /\ NoPup.inst = "none"
      /\ \A i \in DOMAIN queue : queue[i] \in Jobs /\ queue[i].pup \in Pups
  BY JobFields, PupStateFields, TypeParts DEF IInv
<1>2. /\ \A x \in Pups : /\ pup'[x].inst = pup[x].inst /\ pup'[x].version = pup[x].version
                         /\ pup'[x] = NoPup => pup[x] = NoPup
                         /\ Real(pup'[x])
      /\ Real(saving'[Loop])
      /\ \A x \in Pups : pup'[x] # pup[x] => /\ x = q /\ saving'[Loop] = pup'[x]
                                             /\ saving'[Loop] # NoPup
      /\ saving'[Loop] # NoPup => /\ work'[Loop].at # "idle" /\ work'[Loop].job.pup = q
                                  /\ saving'[Loop] = pup'[q]
  <2>1. CASE pup' = pup /\ saving'[Loop] = NoPup
    BY <1>1, <2>1, NoPupIsReal DEF FInv, RealInv
  <2>2. CASE /\ work'[Loop].at # "idle" /\ work'[Loop].job.pup = q /\ pup[q] # NoPup
             /\ m.inst = pup[q].inst /\ m.version = pup[q].version
             /\ pup' = [pup EXCEPT ![q] = m] /\ saving'[Loop] = m
    <3>1. m # NoPup /\ Real(m)
      BY <1>1, <2>2, NoPupIsReal DEF FInv, RealInv, Real
    <3> QED
      BY <1>1, <2>2, <3>1 DEF FInv, RealInv
  <2> QED
    BY <2>1, <2>2
<1>3. /\ Pup(Updater)' = Pup(Updater) /\ Kind(Updater)' = Kind(Updater)
      /\ \A x : On(Updater, x)' <=> On(Updater, x)
      /\ \A x : Removed(x)' <=> Removed(x)
      /\ \A x : ~Adopting(x) /\ ~Adopting(x)'
  BY DEF AtLoop, Pup, Kind, On, Removed, Adopting
<1>4. RealInv'
  BY <1>2, Goroutines DEF FInv, RealInv, AtLoop
<1>5. KnownInv'
  BY <1>1, <1>2, <1>3 DEF FInv, KnownInv, AtLoop
<1>6. InstallFirst'
  <2>1. \A i \in DOMAIN queue : Adopted(queue[i]) => Adopted(queue[i])'
    BY <1>1, <1>2 DEF Adopted, AtLoop
  <2> QED
    BY <1>3, <2>1 DEF FInv, InstallFirst, AtLoop, Kind
<1>7. StageInv'
  <2>1. CASE work[Updater].at = "idle"
    BY <2>1 DEF StageInv, Staged, Between, AtLoop
  <2>2. CASE work[Updater].at # "idle"
    BY <1>2, <1>3, <2>2, Busy DEF FInv, StageInv, Staged, AtLoop, Kind
  <2> QED
    BY <2>1, <2>2
<1>8. \A x \in Pups \ unsure' :
        pup'[x] # pup[x] => /\ ~On(Updater, x) /\ x = q
                            /\ saving'[Loop] = pup'[x] /\ saving'[Loop] # NoPup
  BY <1>2, <1>3 DEF CrossInv, On, Pup, AtLoop
<1>9. SavedInv'
  <2> SUFFICES ASSUME NEW x \in Pups \ unsure'
               PROVE  IF Removed(x) THEN disk[x] = NoPup
                      ELSE disk[x] = pup'[x] \/ BeingSaved(x)'
    BY <1>3 DEF SavedInv, AtLoop
  <2>1. x \in Pups \ unsure
    BY DEF AtLoop
  <2>2. IF Removed(x) THEN disk[x] = NoPup ELSE disk[x] = pup[x] \/ BeingSaved(x)
    BY <1>3, <2>1 DEF FInv, SavedInv
  <2>3. CASE pup'[x] # pup[x]
    <3>1. BeingSaved(x)'
      BY <1>2, <2>3, Goroutines DEF BeingSaved, Pup
    <3> QED
      BY <2>2, <3>1
  <2>4. CASE pup'[x] = pup[x]
    <3>1. BeingSaved(x) => BeingSaved(x)'
      BY <1>3, <2>4, Goroutines DEF BeingSaved, AtLoop
    <3> QED
      BY <2>2, <2>4, <3>1
  <2> QED
    BY <2>3, <2>4
<1>10. FreshInv'
  <2>1. ASSUME NEW a \in Patchers, saving'[a] # NoPup, Pup(a)' \notin unsure'
        PROVE  saving'[a] = pup'[Pup(a)']
    <3>1. CASE a = Loop
      BY <1>2, <2>1, <3>1 DEF Pup
    <3>2. CASE a = Updater
      <4>1. saving[Updater] # NoPup /\ Pup(Updater) \notin unsure /\ Pup(Updater) \notin unsure'
        BY <1>3, <2>1, <3>2 DEF AtLoop
      <4>2. work[Updater].at # "idle"
        BY <4>1, Goroutines DEF IInv, JobInv, Resting
      <4>3. saving[Updater] = pup[Pup(Updater)] /\ Pup(Updater) \in Pups
        BY <1>3, <4>1, <4>2, Goroutines, Busy DEF FInv, FreshInv
      <4>4. pup'[Pup(Updater)] = pup[Pup(Updater)]
        BY <1>8, <4>1, <4>2, <4>3 DEF On
      <4> QED
        BY <1>3, <3>2, <4>3, <4>4 DEF AtLoop
    <3> QED
      BY <3>1, <3>2, Goroutines
  <2> QED
    BY <2>1 DEF FreshInv, FInv, AtLoop
<1>11. DiskHasFiles' /\ ReadyHasFiles'
  BY <1>2 DEF FInv, DiskHasFiles, ReadyHasFiles, AtLoop
<1> QED
  BY <1>4, <1>5, <1>6, <1>7, <1>9, <1>10, <1>11 DEF FInv

LEMMA DoingJob ==
  ASSUME NEW kind, NEW p, NEW v, NEW r, NEW l
  PROVE  LET w == Doing(kind, p, v, r, l)
         IN  /\ w.at = l /\ w.state = r /\ w.then = "idle"
             /\ w.job.kind = kind /\ w.job.pup = p /\ w.job.to = v
<1> DEFINE none == NoPup
           j == [kind |-> kind, pup |-> p, to |-> v, seen |-> none]
<1>1. j.kind = kind /\ j.pup = p /\ j.to = v
  OBVIOUS
<1>2. Doing(kind, p, v, r, l) = [NoWork EXCEPT !.at = l, !.state = r, !.job = j]
  BY DEF Doing
<1>3. NoWork = [at |-> "idle", job |-> <<>>, state |-> none, then |-> "idle"]
  BY DEF NoWork
<1> HIDE DEF j, none
<1> QED
  BY <1>1, <1>2, <1>3

\* A pup the main loop begins to save while the updater is at it is unsure.
LEMMA DispatchesKeep ==
  ASSUME IInv, FInv, NEW kind \in AllKinds, NEW p \in Pups, NEW v,
         \/ Dispatch(kind, p, v) /\ kind \notin {"install", "config", "touch"}
         \/ DirectUpdate(kind, p) /\ kind \in {"config", "touch"}
  PROVE  FInv'
<1>1. /\ work[Loop].at = "idle" /\ pup[p] # NoPup
      /\ UNCHANGED <<disk, files, snapshot, queue, purged, crashes>>
      /\ unsure \subseteq unsure'
  BY DEF Dispatch, DirectUpdate, Request, Crossed
<1>2. saving[Loop] = NoPup /\ pup[p] \in PupStates /\ work \in [Patchers -> Works]
      /\ saving \in [Patchers -> PupStates] /\ pup \in [Pups -> PupStates]
  BY <1>1, Goroutines, TypeParts DEF IInv, JobInv, Resting
<1>3. ASSUME NEW m \in PupStates, NEW l \in {"send", "done", "config"}, NEW x,
             m.inst = pup[p].inst, m.version = pup[p].version,
             work' = [work EXCEPT ![Loop] = Doing(kind, p, x, m, l)],
             l = "config" => kind = "config", l = "send" => kind # "install",
             \/ pup' = pup /\ saving' = saving /\ unsure' = unsure /\ kind \notin Savers
             \/ /\ pup' = [pup EXCEPT ![p] = m] /\ saving' = [saving EXCEPT ![Loop] = m]
                /\ unsure' = unsure \cup Crossed(p) /\ kind \in Savers
      PROVE  FInv'
  <2> DEFINE w == Doing(kind, p, x, m, l)
  <2>1. w.at = l /\ w.then = "idle" /\ w.job.kind = kind /\ w.job.pup = p
    BY DoingJob
  <2>2. work' = [work EXCEPT ![Loop] = w]
    BY <1>3
  <2> HIDE DEF w
  <2>3. work'[Loop] = w /\ work'[Updater] = work[Updater] /\ saving'[Updater] = saving[Updater]
    BY <1>2, <1>3, <2>2, Goroutines
  <2>4. AtLoop
    BY <1>1, <1>2, <1>3, <2>1, <2>3 DEF AtLoop
  <2>5. \/ pup' = pup /\ saving'[Loop] = NoPup
        \/ pup' = [pup EXCEPT ![p] = m] /\ saving'[Loop] = m /\ kind \in Savers
    BY <1>2, <1>3, Goroutines
  <2>6. CrossInv'
    <3>1. /\ work'[Loop].then \notin {"send", "config"}
          /\ work'[Loop].at = "config" => Kind(Loop)' \in Savers
          /\ saving'[Loop] # NoPup => Kind(Loop)' \in Savers
      BY <1>3, <2>1, <2>3, <2>5 DEF Kind, Savers
    <3>2. ASSUME work[Updater].at # "idle", p = Pup(Updater), kind \in Savers
          PROVE  Pup(Updater) \in unsure'
      BY <1>3, <3>2 DEF Crossed
    <3> QED
      BY <2>1, <2>3, <3>1, <3>2 DEF CrossInv, On, Pup, Kind
  <2> QED
    BY <1>1, <1>3, <2>1, <2>3, <2>4, <2>5, <2>6, LoopKeeps
<1>4. CASE Dispatch(kind, p, v) /\ kind \in {"enable", "disable"}
  <2> DEFINE m == [pup[p] EXCEPT !.enabled = (kind = "enable")]
  <2>1. m \in PupStates /\ m.inst = pup[p].inst /\ m.version = pup[p].version
    BY <1>2 DEF PupStates
  <2>2. /\ pup' = [pup EXCEPT ![p] = m] /\ saving' = [saving EXCEPT ![Loop] = m]
        /\ work' = [work EXCEPT ![Loop] = Doing(kind, p, v, m, "send")]
        /\ unsure' = unsure \cup Crossed(p)
    BY <1>4 DEF Dispatch
  <2> HIDE DEF m
  <2> QED
    BY <1>3, <1>4, <2>1, <2>2 DEF Savers
<1>5. CASE Dispatch(kind, p, v) /\ kind \notin {"install", "config", "touch", "enable", "disable"}
  <2>1. /\ work' = [work EXCEPT ![Loop] = Doing(kind, p, v, pup[p], "send")]
        /\ UNCHANGED <<pup, saving, unsure>>
    BY <1>5 DEF Dispatch
  <2> QED
    BY <1>2, <1>3, <1>5, <2>1 DEF Savers
<1>6. CASE DirectUpdate(kind, p) /\ kind \in {"config", "touch"}
  <2> DEFINE l == IF kind = "touch" THEN "done" ELSE "config"
  <2>1. /\ saving' = [saving EXCEPT ![Loop] = pup[p]] /\ pup' = pup
        /\ work' = [work EXCEPT ![Loop] = Doing(kind, p, 0, pup[p], l)]
        /\ unsure' = unsure \cup Crossed(p)
    BY <1>6 DEF DirectUpdate
  <2>2. pup' = [pup EXCEPT ![p] = pup[p]]
    BY <1>2, <2>1
  <2>3. l \in {"done", "config"} /\ (l = "config" => kind = "config")
    BY <1>6
  <2> HIDE DEF l
  <2> QED
    BY <1>2, <1>3, <1>6, <2>1, <2>2, <2>3 DEF Savers
<1> QED
  BY <1>4, <1>5, <1>6
LEMMA AdoptionsKeep ==
  ASSUME IInv, FInv, NEW p \in Pups, NEW v \in Versions, AdoptPup(p, v) PROVE FInv'
<1> DEFINE r == [inst |-> "installing", enabled |-> FALSE, version |-> v]
           w == Doing("install", p, v, r, "adopt")
<1>1. /\ work[Loop].at = "idle" /\ pup[p] = NoPup /\ disk[p] = NoPup /\ p \notin purged
      /\ saving' = [saving EXCEPT ![Loop] = r] /\ work' = [work EXCEPT ![Loop] = w]
      /\ UNCHANGED <<pup, disk, files, snapshot, queue, purged, unsure, crashes>>
  BY DEF AdoptPup, Request
<1>2. r.inst = "installing" /\ r.version = v /\ r \in PupStates
  BY DEF PupStates, Installation
<1> HIDE DEF r
<1>3. /\ w.at = "adopt" /\ w.state = r /\ w.then = "idle"
      /\ w.job.kind = "install" /\ w.job.pup = p /\ w.job.to = v
  BY DoingJob
<1> HIDE DEF w
<1>4. /\ work'[Loop] = w /\ work'[Updater] = work[Updater]
      /\ saving'[Loop] = r /\ saving'[Updater] = saving[Updater] /\ saving[Loop] = NoPup
      /\ r # NoPup /\ Real(r)
  BY <1>1, <1>2, Goroutines, NoPupIsReal, TypeParts DEF IInv, JobInv, Resting
<1>5. /\ Pup(Updater)' = Pup(Updater) /\ Kind(Updater)' = Kind(Updater)
      /\ Pup(Loop)' = p /\ Kind(Loop)' = "install"
      /\ \A x : On(Updater, x)' <=> On(Updater, x)
      /\ \A x : Removed(x)' <=> Removed(x)
      /\ \A x : ~Adopting(x) /\ (Adopting(x)' <=> x = p)
  BY <1>1, <1>3, <1>4 DEF Pup, Kind, On, Removed, Adopting
<1>6. RealInv'
  BY <1>1, <1>4, Goroutines DEF FInv, RealInv
<1>7. KnownInv'
  BY <1>1, <1>2, <1>3, <1>4, <1>5 DEF FInv, KnownInv
<1>8. InstallFirst'
  BY <1>1, <1>3, <1>4, <1>5 DEF FInv, InstallFirst, Adopted
<1>9. StageInv'
  BY <1>1, <1>4, <1>5 DEF FInv, StageInv
<1>10. CrossInv'
  BY <1>1, <1>3, <1>4, <1>5 DEF FInv, CrossInv, On, Savers
<1>11. SavedInv'
  <2> SUFFICES ASSUME NEW x \in Pups \ unsure, x # p
               PROVE  IF Removed(x) THEN disk[x] = NoPup
                      ELSE disk[x] = pup[x] \/ BeingSaved(x)'
    BY <1>1, <1>4, <1>5 DEF SavedInv
  <2>1. BeingSaved(x) => BeingSaved(x)'
    BY <1>1, <1>4, <1>5, Goroutines DEF BeingSaved
  <2> QED
    BY <1>5, <2>1 DEF FInv, SavedInv
<1>12. FreshInv'
  <2>1. ASSUME NEW a \in Patchers, saving'[a] # NoPup, Pup(a)' \notin unsure', ~Adopting(Pup(a))'
        PROVE  saving'[a] = pup'[Pup(a)']
    <3>1. a = Updater
      BY <1>5, <2>1, Goroutines
    <3> QED
      BY <1>1, <1>4, <1>5, <2>1, <3>1 DEF FInv, FreshInv
  <2> QED
    BY <1>1, <1>4, <2>1 DEF FInv, FreshInv
<1>13. DiskHasFiles' /\ ReadyHasFiles'
  BY <1>1 DEF FInv, DiskHasFiles, ReadyHasFiles
<1> QED
  BY <1>6, <1>7, <1>8, <1>9, <1>10, <1>11, <1>12, <1>13 DEF FInv

\* The pup that is put in memory has been saved.
LEMMA IndexingKeeps ==
  ASSUME IInv, FInv, indexPup PROVE FInv'
<1> DEFINE p == Pup(Loop)
           r == work[Loop].state
<1>1. /\ work[Loop].at = "adopt" /\ saving[Loop] = NoPup /\ Goto(Loop, "send")
      /\ pup' = [pup EXCEPT ![p] = r] /\ "send" \in Labels
      /\ UNCHANGED <<disk, files, snapshot, queue, saving, purged, unsure, crashes>>
  BY DEF indexPup, At, Labels
<1>2. /\ p \in Pups /\ pup[p] = NoPup /\ p \notin purged /\ Kind(Loop) = "install"
      /\ r \in PupStates /\ r.inst = "installing" /\ r.version = work[Loop].job.to
      /\ Real(r) /\ r # NoPup
  BY <1>1, LoopBusy, NoPupIsReal DEF IInv, AdoptInv, FInv, KnownInv
<1>3. /\ work'[Loop].at = "send" /\ work'[Loop].job = work[Loop].job
      /\ work'[Loop].then = work[Loop].then /\ work'[Updater] = work[Updater]
  BY <1>1, GotoEffect, Goroutines, TypeParts DEF IInv
<1>4. pup'[p] = r /\ \A x \in Pups \ {p} : pup'[x] = pup[x]
  BY <1>1, <1>2, TypeParts DEF IInv
<1>5. /\ ~On(Updater, p)
      /\ \A i \in DOMAIN queue : queue[i] \in Jobs /\ queue[i].pup \in Pups /\ queue[i].pup # p
  BY <1>2, JobFields, TypeParts DEF IInv, FInv, KnownInv
<1>6. /\ Pup(Updater)' = Pup(Updater) /\ Kind(Updater)' = Kind(Updater)
      /\ Pup(Loop)' = p /\ Kind(Loop)' = Kind(Loop)
      /\ \A x : On(Updater, x)' <=> On(Updater, x)
      /\ \A x : Removed(x)' <=> Removed(x)
      /\ \A x : ~Adopting(x)' /\ (Adopting(x) <=> x = p)
  BY <1>1, <1>3 DEF Pup, Kind, On, Removed, Adopting
<1>7. RealInv'
  BY <1>1, <1>2, <1>4 DEF FInv, RealInv
<1>8. KnownInv'
  BY <1>1, <1>2, <1>3, <1>4, <1>5, <1>6 DEF FInv, KnownInv
<1>9. InstallFirst'
  <2>1. \A i \in DOMAIN queue : Adopted(queue[i]) => Adopted(queue[i])'
    BY <1>1, <1>4, <1>5 DEF Adopted
  <2>2. Adopted(work[Loop].job)'
    BY <1>2, <1>3, <1>4 DEF Adopted, Pup
  <2> QED
    BY <1>1, <1>3, <1>5, <1>6, <2>1, <2>2 DEF FInv, InstallFirst, Adopted
<1>10. StageInv'
  <2>1. CASE work[Updater].at = "idle"
    BY <1>3, <2>1 DEF StageInv, Staged, Between
  <2>2. CASE work[Updater].at # "idle"
    BY <1>1, <1>3, <1>4, <1>5, <1>6, <2>2, Busy DEF FInv, StageInv, On
  <2> QED
    BY <2>1, <2>2
<1>11. CrossInv'
  BY <1>1, <1>3, <1>6 DEF FInv, CrossInv, On
<1>12. SavedInv'
  <2> SUFFICES ASSUME NEW x \in Pups \ unsure
               PROVE  IF Removed(x) THEN disk[x] = NoPup
                      ELSE disk[x] = pup'[x] \/ BeingSaved(x)'
    BY <1>1, <1>6 DEF SavedInv
  <2>1. CASE x = p
    <3>1. disk[p] = r
      BY <1>1, <1>6, <2>1 DEF FInv, SavedInv
    <3> QED
      BY <1>4, <1>5, <2>1, <3>1 DEF Removed, On
  <2>2. CASE x # p
    <3>1. BeingSaved(x) => BeingSaved(x)'
      BY <1>1, <1>4, <1>6, <2>2, Goroutines DEF BeingSaved
    <3> QED
      BY <1>4, <1>6, <2>2, <3>1 DEF FInv, SavedInv
  <2> QED
    BY <2>1, <2>2
<1>13. FreshInv'
  <2>1. ASSUME NEW a \in Patchers, saving'[a] # NoPup, Pup(a)' \notin unsure'
        PROVE  saving'[a] = pup'[Pup(a)']
    <3>1. a = Updater /\ saving[Updater] # NoPup /\ work[Updater].at # "idle"
      BY <1>1, <2>1, Goroutines DEF IInv, JobInv, Resting
    <3>2. Pup(Updater) \in Pups \ {p}
      BY <1>5, <3>1, Busy DEF On
    <3> QED
      BY <1>1, <1>4, <1>6, <2>1, <3>1, <3>2 DEF FInv, FreshInv
  <2> QED
    BY <1>1, <1>3, <2>1 DEF FInv, FreshInv
<1>14. DiskHasFiles' /\ ReadyHasFiles'
  BY <1>1, <1>2, <1>4 DEF FInv, DiskHasFiles, ReadyHasFiles
<1> QED
  BY <1>7, <1>8, <1>9, <1>10, <1>11, <1>12, <1>13, <1>14 DEF FInv

LEMMA SendingsKeep ==
  ASSUME IInv, FInv, sendSystemJobWithPupDetails PROVE FInv'
<1> DEFINE p == Pup(Loop)
           j == [work[Loop].job EXCEPT !.seen = pup[p]]
<1>1. /\ work[Loop].at = "send" /\ saving[Loop] = NoPup /\ work' = [work EXCEPT ![Loop] = NoWork]
      /\ UNCHANGED <<pup, disk, files, snapshot, saving, purged, unsure, crashes>>
      /\ queue' = queue \/ (pup[p] # NoPup /\ queue' = Append(queue, j))
  BY DEF sendSystemJobWithPupDetails, At
<1>2. /\ j \in Jobs /\ j.pup = p /\ j.kind = Kind(Loop) /\ j.to = work[Loop].job.to
      /\ p \in Pups
  BY <1>1, LoopBusy, JobFields, JobTarget DEF Pup, Kind
<1> HIDE DEF j
<1>3. work'[Loop] = NoWork /\ work'[Updater] = work[Updater]
      /\ NoWork.at = "idle" /\ NoWork.then = "idle"
  BY <1>1, Goroutines, NoWorkType, TypeParts DEF IInv, NoWork
<1>4. ASSUME NEW i \in DOMAIN queue'
      PROVE  \/ i \in DOMAIN queue /\ queue'[i] = queue[i]
             \/ /\ i = Len(queue) + 1 /\ queue'[i] = j /\ pup[p] # NoPup
                /\ \A k \in DOMAIN queue' : k < i => k \in DOMAIN queue /\ queue'[k] = queue[k]
  <2>1. queue \in Seq(Jobs)
    BY TypeParts DEF IInv
  <2> QED
    BY <1>1, <1>2, <1>4, <2>1
<1>5. \A i \in DOMAIN queue, k \in DOMAIN queue' : k < i => k \in DOMAIN queue /\ queue'[k] = queue[k]
  <2>1. queue \in Seq(Jobs)
    BY TypeParts DEF IInv
  <2> QED
    BY <1>1, <1>2, <2>1
<1>6. /\ Pup(Updater)' = Pup(Updater) /\ Kind(Updater)' = Kind(Updater)
      /\ \A x : On(Updater, x)' <=> On(Updater, x)
      /\ \A x : Removed(x)' <=> Removed(x)
      /\ \A x : ~Adopting(x)' /\ ~Adopting(x)
  BY <1>1, <1>3 DEF Pup, Kind, On, Removed, Adopting
<1>7. KnownInv'
  BY <1>1, <1>2, <1>3, <1>4, <1>6 DEF FInv, KnownInv
<1>8. InstallFirst'
  <2> SUFFICES ASSUME NEW i \in DOMAIN queue', queue'[i].kind = "install"
               PROVE  /\ Adopted(queue'[i]) /\ ~On(Updater, queue'[i].pup)
                      /\ \A k \in DOMAIN queue' : k < i => queue'[k].pup # queue'[i].pup
    BY <1>1, <1>3, <1>6 DEF InstallFirst, Adopted
  <2>1. CASE i \in DOMAIN queue /\ queue'[i] = queue[i]
    BY <1>5, <2>1 DEF FInv, InstallFirst
  <2>2. CASE /\ i = Len(queue) + 1 /\ queue'[i] = j
             /\ \A k \in DOMAIN queue' : k < i => k \in DOMAIN queue /\ queue'[k] = queue[k]
    <3>1. /\ Adopted(work[Loop].job) /\ ~On(Updater, p)
          /\ \A k \in DOMAIN queue : queue[k].pup # p
      BY <1>1, <1>2, <2>2 DEF FInv, InstallFirst
    <3> QED
      BY <1>2, <2>2, <3>1 DEF Adopted, Pup
  <2> QED
    BY <1>4, <2>1, <2>2
<1>9. RealInv' /\ StageInv' /\ CrossInv'
  BY <1>1, <1>3, <1>6 DEF FInv, RealInv, StageInv, CrossInv, On
<1>10. SavedInv'
  <2>1. \A x : BeingSaved(x) => BeingSaved(x)'
    BY <1>1, <1>6, Goroutines DEF BeingSaved
  <2> QED
    BY <1>1, <1>6, <2>1 DEF FInv, SavedInv
<1>11. FreshInv'
  BY <1>1, <1>3, <1>6, Goroutines DEF FInv, FreshInv
<1>12. DiskHasFiles' /\ ReadyHasFiles'
  BY <1>1 DEF FInv, DiskHasFiles, ReadyHasFiles
<1> QED
  BY <1>7, <1>8, <1>9, <1>10, <1>11, <1>12 DEF FInv
\* The main loop goes on with its job, or ends it, with no save on its way.
LEMMA LoopMoves ==
  ASSUME IInv, FInv, work[Loop].at \notin {"idle", "adopt"},
         UNCHANGED <<pup, disk, files, snapshot, queue, purged, crashes>>, unsure \subseteq unsure',
         saving'[Loop] = NoPup, saving'[Updater] = saving[Updater],
         saving[Loop] # NoPup => Pup(Loop) \in unsure',
         work'[Updater] = work[Updater],
         work'[Loop].at = "idle" \/ work'[Loop].job = work[Loop].job,
         work'[Loop].at \notin {"adopt", "send", "config"},
         work'[Loop].then \notin {"send", "config"}
  PROVE  FInv'
<1>1. AtLoop
  BY DEF AtLoop
<1>2. CrossInv'
  BY DEF FInv, CrossInv, On, Pup, Kind
<1>3. Pup(Loop) \in Pups /\ NoPup \in PupStates
  BY LoopBusy, PupStateFields
<1> QED
  BY <1>1, <1>2, <1>3, LoopKeeps

LEMMA ConfigurationsKeep ==
  ASSUME IInv, FInv, updatePupConfig \/ BuildDirect PROVE FInv'
<1>1. /\ work[Loop].at \in {"config", "build"} /\ saving[Loop] = NoPup
      /\ {"build", "failed", "await", "done"} \subseteq Labels
      /\ UNCHANGED <<disk, files, snapshot, queue, purged, crashes, unsure>>
  BY DEF updatePupConfig, BuildDirect, ApplyPatch, At, Labels
<1>2. /\ Pup(Loop) \in Pups /\ pup[Pup(Loop)] \in PupStates /\ work[Loop] \in Works
      /\ work[Loop].then \notin {"send", "config"}
      /\ work \in [Patchers -> Works] /\ saving \in [Patchers -> PupStates]
  BY <1>1, LoopBusy, TypeParts DEF FInv, CrossInv, IInv
<1>3. CASE updatePupConfig
  <2>1. ASSUME NEW l \in {"build", "failed"}, Goto(Loop, l), UNCHANGED <<pup, saving>>
        PROVE  FInv'
    <3>1. /\ work'[Loop].at = l /\ work'[Loop].job = work[Loop].job
          /\ work'[Loop].then = work[Loop].then /\ work'[Updater] = work[Updater]
      BY <1>1, <1>2, <2>1, GotoEffect, Goroutines
    <3> QED
      BY <1>1, <1>2, <2>1, <3>1, LoopMoves
  <2>2. CASE UpdatePup(Loop, [pup[Pup(Loop)] EXCEPT !.enabled = TRUE], "build")
    <3> DEFINE q == Pup(Loop)
               m == [pup[q] EXCEPT !.enabled = TRUE]
    <3>1. m \in PupStates /\ m.inst = pup[q].inst /\ m.version = pup[q].version
      BY <1>2 DEF PupStates
    <3>2. UpdatePup(Loop, m, "build")
      BY <2>2
    <3> HIDE DEF m
    <3>3. /\ work'[Loop].job = work[Loop].job /\ work'[Loop].then = work[Loop].then
          /\ work'[Updater] = work[Updater] /\ saving'[Updater] = saving[Updater]
          /\ Updated(Loop, m, "build") \/ NotThere(Loop)
      BY <1>1, <3>1, <3>2, UpdateEffect, Goroutines DEF IInv
    <3>4. CASE Updated(Loop, m, "build")
      <4>1. /\ work'[Loop].at = "build" /\ pup[q] # NoPup
            /\ pup' = [pup EXCEPT ![q] = m] /\ saving'[Loop] = m
        BY <1>2, <3>4, Goroutines DEF Updated
      <4>2. AtLoop
        BY <1>1, <3>3, <4>1 DEF AtLoop
      <4>3. Kind(Loop) \in Savers
        <5>1. work[Loop].at = "config"
          BY <1>3 DEF updatePupConfig, At
        <5> QED
          BY <5>1 DEF FInv, CrossInv
      <4>4. CrossInv'
        BY <1>1, <1>2, <3>3, <4>1, <4>3 DEF FInv, CrossInv, On, Pup, Kind
      <4> QED
        BY <1>2, <3>1, <3>3, <4>1, <4>2, <4>4, LoopKeeps DEF Pup
    <3>5. CASE NotThere(Loop)
      BY <1>1, <1>2, <3>3, <3>5, OnErrorLabel, Goroutines, LoopMoves DEF NotThere
    <3> QED
      BY <3>3, <3>4, <3>5
  <2> QED
    BY <1>3, <2>1, <2>2 DEF updatePupConfig
<1>4. CASE BuildDirect
  <2> DEFINE w == [work[Loop] EXCEPT !.at = "await", !.then = "done"]
  <2>1. work' = [work EXCEPT ![Loop] = w] /\ UNCHANGED <<pup, saving>>
    BY <1>4 DEF BuildDirect, ApplyPatch
  <2>2. w.at = "await" /\ w.then = "done" /\ w.job = work[Loop].job
    BY <1>2 DEF Works
  <2> HIDE DEF w
  <2>3. work'[Loop] = w /\ work'[Updater] = work[Updater]
    BY <1>2, <2>1, Goroutines
  <2> QED
    BY <1>1, <1>2, <2>1, <2>2, <2>3, LoopMoves
<1> QED
  BY <1>3, <1>4
-----------------------------------------------------------------------------
(* Jobs taken and ended, and what a patch answers.                           *)

LEMMA TakesKeep ==
  ASSUME IInv, FInv, TakeJob PROVE FInv'
<1> DEFINE j == Head(queue)
           w == [NoWork EXCEPT !.at = "start", !.job = j]
<1>1. /\ work[Updater].at = "idle" /\ queue # <<>> /\ work' = [work EXCEPT ![Updater] = w]
      /\ queue' = Tail(queue) /\ unsure \subseteq unsure'
      /\ UNCHANGED <<pup, disk, files, snapshot, saving, purged, crashes>>
      /\ work[Loop].at # "idle" /\ Pup(Loop) = j.pup /\ Kind(Loop) \in Savers => j.pup \in unsure'
  BY DEF TakeJob, Savers
<1>2. /\ queue \in Seq(Jobs) /\ j = queue[1] /\ 1 \in DOMAIN queue /\ j \in Jobs
      /\ \A i \in DOMAIN queue' : i + 1 \in DOMAIN queue /\ queue'[i] = queue[i + 1] /\ 1 < i + 1
      /\ \A i \in DOMAIN queue', k \in DOMAIN queue' : k < i => k + 1 < i + 1
  BY <1>1, TypeParts DEF IInv
<1> HIDE DEF j
<1>3. w.at = "start" /\ w.then = "idle" /\ w.job = j
  BY NoWorkType DEF NoWork
<1> HIDE DEF w
<1>4. work'[Updater] = w /\ work'[Loop] = work[Loop] /\ saving[Updater] = NoPup
  BY <1>1, Goroutines, TypeParts DEF IInv, JobInv, Resting
<1>5. /\ Pup(Updater)' = j.pup /\ Kind(Updater)' = j.kind
      /\ Pup(Loop)' = Pup(Loop) /\ Kind(Loop)' = Kind(Loop)
      /\ \A x : On(Updater, x)' <=> x = j.pup
      /\ \A x : ~Removed(x)' /\ ~Removed(x)
      /\ \A x : Adopting(x)' <=> Adopting(x)
  BY <1>1, <1>3, <1>4 DEF Pup, Kind, On, Removed, Adopting
<1>6. RealInv'
  BY <1>1 DEF FInv, RealInv
<1>7. KnownInv'
  BY <1>1, <1>2, <1>4, <1>5 DEF FInv, KnownInv
<1>8. InstallFirst'
  <2>1. ASSUME NEW i \in DOMAIN queue', queue'[i].kind = "install"
        PROVE  /\ Adopted(queue'[i]) /\ queue'[i].pup # j.pup
               /\ \A k \in DOMAIN queue' : k < i => queue'[k].pup # queue'[i].pup
    BY <1>2, <2>1 DEF FInv, InstallFirst
  <2>2. ASSUME work[Loop].at = "send", Kind(Loop) = "install"
        PROVE  /\ Adopted(work[Loop].job) /\ Pup(Loop) # j.pup
               /\ \A k \in DOMAIN queue' : queue'[k].pup # Pup(Loop)
    BY <1>2, <2>2 DEF FInv, InstallFirst
  <2> QED
    BY <1>1, <1>4, <1>5, <2>1, <2>2 DEF InstallFirst, Adopted
<1>9. StageInv'
  <2>1. j.kind = "install" => pup[j.pup].inst = "installing" /\ pup[j.pup].version = j.to
    BY <1>2 DEF FInv, InstallFirst, Adopted
  <2> QED
    BY <1>1, <1>3, <1>4, <1>5, <2>1 DEF StageInv, Staged, Between
<1>10. CrossInv'
  BY <1>1, <1>4, <1>5 DEF FInv, CrossInv, On
<1>11. SavedInv'
  <2> SUFFICES ASSUME NEW x \in Pups \ unsure'
               PROVE  IF Adopting(x) THEN disk[x] = IF saving[Loop] = NoPup THEN work[Loop].state
                                                    ELSE NoPup
                      ELSE disk[x] = pup[x] \/ BeingSaved(x)'
    BY <1>1, <1>4, <1>5 DEF SavedInv
  <2>1. BeingSaved(x) => BeingSaved(x)'
    BY <1>1, <1>4, <1>5, Goroutines DEF BeingSaved
  <2> QED
    BY <1>1, <1>5, <2>1 DEF FInv, SavedInv
<1>12. FreshInv'
  <2>1. ASSUME NEW a \in Patchers, saving'[a] # NoPup, Pup(a)' \notin unsure', ~Adopting(Pup(a))'
        PROVE  saving'[a] = pup'[Pup(a)']
    <3>1. a = Loop
      BY <1>1, <1>4, <2>1, Goroutines
    <3> QED
      BY <1>1, <1>5, <2>1, <3>1 DEF FInv, FreshInv
  <2> QED
    BY <1>1, <1>4, <2>1 DEF FreshInv
<1>13. DiskHasFiles' /\ ReadyHasFiles'
  BY <1>1 DEF FInv, DiskHasFiles, ReadyHasFiles
<1> QED
  BY <1>6, <1>7, <1>8, <1>9, <1>10, <1>11, <1>12, <1>13 DEF FInv

LEMMA FinishesKeep ==
  ASSUME IInv, FInv, NEW a \in Patchers, Finish(a) PROVE FInv'
<1>1. /\ work[a].at \in {"done", "failed"} /\ saving[a] = NoPup
      /\ work' = [work EXCEPT ![a] = NoWork]
      /\ UNCHANGED <<pup, disk, files, snapshot, queue, saving, purged, unsure, crashes>>
  BY DEF Finish, At
<1>2. /\ NoWork.at = "idle" /\ NoWork.then = "idle" /\ work'[a] = NoWork
      /\ \A b \in Patchers \ {a} : work'[b] = work[b]
  BY <1>1, NoWorkType, TypeParts DEF NoWork, IInv
<1>3. CASE a = Loop
  BY <1>1, <1>2, <1>3, Goroutines, LoopMoves
<1>4. CASE a = Updater
  <2>1. work'[Updater] = NoWork /\ work'[Loop] = work[Loop] /\ saving[Updater] = NoPup
        /\ work[Updater].at \in {"done", "failed"}
    BY <1>1, <1>2, <1>4, Goroutines
  <2>2. /\ Pup(Loop)' = Pup(Loop) /\ Kind(Loop)' = Kind(Loop)
        /\ \A x : ~On(Updater, x)'
        /\ \A x : ~Removed(x)' /\ ~Removed(x)
        /\ \A x : Adopting(x)' <=> Adopting(x)
    BY <1>2, <2>1 DEF Pup, Kind, On, Removed, Adopting
  <2>3. RealInv' /\ KnownInv' /\ InstallFirst' /\ StageInv' /\ CrossInv'
    BY <1>1, <1>2, <2>1, <2>2
       DEF FInv, RealInv, KnownInv, InstallFirst, Adopted, StageInv, Staged, Between, CrossInv
  <2>4. SavedInv'
    <3>1. \A x : BeingSaved(x) => BeingSaved(x)'
      BY <1>1, <2>1, <2>2, Goroutines DEF BeingSaved
    <3> QED
      BY <1>1, <2>1, <2>2, <3>1 DEF FInv, SavedInv
  <2>5. FreshInv'
    <3>1. ASSUME NEW b \in Patchers, saving'[b] # NoPup, Pup(b)' \notin unsure', ~Adopting(Pup(b))'
          PROVE  saving'[b] = pup'[Pup(b)']
      BY <1>1, <2>1, <2>2, <3>1, Goroutines DEF FInv, FreshInv
    <3> QED
      BY <1>1, <2>1, <3>1 DEF FreshInv
  <2>6. DiskHasFiles' /\ ReadyHasFiles'
    BY <1>1 DEF FInv, DiskHasFiles, ReadyHasFiles
  <2> QED
    BY <2>3, <2>4, <2>5, <2>6 DEF FInv
<1> QED
  BY <1>3, <1>4, Goroutines

LEMMA AwaitsKeep ==
  ASSUME IInv, FInv, NEW a \in Patchers, Await(a) PROVE FInv'
<1> DEFINE l == IF patch[a].at = "applied" \/ work[a].then = "snapshot" THEN work[a].then
                ELSE OnError(a)
<1>1. /\ work[a].at = "await" /\ Goto(a, l)
      /\ UNCHANGED <<pup, disk, files, snapshot, queue, saving, purged, unsure, crashes>>
  BY DEF Await
<1>2. work[a] \in Works /\ saving[a] = NoPup
  BY <1>1, EitherBusy DEF IInv, JobInv, Resting
<1>3. l \in Labels /\ l \in {work[a].then, "broken", "failed"}
  BY <1>2, WorkFields, OnErrorLabel DEF Labels
<1> HIDE DEF l
<1>4. /\ work'[a].at = l /\ work'[a].job = work[a].job /\ work'[a].then = work[a].then
      /\ \A b \in Patchers \ {a} : work'[b] = work[b]
  BY <1>1, <1>3, GotoEffect, TypeParts DEF IInv
<1>5. CASE a = Loop
  <2>1. work[Loop].then \notin {"adopt", "send", "config"}
    BY DEF IInv, AdoptInv, FInv, CrossInv
  <2> QED
    BY <1>1, <1>2, <1>3, <1>4, <1>5, <2>1, Goroutines, LoopMoves
<1>6. CASE a = Updater
  <2>1. l \in {"snapshot", "unlink", "ready", "dropSnapshot", "gone", "done", "broken", "failed"}
    BY <1>1, <1>3, <1>6, AtStage DEF Staged
  <2>2. l \notin Removing \cup {"idle"} /\ "await" \notin Removing \cup {"idle"}
    BY <2>1 DEF Removing
  <2>3. /\ Goto(Updater, l) /\ saving[Updater] = NoPup /\ work[Updater].at = "await"
        /\ l \in {work[Updater].then, "broken", "failed"}
    BY <1>1, <1>2, <1>3, <1>6
  <2>4. \A r, f, v :
          Staged(Kind(Updater), work[Updater].job.to, "await", work[Updater].then, r, f, v)
            => Staged(Kind(Updater), work[Updater].job.to, l, work[Updater].then, r, f, v)
    BY <2>1, <2>3 DEF Staged, Between
  <2>5. snapshot'[Pup(Updater)].version = snapshot[Pup(Updater)].version
    BY <1>1
  <2>6. StageInv'
    BY <1>1, <1>4, <1>6, <2>3, <2>4, Goroutines DEF FInv, StageInv, Pup, Kind
  <2> HIDE DEF Goto
  <2> QED
    BY <1>1, <1>4, <1>6, <2>2, <2>3, <2>6, OwnPupKept, Goroutines DEF Pup
<1> QED
  BY <1>5, <1>6, Goroutines
-----------------------------------------------------------------------------
(* Saves, and restarts.                                                      *)

\* What the encoder can read is a pup's state, and only the state there is when
\* nobody changes the pup meanwhile.
LEMMA EncodedStates ==
  ASSUME NEW r \in PupStates, NEW now \in PupStates, NEW x \in Encoded(r, now)
  PROVE  /\ x \in PupStates
         /\ now = NoPup => x = r
         /\ now = r => x = r
         /\ now # NoPup => x.inst \in {r.inst, now.inst}
<1>1. CASE now = NoPup
  BY <1>1 DEF Encoded
<1>2. CASE now # NoPup
  BY <1>2 DEF Encoded, PupStates
<1> QED
  BY <1>1, <1>2

LEMMA SavesKeep ==
  ASSUME IInv, FInv, NEW a \in Patchers, Saved(a) PROVE FInv'
<1> DEFINE q == Pup(a)
<1>1. /\ saving[a] # NoPup /\ saving' = [saving EXCEPT ![a] = NoPup]
      /\ UNCHANGED <<pup, files, snapshot, queue, purged, unsure, crashes>>
      /\ \/ UNCHANGED work
         \/ pup[q] # NoPup /\ work' = [work EXCEPT ![a].state = pup[q]]
  BY DEF Saved
<1>2. /\ work[a].at # "idle" /\ work[a] \in Works /\ q \in Pups
      /\ pup \in [Pups -> PupStates] /\ saving \in [Patchers -> PupStates]
      /\ disk \in [Pups -> PupStates] /\ work \in [Patchers -> Works]
  BY <1>1, EitherBusy, TypeParts DEF IInv, JobInv, Resting
<1>3. PICK x \in Encoded(saving[a], pup[q]) : disk' = [disk EXCEPT ![q] = x]
  BY DEF Saved
<1>4. /\ disk'[q] = x /\ x \in PupStates /\ \A p \in Pups \ {q} : disk'[p] = disk[p]
      /\ pup[q] = NoPup => x = saving[a]
      /\ pup[q] = saving[a] => x = saving[a]
      /\ pup[q] # NoPup => x.inst \in {saving[a].inst, pup[q].inst}
  BY <1>2, <1>3, EncodedStates
<1>5. saving'[a] = NoPup /\ \A b \in Patchers \ {a} : saving'[b] = saving[b]
  BY <1>1, <1>2
<1>6. /\ work'[a].at = work[a].at /\ work'[a].job = work[a].job /\ work'[a].then = work[a].then
      /\ pup[q] = NoPup => work'[a].state = work[a].state
      /\ \A b \in Patchers \ {a} : work'[b] = work[b]
  <2>1. CASE UNCHANGED work
    BY <2>1
  <2>2. CASE pup[q] # NoPup /\ work' = [work EXCEPT ![a].state = pup[q]]
    <3> DEFINE now == pup[q]
               w == [work[a] EXCEPT !.state = now]
    <3>1. work' = [work EXCEPT ![a] = w]
      BY <2>2
    <3>2. w.at = work[a].at /\ w.job = work[a].job /\ w.then = work[a].then
      <4> HIDE DEF now
      <4> QED
        BY <1>2 DEF Works
    <3> HIDE DEF w
    <3> QED
      BY <1>2, <2>2, <3>1, <3>2
  <2> QED
    BY <1>1, <2>1, <2>2
<1>7. \A b \in Patchers : /\ work'[b].at = work[b].at /\ work'[b].job = work[b].job
                          /\ work'[b].then = work[b].then
                          /\ saving'[b] = saving[b] \/ saving'[b] = NoPup
  BY <1>5, <1>6
<1>8. /\ \A b \in Patchers : Pup(b)' = Pup(b) /\ Kind(b)' = Kind(b)
      /\ \A p : \A b \in Patchers : On(b, p)' <=> On(b, p)
      /\ \A p : Removed(p)' <=> Removed(p)
      /\ \A p : Adopting(p)' <=> Adopting(p)
  BY <1>7, Goroutines DEF Pup, Kind, On, Removed, Adopting
<1>9. Adopting(q) => /\ a = Loop /\ pup[q] = NoPup /\ x = saving[Loop]
                     /\ work'[Loop].state = work[Loop].state /\ x = work[Loop].state
                     /\ x.inst = "installing"
  <2> SUFFICES ASSUME Adopting(q)
               PROVE  /\ a = Loop /\ pup[q] = NoPup /\ x = saving[Loop]
                      /\ work'[Loop].state = work[Loop].state /\ x = work[Loop].state
                      /\ x.inst = "installing"
    OBVIOUS
  <2>1. a = Loop
    BY <1>2, OwnPup, Goroutines
  <2>2. pup[q] = NoPup /\ work[Loop].state.inst = "installing"
        /\ saving[Loop] \in {NoPup, work[Loop].state}
    BY DEF Adopting, IInv, AdoptInv, FInv, KnownInv
  <2> QED
    BY <1>1, <1>4, <1>6, <2>1, <2>2
<1>10. q \notin unsure /\ ~Adopting(q) => x = pup[q] /\ ~Removed(q)
  <2> SUFFICES ASSUME q \notin unsure, ~Adopting(q) PROVE x = pup[q] /\ ~Removed(q)
    OBVIOUS
  <2>1. x = pup[q]
    BY <1>1, <1>4 DEF FInv, FreshInv
  <2>2. ASSUME Removed(q) PROVE FALSE
    <3>1. a = Loop
      BY <1>1, <2>2, Goroutines DEF FInv, FreshInv, Removed
    <3>2. work[Updater].at # "idle" /\ Pup(Updater) = q
      BY <2>2 DEF Removed
    <3> QED
      BY <1>1, <3>1, <3>2, OwnPup
  <2> QED
    BY <2>1, <2>2
<1>11. RealInv'
  <2>1. Real(x)
    <3>1. Real(saving[a]) /\ Real(pup[q])
      BY <1>2 DEF FInv, RealInv
    <3> QED
      BY <1>1, <1>4, <3>1 DEF Real
  <2>2. Real(NoPup)
    BY NoPupIsReal
  <2> QED
    BY <1>1, <1>4, <1>7, <2>1, <2>2 DEF FInv, RealInv
<1>12. KnownInv'
  <2>1. work[Loop].at = "adopt" => work'[Loop].state = work[Loop].state
    <3>1. CASE a = Loop
      BY <1>9, <3>1 DEF Adopting
    <3>2. CASE a = Updater
      BY <1>6, <3>2, Goroutines
    <3> QED
      BY <3>1, <3>2, Goroutines
  <2> QED
    BY <1>1, <1>7, <1>8, <2>1, Goroutines DEF FInv, KnownInv
<1>13. InstallFirst' /\ StageInv' /\ CrossInv'
  <2>1. InstallFirst'
    BY <1>1, <1>7, <1>8, Goroutines DEF FInv, InstallFirst, Adopted
  <2>2. StageInv'
    BY <1>1, <1>7, <1>8, Goroutines DEF FInv, StageInv
  <2>3. CrossInv'
    BY <1>1, <1>7, <1>8, Goroutines DEF FInv, CrossInv
  <2> QED
    BY <2>1, <2>2, <2>3
<1>14. SavedInv'
  <2> SUFFICES ASSUME NEW p \in Pups \ unsure
               PROVE  IF Adopting(p) THEN disk'[p] = IF saving'[Loop] = NoPup
                                                     THEN work'[Loop].state ELSE NoPup
                      ELSE IF Removed(p) THEN disk'[p] = NoPup
                      ELSE disk'[p] = pup[p] \/ BeingSaved(p)'
    BY <1>1, <1>8 DEF SavedInv
  <2>1. CASE p = q
    BY <1>4, <1>5, <1>9, <1>10, <2>1
  <2>2. CASE p # q
    <3>1. BeingSaved(p) => BeingSaved(p)'
      BY <1>1, <1>5, <1>8, <2>2 DEF BeingSaved
    <3>2. Adopting(p) => saving'[Loop] = saving[Loop] /\ work'[Loop] = work[Loop]
      BY <1>5, <1>6, <2>2, Goroutines DEF Adopting
    <3> QED
      BY <1>4, <2>2, <3>1, <3>2 DEF FInv, SavedInv
  <2> QED
    BY <2>1, <2>2
<1>15. FreshInv'
  BY <1>1, <1>7, <1>8, Goroutines DEF FInv, FreshInv
<1>16. DiskHasFiles' /\ ReadyHasFiles'
  <2>1. ReadyHasFiles'
    BY <1>1 DEF FInv, ReadyHasFiles
  <2>2. ASSUME q \notin unsure, x.inst = "ready" PROVE files[q] = x.version
    BY <1>2, <1>9, <1>10, <2>2 DEF FInv, ReadyHasFiles
  <2>3. DiskHasFiles'
    BY <1>1, <1>4, <2>2 DEF FInv, DiskHasFiles
  <2> QED
    BY <2>1, <2>3
<1> QED
  BY <1>11, <1>12, <1>13, <1>14, <1>15, <1>16 DEF FInv

LEMMA SavesFailKeep ==
  ASSUME IInv, FInv, NEW a \in Patchers, SaveFails(a) PROVE FInv'
<1> DEFINE l == IF work[a].at = "rebuild" THEN "snapshot" ELSE OnError(a)
           q == Pup(a)
<1>1. /\ saving[a] # NoPup /\ saving' = [saving EXCEPT ![a] = NoPup] /\ Goto(a, l)
      /\ unsure' = unsure \cup {q}
      /\ UNCHANGED <<pup, disk, files, snapshot, queue, purged, crashes>>
  BY DEF SaveFails
<1>2. l \in {"snapshot", "broken", "failed"}
  BY OnErrorLabel
<1> HIDE DEF l
<1>3. work[a].at # "idle" /\ q \in Pups
  BY <1>1, EitherBusy DEF IInv, JobInv, Resting
<1>4. /\ saving'[a] = NoPup /\ \A b \in Patchers \ {a} : saving'[b] = saving[b]
      /\ Real(NoPup)
  BY <1>1, NoPupIsReal, TypeParts DEF IInv
<1>5. /\ work'[a].at = l /\ work'[a].job = work[a].job /\ work'[a].then = work[a].then
      /\ \A b \in Patchers \ {a} : work'[b] = work[b]
  <2>1. l \in Labels
    BY <1>2 DEF Labels
  <2> HIDE DEF Goto
  <2> QED
    BY <1>1, <2>1, GotoEffect, TypeParts DEF IInv
<1>6. CASE a = Updater
  <2>1. StageInv'
    BY <1>2, <1>5, <1>6 DEF StageInv, Staged, Between
  <2>2. AtOwnPup
    BY <1>1, <1>2, <1>3, <1>4, <1>5, <1>6, Goroutines DEF AtOwnPup, Pup
  <2>3. /\ Real(pup[q]) /\ Real(disk[q])
        /\ pup[q].inst = "ready" /\ crashes = 0 => files[q] = pup[q].version
    BY <1>3 DEF FInv, RealInv, ReadyHasFiles
  <2> QED
    BY <1>1, <1>2, <1>4, <1>5, <1>6, <2>1, <2>2, <2>3, OwnPupKeeps
<1>7. CASE a = Loop
  <2>1. /\ saving'[Loop] = NoPup /\ saving'[Updater] = saving[Updater]
        /\ work'[Updater] = work[Updater]
        /\ work'[Loop].at \notin {"adopt", "send", "config"}
        /\ work'[Loop].job = work[Loop].job /\ work'[Loop].then = work[Loop].then
        /\ work[Loop].at # "idle" /\ q = Pup(Loop)
    BY <1>2, <1>3, <1>4, <1>5, <1>7, Goroutines
  <2>2. work[Loop].then \notin {"send", "config"}
    BY DEF FInv, CrossInv
  <2>3. CASE work[Loop].at # "adopt"
    BY <1>1, <2>1, <2>2, <2>3, LoopMoves
  <2>4. CASE work[Loop].at = "adopt"
    <3>1. /\ Pup(Updater)' = Pup(Updater) /\ Kind(Updater)' = Kind(Updater)
          /\ Pup(Loop)' = q /\ Kind(Loop)' = "install"
          /\ \A x : On(Updater, x)' <=> On(Updater, x)
          /\ \A x : Removed(x)' <=> Removed(x)
          /\ \A x : ~Adopting(x)' /\ (Adopting(x) <=> x = q)
      BY <2>1, <2>4 DEF Pup, Kind, On, Removed, Adopting, IInv, AdoptInv
    <3>2. RealInv'
      BY <1>1, <1>4 DEF FInv, RealInv
    <3>3. KnownInv' /\ InstallFirst'
      BY <1>1, <2>1, <3>1 DEF FInv, KnownInv, InstallFirst, Adopted
    <3>4. StageInv'
      BY <1>1, <2>1, <3>1 DEF FInv, StageInv
    <3>5. CrossInv'
      BY <2>1, <2>2, <3>1 DEF CrossInv, Savers
    <3>6. SavedInv'
      <4> SUFFICES ASSUME NEW x \in Pups \ unsure, x # q
                   PROVE  IF Removed(x) THEN disk[x] = NoPup
                          ELSE disk[x] = pup[x] \/ BeingSaved(x)'
        BY <1>1, <3>1 DEF SavedInv
      <4>1. BeingSaved(x) => BeingSaved(x)'
        BY <1>1, <2>1, <3>1, Goroutines DEF BeingSaved
      <4> QED
        BY <3>1, <4>1 DEF FInv, SavedInv
    <3>7. FreshInv'
      <4>1. ASSUME NEW b \in Patchers, saving'[b] # NoPup, Pup(b)' \notin unsure'
            PROVE  saving'[b] = pup'[Pup(b)']
        <5>1. b = Updater
          BY <2>1, <4>1, Goroutines
        <5> QED
          BY <1>1, <2>1, <3>1, <4>1, <5>1 DEF FInv, FreshInv
      <4> QED
        BY <2>1, <4>1 DEF FInv, FreshInv
    <3>8. DiskHasFiles' /\ ReadyHasFiles'
      BY <1>1 DEF FInv, DiskHasFiles, ReadyHasFiles
    <3> QED
      BY <3>2, <3>3, <3>4, <3>5, <3>6, <3>7, <3>8 DEF FInv
  <2> QED
    BY <2>3, <2>4
<1> QED
  BY <1>6, <1>7, Goroutines

LEMMA StillF ==
  ASSUME FInv, UNCHANGED pupVars PROVE FInv'
  BY DEF pupVars, FInv, RealInv, KnownInv, InstallFirst, StageInv, CrossInv, SavedInv, FreshInv,
         DiskHasFiles, ReadyHasFiles, Adopted, On, Adopting, BeingSaved, Removed, Pup, Kind

\* A restart finds what was saved, and the files that go with it.
LEMMA RestartsKeep ==
  ASSUME IInv, FInv, Restart PROVE FInv'
<1>1. /\ pup' = [p \in Pups |-> IF disk[p].inst = "installing"
                                THEN [disk[p] EXCEPT !.inst = "broken"] ELSE disk[p]]
      /\ disk' = pup' /\ queue' = <<>> /\ crashes' = crashes + 1
      /\ work' = [a \in Patchers |-> NoWork] /\ saving' = [a \in Patchers |-> NoPup]
      /\ UNCHANGED <<files, snapshot, purged, unsure>>
  BY DEF Restart
<1>2. \A p \in Pups : /\ Real(pup'[p])
                      /\ pup'[p].inst = "ready" => pup'[p] = disk[p]
  <2> TAKE p \in Pups
  <2> DEFINE r == disk[p]
  <2>1. r \in PupStates /\ Real(r)
    BY TypeParts DEF IInv, FInv, RealInv
  <2>2. pup'[p] = IF r.inst = "installing" THEN [r EXCEPT !.inst = "broken"] ELSE r
    BY <1>1
  <2> HIDE DEF r
  <2>3. [r EXCEPT !.inst = "broken"].inst = "broken"
    BY <2>1 DEF PupStates
  <2> QED
    BY <2>1, <2>2, <2>3 DEF Real, r
<1>3. /\ \A a \in Patchers : work'[a] = NoWork /\ saving'[a] = NoPup
      /\ NoWork.at = "idle" /\ NoWork.then = "idle" /\ Real(NoPup)
  BY <1>1, NoWorkType, NoPupIsReal DEF NoWork
<1>4. \A x : ~On(Updater, x)' /\ ~On(Loop, x)' /\ ~Removed(x)' /\ ~Adopting(x)'
  BY <1>3, Goroutines DEF On, Removed, Adopting
<1>5. RealInv'
  BY <1>1, <1>2, <1>3 DEF RealInv
<1>6. KnownInv' /\ InstallFirst' /\ StageInv' /\ CrossInv' /\ FreshInv'
  <2>1. DOMAIN queue' = {}
    BY <1>1
  <2>2. KnownInv' /\ InstallFirst'
    BY <1>3, <1>4, <2>1, Goroutines DEF KnownInv, InstallFirst
  <2>3. StageInv'
    BY <1>3, Goroutines DEF StageInv, Staged, Between
  <2>4. CrossInv' /\ FreshInv'
    BY <1>3, Goroutines DEF CrossInv, FreshInv
  <2> QED
    BY <2>2, <2>3, <2>4
<1>7. SavedInv'
  BY <1>1, <1>4 DEF SavedInv
<1>8. DiskHasFiles' /\ ReadyHasFiles'
  <2>1. crashes' # 0
    BY <1>1, TypeParts DEF IInv
  <2> QED
    BY <1>1, <1>2, <2>1 DEF FInv, DiskHasFiles, ReadyHasFiles
<1> QED
  BY <1>5, <1>6, <1>7, <1>8 DEF FInv

\* A job that is deleted leaves the pups and their other jobs as they were.
LEMMA DeletionsKeep ==
  ASSUME IInv, FInv, NEW i \in DOMAIN queue, RemoveFromQueue(i) PROVE FInv'
<1>1. UNCHANGED <<pup, disk, files, snapshot, work, saving, purged, unsure, crashes>>
  BY DEF RemoveFromQueue
<1>2. /\ DOMAIN queue' = 1 .. Len(queue) - 1 /\ queue \in Seq(Jobs)
      /\ \A j \in DOMAIN queue' :
           /\ j \in DOMAIN queue /\ j + 1 \in DOMAIN queue
           /\ queue'[j] = IF j < i THEN queue[j] ELSE queue[j + 1]
  BY QueueWithout, TypeParts DEF IInv
<1>3. \A j \in DOMAIN queue' : \E k \in DOMAIN queue : queue'[j] = queue[k]
  BY <1>2
<1>4. ASSUME NEW j \in DOMAIN queue', queue'[j].kind = "install", NEW h \in DOMAIN queue', h < j
      PROVE  queue'[h].pup # queue'[j].pup
  <2> DEFINE k(n) == IF n < i THEN n ELSE n + 1
  <2>1. k(h) \in DOMAIN queue /\ k(j) \in DOMAIN queue /\ k(h) < k(j)
    BY <1>2, <1>4
  <2>2. queue'[h] = queue[k(h)] /\ queue'[j] = queue[k(j)]
    BY <1>2
  <2> HIDE DEF k
  <2> QED
    BY <1>4, <2>1, <2>2 DEF FInv, InstallFirst
<1>5. \A r : Adopted(r)' <=> Adopted(r)
  BY <1>1 DEF Adopted
<1>6. \A x : On(Updater, x)' <=> On(Updater, x)
  BY <1>1 DEF On, Pup
<1>7. KnownInv'
  BY <1>1, <1>3, <1>6 DEF FInv, KnownInv, Pup
<1>8. InstallFirst'
  BY <1>1, <1>3, <1>4, <1>5, <1>6 DEF FInv, InstallFirst, Pup, Kind
<1> QED
  BY <1>1, <1>7, <1>8
     DEF FInv, RealInv, StageInv, CrossInv, SavedInv, FreshInv, DiskHasFiles, ReadyHasFiles,
         On, Adopting, BeingSaved, Removed, Pup, Kind

LEMMA InitiallyF == Init => FInv
<1> SUFFICES ASSUME Init PROVE FInv
  OBVIOUS
<1>1. /\ pup \in [Pups -> Found] /\ disk = pup
      /\ files = [p \in Pups |-> pup[p].version] /\ queue = <<>>
      /\ work = [a \in Patchers |-> NoWork] /\ saving = [a \in Patchers |-> NoPup]
  BY DEF Init
<1>2. \A p \in Pups : Real(pup[p])
  <2>1. \A r \in Found : r \in PupStates
    BY LifecycleAssumption
  <2>2. \A r \in Found : r.enabled => r.inst = "ready"
    BY LifecycleAssumption
  <2>3. \A r \in Found : r.inst = "none" => r.version = 0
    BY LifecycleAssumption
  <2>4. ASSUME NEW r \in PupStates, r.enabled => r.inst = "ready",
               r.inst = "none" => r.version = 0
        PROVE  Real(r)
    BY <2>4 DEF Real, PupStates, NoPup
  <2> QED
    BY <1>1, <2>1, <2>2, <2>3, <2>4
<1>3. /\ \A a \in Patchers : work[a] = NoWork /\ saving[a] = NoPup
      /\ NoWork.at = "idle" /\ NoWork.then = "idle" /\ Real(NoPup) /\ DOMAIN queue = {}
  BY <1>1, NoWorkType, NoPupIsReal DEF NoWork
<1>4. \A x : ~On(Updater, x) /\ ~Removed(x) /\ ~Adopting(x)
  BY <1>3, Goroutines DEF On, Removed, Adopting
<1>5. RealInv /\ SavedInv /\ DiskHasFiles /\ ReadyHasFiles
  BY <1>1, <1>2, <1>3, <1>4 DEF RealInv, SavedInv, DiskHasFiles, ReadyHasFiles
<1>6. KnownInv /\ InstallFirst /\ CrossInv /\ FreshInv
  BY <1>3, <1>4, Goroutines DEF KnownInv, InstallFirst, CrossInv, FreshInv
<1>7. StageInv
  BY <1>3, Goroutines DEF StageInv, Staged, Between
<1> QED
  BY <1>5, <1>6, <1>7 DEF FInv

LEMMA RequestsKeep == IInv /\ FInv /\ NewRequest => FInv'
<1> SUFFICES ASSUME IInv, FInv, NewRequest PROVE FInv'
  OBVIOUS
<1>1. PICK p \in Pups :
        \/ \E v \in Versions : AdoptPup(p, v) \/ Dispatch("upgrade", p, v)
        \/ \E kind \in {"uninstall", "purge", "enable", "disable", "rollback", "import"} :
             Dispatch(kind, p, 0)
        \/ \E kind \in {"config", "touch"} : DirectUpdate(kind, p)
  BY DEF NewRequest
<1>2. {"upgrade", "uninstall", "purge", "enable", "disable", "rollback", "import",
       "config", "touch"} \subseteq AllKinds
  BY DEF AllKinds
<1>3. CASE \E v \in Versions : AdoptPup(p, v)
  BY <1>3, AdoptionsKeep
<1>4. CASE \E kind \in {"upgrade", "uninstall", "purge", "enable", "disable", "rollback", "import"},
              v \in Versions \cup {0} : Dispatch(kind, p, v)
  BY <1>2, <1>4, DispatchesKeep
<1>5. CASE \E kind \in {"config", "touch"} : DirectUpdate(kind, p)
  BY <1>2, <1>5, DispatchesKeep
<1> QED
  BY <1>1, <1>3, <1>4, <1>5

LEMMA StepsKeep == IInv /\ FInv /\ (\E a \in Patchers : Step(a)) => FInv'
<1> SUFFICES ASSUME IInv, FInv, NEW a \in Patchers, Step(a) PROVE FInv'
  OBVIOUS
<1>1. CASE LoopStep
  BY <1>1, IndexingKeeps, SendingsKeep, ConfigurationsKeep DEF LoopStep
<1>2. CASE UpdaterStep
  BY <1>2, TakesKeep, BeginningsKeep, ImportsKeep, PreparationKeeps, InterludesKeep, EndingsKeep,
     RemovalsKeep, BuildsKeep
     DEF UpdaterStep
<1>3. CASE Saved(a) \/ SaveFails(a) \/ Await(a) \/ Finish(a)
  BY <1>3, SavesKeep, SavesFailKeep, AwaitsKeep, FinishesKeep
<1>4. CASE PatchStep(a)
  BY <1>4, StillF DEF PatchStep
<1> QED
  BY <1>1, <1>2, <1>3, <1>4 DEF Step

(* In every reachable state, for any pups and versions and whatever fails:   *)
(* jobs are for pups that are in memory until they are purged; the install   *)
(* is a pup's first job; the files of a job's pup are of the version its     *)
(* state names from the end of the download on; and, unless a save failed or *)
(* could cross another one, what is not saved yet is being saved.            *)
THEOREM FilesInvariance == Spec => [](IInv /\ FInv)
<1>1. IInv /\ FInv /\ [Next]_vars => (IInv /\ FInv)'
  <2>1. IInv /\ FInv /\ Next => FInv'
    BY RequestsKeep, DeletionsKeep, StepsKeep, RestartsKeep DEF Next
  <2>2. FInv /\ UNCHANGED vars => FInv'
    BY StillF DEF vars
  <2>3. IInv /\ [Next]_vars => IInv'
    BY Requests, Removals, Steps, Restarts, Stutters DEF Next
  <2> QED
    BY <2>1, <2>2, <2>3
<1>2. Init => IInv /\ FInv
  BY Initially, InitiallyF
<1> QED
  BY <1>1, <1>2, PTL DEF Spec

(* A pup that is READY has on disk the files of the version its state names, *)
(* whatever failed and whoever else updated it meanwhile (updater.go:857-860); *)
(* after a crash, for the pups whose saves did not cross.                    *)
THEOREM FilesMatch == Spec => []ReadyHasFiles
<1>1. FInv => ReadyHasFiles
  BY DEF FInv
<1> QED
  BY <1>1, FilesInvariance, PTL

(* When all jobs are done the saved pups are those in memory, but for the    *)
(* pups a save failed for and those the main loop saved while the updater    *)
(* worked on them (actions.go:138-140, pup/update.go).                       *)
THEOREM SavesMatch == Spec => []SavedIsCurrent
<1>1. IInv /\ FInv => SavedIsCurrent
  <2> SUFFICES ASSUME IInv, FInv, Quiet, NEW p \in Pups \ unsure PROVE disk[p] = pup[p]
    BY DEF SavedIsCurrent
  <2>1. ~Adopting(p) /\ ~Removed(p) /\ ~BeingSaved(p)
    BY Goroutines DEF Quiet, Adopting, Removed, BeingSaved
  <2> QED
    BY <2>1 DEF FInv, SavedInv
<1> QED
  BY <1>1, FilesInvariance, PTL
-----------------------------------------------------------------------------
(* The running system, when nothing fails and nobody upgrades a pup.         *)

\* What the files will hold, once written, is as right as it was.
LEMMA NixKept ==
  ASSUME NixInv, \A f : Becoming(f)' \subseteq Becoming(f),
         \A p \in Pups :
           /\ Installed(p)' => Installed(p)
           /\ Stopped(p)' /\ ~Leaving(p)' => Stopped(p) /\ ~Leaving(p)
           /\ Installed(p)' => \/ Flipped(p)' \/ WillWrite(p)'
                               \/ pup'[p].enabled = pup[p].enabled /\ ~Flipped(p) /\ ~WillWrite(p)
  PROVE  NixInv'
<1> SUFFICES ASSUME NEW p \in Pups
             PROVE  /\ \A c \in Becoming(Includes)' : ListRight(c, p)'
                    /\ \A c \in Becoming(p)' : FileRight(c, p)'
  BY DEF NixInv
<1>1. ASSUME NEW c \in Becoming(Includes)' PROVE ListRight(c, p)'
  <2>1. ListRight(c, p)
    BY <1>1 DEF NixInv
  <2> QED
    BY <2>1 DEF ListRight
<1>2. ASSUME NEW c \in Becoming(p)' PROVE FileRight(c, p)'
  <2>1. FileRight(c, p)
    BY <1>2 DEF NixInv
  <2> QED
    BY <2>1 DEF FileRight
<1> QED
  BY <1>1, <1>2

LEMMA BecomingKept ==
  ASSUME UNCHANGED nixDir, patch'[Updater].ops = patch[Updater].ops
  PROVE  \A f : Becoming(f)' = Becoming(f)
  BY DEF Becoming

\* A step of the updater that makes of its pup what this invariant allows.
Shown(r) == r.inst \in {"installing", "ready"}
OwnStep(q, k, at, r, w, s) ==
  /\ w.at \notin {"idle", "start", "await"} /\ Route(k, w.at, w.then)
  /\ s.inst # "upgrading" /\ (w.at = "broken" => s = NoPup)
  /\ k = "uninstall" /\ w.at \in {"build", "gone"} => s.inst = "uninstalling"
  /\ k \in {"install", "enable", "disable"} /\ w.at \in {"stop", "build"} /\ s # NoPup
       => w.state.enabled = s.enabled \/ Flipped(q)
  /\ ~(k = "install" /\ w.at = "ready")
  /\ s.inst = "ready" => r.inst = "ready" \/ (k = "install" /\ at = "ready")
  /\ Shown(s) => Shown(r)
  /\ Shown(r) => Shown(s) \/ (k = "uninstall" /\ w.at = "build")
  /\ s.inst = "ready" => WillWrite(q)' \/ (s.enabled = r.enabled /\ ~WillWrite(q))

LEMMA OwnStepKeeps ==
  ASSUME IInv, GInv, work[Updater].at \notin {"idle", "await", "build"},
         UNCHANGED <<configVars, queue, withdrawn>>, work'[Loop] = work[Loop],
         \A p \in Pups \ {Pup(Updater)} : pup'[p] = pup[p],
         work'[Updater].job.pup = Pup(Updater), work'[Updater].job.kind = Kind(Updater),
         OwnStep(Pup(Updater), Kind(Updater), work[Updater].at, Mine, work'[Updater], Mine')
  PROVE  GInv'
<1> DEFINE q == Pup(Updater)
<1>1. /\ q \in Pups /\ Mine = pup[q] /\ Mine' = pup'[q]
      /\ Pup(Updater)' = q /\ Kind(Updater)' = Kind(Updater)
      /\ Pup(Loop)' = Pup(Loop) /\ Kind(Loop)' = Kind(Loop)
  BY Busy DEF Mine, Pup, Kind
<1>2. /\ \A p : Flipped(p)' = Flipped(p)
      /\ \A p : On(Updater, p) <=> p = q
      /\ \A p : On(Updater, p)' <=> p = q
  BY <1>1 DEF Flipped, On, OwnStep, Withdrawn
<1>3. patch[Updater].at = "idle" /\ patch' = patch /\ nixDir' = nixDir /\ running' = running
  BY DEF GInv, PatchInv, configVars
<1>4. RouteInv'
  BY <1>1, <1>3 DEF GInv, RouteInv, OwnStep
<1>5. PatchInv'
  BY <1>3 DEF GInv, PatchInv
<1>6. \A p \in Pups : Stopped(p) => Stopped(p)'
  BY <1>1 DEF Stopped, OwnStep, Shown
<1>7. StoppedInv'
  <2>1. \A p \in Pups : pup'[p].inst # "upgrading"
    BY <1>1 DEF GInv, StoppedInv, OwnStep
  <2>2. work'[Updater].at # "start"
    BY DEF OwnStep
  <2>3. /\ work'[Updater].at = "broken" => Mine' = NoPup
        /\ Between(work'[Updater].at, work'[Updater].then, {"build", "gone"}, {"gone"})
             /\ Kind(Updater) = "uninstall" => Mine'.inst = "uninstalling"
    BY DEF OwnStep, Between
  <2>4. \A i \in DOMAIN queue : queue[i].kind = "purge" /\ queue[i].seen.inst = "uninstalled"
          => Stopped(queue[i].pup)'
    <3>1. \A i \in DOMAIN queue : queue[i].pup \in Pups
      BY JobFields, TypeParts DEF IInv
    <3> QED
      BY <1>6, <3>1 DEF GInv, StoppedInv
  <2> QED
    BY <1>1, <2>1, <2>2, <2>3, <2>4 DEF StoppedInv
<1>8. CopyInv'
  BY <1>1, <1>2 DEF CopyInv, OwnStep
<1>9. ASSUME NEW p \in Pups
      PROVE  /\ Installed(p)' => Installed(p)
             /\ Stopped(p)' /\ ~Leaving(p)' => Stopped(p) /\ ~Leaving(p)
             /\ Installed(p)' => \/ Flipped(p)' \/ WillWrite(p)'
                                 \/ /\ pup'[p].enabled = pup[p].enabled
                                    /\ ~Flipped(p) /\ ~WillWrite(p)
  <2>1. CASE p # q
    BY <1>1, <1>2, <2>1 DEF Installed, Stopped, Leaving, WillWrite
  <2>2. CASE p = q
    <3>1. Installed(p)' <=> Mine'.inst = "ready"
      BY <1>1, <1>2, <2>2 DEF Installed, OwnStep, Between
    <3>2. Installed(p)' => Installed(p)
      BY <1>1, <1>2, <2>2, <3>1 DEF Installed, OwnStep, Between
    <3>3. ~Leaving(p) /\ (Leaving(p)' <=> Kind(Updater) = "uninstall" /\ work'[Updater].at = "build")
      BY <1>1, <1>2, <2>2 DEF Leaving
    <3>4. Stopped(p)' /\ ~Leaving(p)' => Stopped(p)
      BY <1>1, <2>2, <3>3 DEF Stopped, OwnStep, Shown
    <3> QED
      BY <1>1, <1>2, <2>2, <3>1, <3>2, <3>3, <3>4 DEF OwnStep
  <2> QED
    BY <2>1, <2>2
<1>10. NixInv'
  BY <1>3, <1>9, BecomingKept, NixKept DEF GInv
<1> QED
  BY <1>4, <1>5, <1>7, <1>8, <1>10 DEF GInv
\* The updater updates its pup to r and goes on at l.
LEMMA UpdateStepKeeps ==
  ASSUME IInv, GInv, work[Updater].at \notin {"idle", "await", "build"}, keepFiles,
         NEW r \in PupStates, NEW l \in Labels \ {"idle", "start", "await", "ready", "broken"},
         UpdatePup(Updater, r, l),
         Route(Kind(Updater), l, "idle"), r.inst # "upgrading",
         Kind(Updater) = "uninstall" /\ l \in {"build", "gone"} => r.inst = "uninstalling",
         Mine # NoPup =>
           /\ r.inst = "ready" => \/ Mine.inst = "ready"
                                  \/ Kind(Updater) = "install" /\ work[Updater].at = "ready"
           /\ Shown(r) => Shown(Mine)
           /\ Shown(Mine) => Shown(r) \/ (Kind(Updater) = "uninstall" /\ l = "build")
           /\ r.inst = "ready" => \/ Kind(Updater) \in Switches /\ l \in {"stop", "build"}
                                  \/ Kind(Updater) = "import" /\ l = "build"
                                  \/ r.enabled = Mine.enabled /\ ~WillWrite(Pup(Updater))
  PROVE  GInv'
<1> DEFINE q == Pup(Updater)
<1>1. /\ work' \in [Patchers -> Works] /\ pup' \in [Pups -> PupStates]
      /\ work'[Updater].job = work[Updater].job /\ work'[Updater].then = work[Updater].then
      /\ work'[Loop] = work[Loop]
      /\ Updated(Updater, r, l) \/ NotThere(Updater)
  BY UpdateEffect, Goroutines DEF IInv
<1>2. q \in Pups /\ pup \in [Pups -> PupStates] /\ Mine = pup[q] /\ Mine' = pup'[q]
  BY <1>1, Busy, TypeParts DEF Mine, Pup, IInv
<1>3. \A p \in Pups \ {q} : pup'[p] = pup[p]
  BY <1>1, <1>2 DEF Updated, NotThere
<1>4. CASE NotThere(Updater)
  <2>1. Mine = NoPup /\ Mine' = NoPup /\ work'[Updater].at \in {"broken", "failed"}
    BY <1>2, <1>4, OnErrorLabel, Goroutines DEF NotThere
  <2>2. OwnStep(q, Kind(Updater), work[Updater].at, Mine, work'[Updater], Mine')
    BY <2>1, PupStateFields DEF OwnStep, Route, Shown
  <2> QED
    BY <1>1, <1>3, <2>2, OwnStepKeeps DEF keepFiles, Pup, Kind, past
<1>5. CASE Updated(Updater, r, l)
  <2>1. Mine # NoPup /\ Mine' = r /\ work'[Updater].at = l
    BY <1>2, <1>5 DEF Updated
  <2>2. work'[Updater].state = r
    <3>1. work' = [work EXCEPT ![Updater].at = l, ![Updater].state = r]
      BY <1>2, <2>1 DEF UpdatePup, Mine
    <3>2. work' = [work EXCEPT ![Updater] = [work[Updater] EXCEPT !.at = l, !.state = r]]
      BY <3>1
    <3>3. [work[Updater] EXCEPT !.at = l, !.state = r].state = r
      BY Busy DEF Works
    <3> QED
      BY <3>2, <3>3, TypeParts, Goroutines DEF IInv
  <2>3. r.inst = "ready" => WillWrite(q)' \/ (r.enabled = Mine.enabled /\ ~WillWrite(q))
    BY <1>1, <2>1 DEF WillWrite, On, Pup, Kind, Switches
  <2>4. OwnStep(q, Kind(Updater), work[Updater].at, Mine, work'[Updater], Mine')
    BY <2>1, <2>2, <2>3 DEF OwnStep, Route, Between
  <2> QED
    BY <1>1, <1>3, <2>4, OwnStepKeeps DEF keepFiles, Pup, Kind, past
<1> QED
  BY <1>1, <1>4, <1>5

\* The updater goes on at l.
LEMMA GoStepKeeps ==
  ASSUME IInv, GInv, work[Updater].at \notin {"idle", "await", "build"},
         UNCHANGED <<configVars, queue, withdrawn, pup>>,
         NEW l \in Labels \ {"idle", "start", "await", "ready", "broken"}, Goto(Updater, l),
         Route(Kind(Updater), l, "idle"), ~(Kind(Updater) = "uninstall" /\ l \in {"build", "gone"}),
         l = "stop" => Kind(Updater) = "import",
         l = "build" => /\ Kind(Updater) \in Switches
                        /\ work[Updater].at = "stop",
         Mine.inst = "ready" /\ WillWrite(Pup(Updater)) => WillWrite(Pup(Updater))'
  PROVE  GInv'
<1> DEFINE q == Pup(Updater)
<1>1. /\ work'[Updater].at = l /\ work'[Updater].job = work[Updater].job
      /\ work'[Updater].state = work[Updater].state /\ work'[Updater].then = work[Updater].then
      /\ work'[Loop] = work[Loop]
  BY TypeParts, GotoEffect, Goroutines DEF IInv
<1>2. Mine' = Mine /\ Mine = pup[q] /\ q \in Pups
  BY <1>1, Busy DEF Mine, Pup
<1>3. Mine.inst # "upgrading"
  BY <1>2 DEF GInv, StoppedInv
<1>4. /\ l = "stop" => Kind(Updater) \notin {"install", "enable", "disable"}
      /\ l = "build" /\ Mine # NoPup => work[Updater].state.enabled = Mine.enabled \/ Flipped(q)
  BY <1>2 DEF GInv, CopyInv, Switches
<1>5. OwnStep(q, Kind(Updater), work[Updater].at, Mine, work'[Updater], Mine')
  BY <1>1, <1>2, <1>3, <1>4 DEF OwnStep, Route, Between, Shown
<1> QED
  BY <1>1, <1>5, OwnStepKeeps DEF Pup, Kind
\* What the changes of its pup leave of whether it is enabled.
LEMMA MineEnabled ==
  ASSUME IInv, work[Updater].at # "idle"
  PROVE  /\ Mine \in PupStates /\ Mine.enabled \in BOOLEAN /\ Mine.inst \in Installation
         /\ \A i \in Installation : LET r == [Mine EXCEPT !.inst = i] IN
              r \in PupStates /\ r.inst = i /\ r.enabled = Mine.enabled
         /\ \A i \in Installation : LET r == [Mine EXCEPT !.inst = i, !.enabled = FALSE] IN
              r \in PupStates /\ r.inst = i
         /\ \A e \in BOOLEAN : LET r == [Mine EXCEPT !.enabled = e] IN
              r \in PupStates /\ r.inst = Mine.inst /\ r.enabled = e
<1> DEFINE m == Mine
<1>1. m \in PupStates
  BY Busy DEF Mine
<1> HIDE DEF m
<1>2. /\ m.enabled \in BOOLEAN /\ m.inst \in Installation
      /\ \A i \in Installation : LET r == [m EXCEPT !.inst = i] IN
           r \in PupStates /\ r.inst = i /\ r.enabled = m.enabled
      /\ \A i \in Installation : LET r == [m EXCEPT !.inst = i, !.enabled = FALSE] IN
           r \in PupStates /\ r.inst = i
      /\ \A e \in BOOLEAN : LET r == [m EXCEPT !.enabled = e] IN
           r \in PupStates /\ r.inst = m.inst /\ r.enabled = e
  BY <1>1 DEF PupStates
<1> QED
  BY <1>1, <1>2 DEF m

LEMMA CalmBeginnings ==
  ASSUME IInv, FInv, GInv, \/ installPup \/ uninstallPup \/ purgePup \/ enablePup
                           \/ disablePup \/ upgradePup \/ rollbackPupUpgrade
  PROVE  GInv'
<1>1. /\ work[Updater].at = "start" /\ keepFiles
      /\ UNCHANGED <<configVars, queue, withdrawn>>
      /\ Kind(Updater) \in CalmKinds
      /\ {"download", "build", "removeGob", "stop", "failed"} \subseteq Labels
      /\ {"installing", "uninstalling", "purging"} \subseteq Installation
  BY DEF installPup, uninstallPup, purgePup, enablePup, disablePup, upgradePup,
         rollbackPupUpgrade, Starting, At, Labels, keepFiles, GInv, RouteInv, Installation, past
<1>2. /\ Mine.inst # "upgrading"
      /\ Kind(Updater) = "install" => Mine.inst = "installing"
      /\ Kind(Updater) = "purge" /\ Seen.inst = "uninstalled" => ~Shown(Mine)
  <2>1. Mine = pup[Pup(Updater)] /\ Pup(Updater) \in Pups
    BY <1>1, Busy DEF Mine
  <2>2. Kind(Updater) = "install" => Mine.inst = "installing"
    BY <1>1, AtStage DEF Staged
  <2>3. Kind(Updater) = "purge" /\ Seen.inst = "uninstalled" => ~Shown(Mine)
    BY <1>1, <2>1 DEF GInv, StoppedInv, Stopped, Shown
  <2> QED
    BY <2>1, <2>2, <2>3 DEF GInv, StoppedInv
<1>3. CASE installPup
  <2>1. Kind(Updater) = "install"
        /\ UpdatePup(Updater, [Mine EXCEPT !.inst = "installing"], "download")
    BY <1>3 DEF installPup, Starting
  <2> QED
    BY <1>1, <1>2, <2>1, MineEnabled, UpdateStepKeeps DEF Route, Between, Shown
<1>4. CASE uninstallPup
  <2>1. /\ Kind(Updater) = "uninstall"
        /\ UpdatePup(Updater, [Mine EXCEPT !.inst = "uninstalling", !.enabled = FALSE], "build")
    BY <1>4 DEF uninstallPup, Starting
  <2> QED
    BY <1>1, <1>2, <2>1, MineEnabled, UpdateStepKeeps DEF Route, Between, Shown
<1>5. CASE purgePup
  <2>1. Kind(Updater) = "purge"
    BY <1>5 DEF purgePup, Starting
  <2>2. CASE Seen.inst # "uninstalled"
    <3>1. Goto(Updater, "failed") /\ UNCHANGED <<pup, saving>>
      BY <1>5, <2>2 DEF purgePup
    <3>2. ~WillWrite(Pup(Updater))
      BY <2>1 DEF WillWrite, Switches
    <3> QED
      BY <1>1, <2>1, <3>1, <3>2, GoStepKeeps DEF Route
  <2>3. CASE Seen.inst = "uninstalled"
    <3>1. UpdatePup(Updater, [Mine EXCEPT !.inst = "purging", !.enabled = FALSE], "removeGob")
      BY <1>5, <2>3 DEF purgePup
    <3> QED
      BY <1>1, <1>2, <2>1, <2>3, <3>1, MineEnabled, UpdateStepKeeps DEF Route, Between, Shown
  <2> QED
    BY <2>2, <2>3
<1>6. CASE enablePup
  <2>1. /\ Kind(Updater) = "enable"
        /\ UpdatePup(Updater, [Mine EXCEPT !.enabled = TRUE], "build")
    BY <1>6 DEF enablePup, Starting
  <2> QED
    BY <1>1, <1>2, <2>1, MineEnabled, UpdateStepKeeps DEF Route, Between, Shown, Switches
<1>7. CASE disablePup
  <2>1. /\ Kind(Updater) = "disable"
        /\ UpdatePup(Updater, [Mine EXCEPT !.enabled = FALSE], "stop")
    BY <1>7 DEF disablePup, Starting
  <2> QED
    BY <1>1, <1>2, <2>1, MineEnabled, UpdateStepKeeps DEF Route, Between, Shown, Switches
<1>8. ~upgradePup /\ ~rollbackPupUpgrade
  BY <1>1 DEF upgradePup, rollbackPupUpgrade, Starting, CalmKinds
<1> QED
  BY <1>3, <1>4, <1>5, <1>6, <1>7, <1>8

LEMMA CalmImports ==
  ASSUME IInv, GInv, importBlockchainData PROVE GInv'
<1> DEFINE q == Pup(Updater)
           t == work[Updater]
<1>1. /\ t.at = "start" /\ Kind(Updater) = "import" /\ UNCHANGED <<configVars, queue, withdrawn>>
      /\ Mine \in PupStates /\ t \in Works /\ t.job \in Jobs /\ q \in Pups /\ Mine = pup[q]
      /\ pup \in [Pups -> PupStates] /\ Mine.inst # "upgrading"
  BY Busy, TypeParts DEF importBlockchainData, Starting, At, keepFiles, IInv, Mine, GInv, StoppedInv, past
<1>2. ASSUME NEW seen \in PupStates, NEW l \in {"stop", "import"},
             work' = [work EXCEPT ![Updater].at = l, ![Updater].job.seen = seen]
      PROVE  /\ work'[Updater].at = l /\ work'[Updater].job.pup = q
             /\ work'[Updater].job.kind = "import" /\ work'[Updater].job.seen = seen
             /\ work'[Loop] = work[Loop]
  <2> DEFINE j == [t.job EXCEPT !.seen = seen]
             w == [t EXCEPT !.at = l, !.job = j]
  <2>1. j.pup = q /\ j.kind = "import" /\ j.seen = seen
    BY <1>1 DEF Pup, Kind, Jobs
  <2>2. work' = [work EXCEPT ![Updater] = [t EXCEPT !.at = l, !.job.seen = seen]]
    BY <1>2
  <2>3. [t EXCEPT !.at = l, !.job.seen = seen] = w
    BY <1>1 DEF Works
  <2> HIDE DEF j
  <2>4. w.at = l /\ w.job = j
    BY <1>1 DEF Works
  <2> HIDE DEF w
  <2>5. work'[Updater] = w /\ work'[Loop] = work[Loop]
    BY <2>2, <2>3, Goroutines, TypeParts DEF IInv
  <2> QED
    BY <2>1, <2>4, <2>5
<1>3. CASE Mine # NoPup /\ Mine.enabled
  <2> DEFINE m == [pup[q] EXCEPT !.enabled = FALSE]
  <2>1. /\ pup' = [pup EXCEPT ![q] = m]
        /\ work' = [work EXCEPT ![Updater].at = "stop", ![Updater].job.seen = Mine]
    BY <1>3 DEF importBlockchainData, Mine
  <2>2. m.inst = Mine.inst
    BY <1>1, MineEnabled
  <2> HIDE DEF m
  <2>3. /\ work'[Updater].at = "stop" /\ work'[Updater].job.pup = q
        /\ work'[Updater].job.kind = "import" /\ work'[Updater].job.seen = Mine
        /\ work'[Loop] = work[Loop]
    BY <1>1, <1>2, <2>1
  <2>4. Mine' = m /\ \A p \in Pups \ {q} : pup'[p] = pup[p]
    BY <1>1, <2>1, <2>3 DEF Mine, Pup
  <2>5. WillWrite(q)'
    BY <1>3, <2>3 DEF WillWrite, On, Pup, Kind, Seen
  <2>6. OwnStep(q, Kind(Updater), t.at, Mine, work'[Updater], Mine')
    BY <1>1, <2>2, <2>3, <2>4, <2>5 DEF OwnStep, Route, Shown
  <2> QED
    BY <1>1, <2>3, <2>4, <2>6, OwnStepKeeps
<1>4. CASE ~(Mine # NoPup /\ Mine.enabled)
  <2>1. /\ UNCHANGED pup
        /\ work' = [work EXCEPT ![Updater].at = "import", ![Updater].job.seen = NoPup]
    BY <1>4 DEF importBlockchainData, Mine
  <2>2. /\ work'[Updater].at = "import" /\ work'[Updater].job.pup = q
        /\ work'[Updater].job.kind = "import"
        /\ work'[Loop] = work[Loop]
    BY <1>1, <1>2, <2>1, PupStateFields
  <2>3. Mine' = Mine
    BY <2>1, <2>2 DEF Mine, Pup
  <2>4. ~WillWrite(q)
    BY <1>1 DEF WillWrite, Switches
  <2>5. OwnStep(q, Kind(Updater), t.at, Mine, work'[Updater], Mine')
    BY <1>1, <2>2, <2>3, <2>4 DEF OwnStep, Route, Shown
  <2> QED
    BY <1>1, <2>1, <2>2, <2>5, OwnStepKeeps
<1> QED
  BY <1>3, <1>4
\* At one of these points the job has a kind that comes there.
LEMMA AtRoute ==
  ASSUME IInv, GInv, work[Updater].at # "idle"
  PROVE  /\ Kind(Updater) \in CalmKinds
         /\ Route(Kind(Updater), work[Updater].at, work[Updater].then)
         /\ Mine = pup[Pup(Updater)] /\ Pup(Updater) \in Pups
         /\ Mine.inst # "upgrading"
         /\ work[Updater].at = "broken" => Mine = NoPup
  BY Busy DEF GInv, RouteInv, Mine, StoppedInv

LEMMA CalmPreparation ==
  ASSUME Calm, IInv, FInv, GInv, DownloadPup \/ PreparePup \/ RestoreState \/ StopContainer
                                   \/ ImportData
  PROVE  GInv'
<1> USE DEF Calm
<1>1. /\ work[Updater].at \in {"download", "prepare", "restore", "stop", "import"}
      /\ UNCHANGED <<configVars, queue, withdrawn>>
      /\ {"prepare", "build", "import", "done"} \subseteq Labels
  BY DEF DownloadPup, PreparePup, RestoreState, StopContainer, ImportData, At, keepFiles, Labels, past
<1>2. /\ Route(Kind(Updater), work[Updater].at, work[Updater].then)
      /\ Kind(Updater) \in CalmKinds
  BY <1>1, AtRoute
<1>3. CASE DownloadPup
  <2>1. Kind(Updater) = "install"
    BY <1>2, <1>3 DEF DownloadPup, At, Route, Between, past
  <2>2. Goto(Updater, "prepare") /\ UNCHANGED pup
    BY <1>3, <2>1 DEF DownloadPup, past
  <2>3. ~WillWrite(Pup(Updater))
    BY <2>1 DEF WillWrite, Switches
  <2> QED
    BY <1>1, <2>1, <2>2, <2>3, GoStepKeeps DEF Route, Between
<1>4. CASE PreparePup
  <2>1. Kind(Updater) = "install" /\ work[Updater].at = "prepare" /\ keepFiles
    BY <1>2, <1>4 DEF PreparePup, At, Route, Between
  <2>2. UpdatePup(Updater, [Mine EXCEPT !.enabled = TRUE], "build")
    BY <1>4, <2>1 DEF PreparePup
  <2>3. Mine.inst = "installing"
    BY <2>1, AtStage, AtRoute DEF Staged, Between
  <2> QED
    BY <1>1, <2>1, <2>2, <2>3, MineEnabled, UpdateStepKeeps DEF Route, Between, Shown
<1>5. ~RestoreState
  BY <1>2 DEF RestoreState, At, Route, Between
<1>6. CASE StopContainer
  <2>1. Kind(Updater) \in {"disable", "import"} /\ work[Updater].at = "stop"
    BY <1>2, <1>6 DEF StopContainer, At, Route, Between
  <2>2. UNCHANGED pup
    BY <1>6 DEF StopContainer
  <2>3. CASE Kind(Updater) = "import"
    <3>1. Goto(Updater, "import")
      BY <1>6, <2>3 DEF StopContainer
    <3>2. work'[Updater].at = "import" /\ work'[Updater].job = work[Updater].job
      BY <1>1, <3>1, TypeParts, GotoEffect, Goroutines DEF IInv, Labels
    <3>3. WillWrite(Pup(Updater)) => WillWrite(Pup(Updater))'
      BY <2>1, <2>3, <3>2 DEF WillWrite, On, Pup, Kind, Seen, Switches
    <3> QED
      BY <1>1, <2>2, <2>3, <3>1, <3>3, GoStepKeeps DEF Route
  <2>4. CASE Kind(Updater) = "disable"
    <3>1. Goto(Updater, "build")
      BY <1>6, <2>4 DEF StopContainer
    <3>2. work'[Updater].at = "build" /\ work'[Updater].job = work[Updater].job
      BY <1>1, <3>1, TypeParts, GotoEffect, Goroutines DEF IInv, Labels
    <3>3. WillWrite(Pup(Updater)) => WillWrite(Pup(Updater))'
      BY <2>1, <2>4, <3>2 DEF WillWrite, On, Pup, Kind, Switches
    <3> QED
      BY <1>1, <2>1, <2>2, <2>4, <3>1, <3>3, GoStepKeeps DEF Route, Between, Switches
  <2> QED
    BY <2>1, <2>3, <2>4
<1>7. CASE ImportData
  <2>1. Kind(Updater) = "import" /\ work[Updater].at = "import" /\ keepFiles
    BY <1>2, <1>7 DEF ImportData, At, Route, Between
  <2>2. CASE Seen.enabled
    <3>1. UpdatePup(Updater, [Mine EXCEPT !.enabled = TRUE], "build")
      BY <1>7, <2>2 DEF ImportData
    <3> QED
      BY <1>1, <2>1, <3>1, MineEnabled, AtRoute, UpdateStepKeeps DEF Route, Between, Shown
  <2>3. CASE ~Seen.enabled
    <3>1. Goto(Updater, "done") /\ UNCHANGED pup
      BY <1>7, <2>3 DEF ImportData
    <3>2. ~WillWrite(Pup(Updater))
      BY <2>1, <2>3 DEF WillWrite, Switches
    <3> QED
      BY <1>1, <2>1, <3>1, <3>2, GoStepKeeps DEF Route
  <2> QED
    BY <2>2, <2>3
<1> QED
  BY <1>3, <1>4, <1>5, <1>6, <1>7

LEMMA CalmEndings ==
  ASSUME IInv, FInv, GInv, \/ CreateSnapshot \/ UpdateVersion \/ MarkReady \/ MarkUninstalled
                           \/ DeleteSnapshot \/ markPupBroken
  PROVE  GInv'
<1>1. /\ work[Updater].at \in {"snapshot", "manifest", "ready", "gone", "dropSnapshot", "broken"}
      /\ UNCHANGED <<configVars, queue, withdrawn>>
      /\ {"failed", "done"} \subseteq Labels
      /\ {"ready", "uninstalled", "broken"} \subseteq Installation
  BY DEF CreateSnapshot, UpdateVersion, MarkReady, MarkUninstalled, DeleteSnapshot,
         markPupBroken, At, keepFiles, Labels, Installation, past
<1>2. /\ Route(Kind(Updater), work[Updater].at, work[Updater].then)
      /\ Kind(Updater) \in CalmKinds
      /\ Mine = pup[Pup(Updater)] /\ Pup(Updater) \in Pups
  BY <1>1, AtRoute
<1>3. ~CreateSnapshot /\ ~UpdateVersion /\ ~DeleteSnapshot
  BY <1>2 DEF CreateSnapshot, UpdateVersion, DeleteSnapshot, At, Route, Between, past
<1>4. CASE MarkReady
  <2>1. Kind(Updater) = "install" /\ work[Updater].at = "ready" /\ keepFiles
    BY <1>2, <1>4 DEF MarkReady, At, Route, Between
  <2> DEFINE r == [Mine EXCEPT !.inst = "ready", !.enabled = @ \/ FALSE]
  <2>2. UpdatePup(Updater, r, "done")
    BY <1>4, <2>1 DEF MarkReady
  <2>3. r \in PupStates /\ r.inst = "ready" /\ r.enabled = Mine.enabled
    <3>1. \A m \in PupStates :
            LET n == [m EXCEPT !.inst = "ready", !.enabled = @ \/ FALSE]
            IN  n \in PupStates /\ n.inst = "ready" /\ n.enabled = m.enabled
      BY DEF PupStates, Installation
    <3> QED
      BY <1>1, <3>1, MineEnabled
  <2>4. Mine.inst = "installing"
    BY <2>1, AtStage, AtRoute DEF Staged, Between
  <2>5. ~WillWrite(Pup(Updater))
    BY <2>1 DEF WillWrite, Switches
  <2> HIDE DEF r
  <2> QED
    BY <1>1, <2>1, <2>2, <2>3, <2>4, <2>5, UpdateStepKeeps DEF Route, Shown
<1>5. CASE MarkUninstalled
  <2>1. Kind(Updater) = "uninstall" /\ work[Updater].at = "gone" /\ keepFiles
    BY <1>2, <1>5 DEF MarkUninstalled, At, Route, Between
  <2>2. UpdatePup(Updater, [Mine EXCEPT !.inst = "uninstalled"], "done")
    BY <1>5 DEF MarkUninstalled
  <2>3. Mine.inst = "uninstalling"
    BY <2>1 DEF GInv, StoppedInv, Between
  <2> QED
    BY <1>1, <2>1, <2>2, <2>3, MineEnabled, UpdateStepKeeps DEF Route, Shown
<1>6. CASE markPupBroken
  <2>1. work[Updater].at = "broken" /\ keepFiles
        /\ UpdatePup(Updater, [Mine EXCEPT !.inst = "broken"], "failed")
    BY <1>6 DEF markPupBroken, At
  <2>2. Mine = NoPup
    BY <2>1, AtRoute
  <2>3. Goto(Updater, "failed") /\ UNCHANGED pup
    BY <1>2, <2>1, <2>2 DEF UpdatePup, OnError
  <2> QED
    BY <1>1, <2>1, <2>2, <2>3, PupStateFields, GoStepKeeps DEF Route
<1> QED
  BY <1>3, <1>4, <1>5, <1>6

LEMMA CalmRemovals ==
  ASSUME IInv, FInv, GInv, RemoveGob \/ RemoveSource \/ PurgePup
  PROVE  GInv'
<1> DEFINE q == Pup(Updater)
<1>1. /\ work[Updater].at \in {"removeGob", "removeSource", "purge"}
      /\ UNCHANGED <<configVars, queue, withdrawn>>
      /\ {"removeSource", "purge", "done"} \subseteq Labels
  BY DEF RemoveGob, RemoveSource, PurgePup, At, Labels, past
<1>2. /\ Kind(Updater) = "purge" /\ Mine = pup[q] /\ q \in Pups
      /\ Mine.inst = "purging"
  BY <1>1, AtRoute, AtStage DEF Route, Between, Staged
<1>3. ~WillWrite(q)
  BY <1>2 DEF WillWrite, Switches
<1>4. CASE RemoveGob \/ RemoveSource
  <2>1. PICK l \in {"removeSource", "purge"} : Goto(Updater, l) /\ UNCHANGED pup
    BY <1>4 DEF RemoveGob, RemoveSource, past
  <2> QED
    BY <1>1, <1>2, <1>3, <2>1, GoStepKeeps DEF Route
<1>5. CASE PurgePup
  <2>1. pup' = [pup EXCEPT ![q] = NoPup] /\ Goto(Updater, "done")
    BY <1>5 DEF PurgePup, past
  <2>2. /\ work'[Updater].at = "done" /\ work'[Updater].job = work[Updater].job
        /\ work'[Loop] = work[Loop]
    BY <1>1, <2>1, TypeParts, GotoEffect, Goroutines DEF IInv
  <2>3. Mine' = NoPup /\ \A p \in Pups \ {q} : pup'[p] = pup[p]
    BY <1>2, <2>1, <2>2, TypeParts DEF IInv, Mine, Pup
  <2>4. OwnStep(q, Kind(Updater), work[Updater].at, Mine, work'[Updater], Mine')
    BY <1>2, <2>2, <2>3, PupStateFields DEF OwnStep, Route, Shown
  <2> QED
    BY <1>1, <2>2, <2>3, <2>4, OwnStepKeeps DEF Pup, Kind
<1> QED
  BY <1>4, <1>5
\* The pups the includes file is to list.
Listed == [p \in Pups |-> pup[p].inst \in {"installing", "ready"}]

LEMMA ListedPups ==
  ASSUME pup \in [Pups -> PupStates]
  PROVE  Listed # Missing /\ \A p \in Pups : Listed[p] <=> Shown(pup[p])
<1>1. Listed \in Listings
  <2>1. \A p \in Pups : (pup[p].inst \in {"installing", "ready"}) \in BOOLEAN
    OBVIOUS
  <2> QED
    BY <2>1, Zenon DEF Listings, Listed
<1>2. \A p \in Pups : Listed[p] <=> Shown(pup[p])
  BY DEF Listed, Shown
<1> QED
  BY <1>1, <1>2, LifecycleAssumption

\* The patches of the jobs: what they make of which files.
LEMMA BuildOps ==
  ASSUME IInv, GInv, BuildPup
  PROVE  LET q == Pup(Updater)
             k == Kind(Updater)
         IN  /\ k \in {"install", "uninstall", "enable", "disable", "import"}
             /\ \A c \in Becoming(Includes)' :
                  c = Listed \/ (k \in {"enable", "disable", "import"} /\ c = nixDir[Includes])
             /\ \A p \in Pups \ {q} : \A c \in Becoming(p)' : c = nixDir[p]
             /\ k # "uninstall" => \A p : p = q => \A c \in Becoming(p)' :
                  /\ c = [enabled |-> Written.enabled, version |-> Written.version]
                  /\ c # Missing
             /\ work'[Updater].then = CASE k = "install" -> "ready" [] k = "uninstall" -> "gone"
                                        [] OTHER -> "done"
             /\ work'[Updater].at = "await" /\ work'[Updater].job = work[Updater].job
             /\ work'[Loop] = work[Loop] /\ UNCHANGED <<pup, queue, withdrawn, nixDir, running>>
             /\ patch'[Updater].at = "write" /\ patch'[Loop] = patch[Loop]
<1> DEFINE q == Pup(Updater)
           k == Kind(Updater)
<1>1. work[Updater].at = "build" /\ work[Updater] \in Works /\ q \in Pups
      /\ pup \in [Pups -> PupStates] /\ pup[q] \in PupStates
      /\ patch \in [Patchers -> Patching] /\ work \in [Patchers -> Works]
  BY Busy, TypeParts DEF BuildPup, At, IInv, NixTypeOK, Patching, past
<1>2. k \in {"install", "uninstall", "enable", "disable", "import"}
  BY <1>1, AtRoute DEF Route, Between
<1> DEFINE w == [enabled |-> Written.enabled, version |-> Written.version]
           n == CASE k = "install" -> "ready" [] k = "uninstall" -> "gone" [] OTHER -> "done"
<1>3. PICK ops : /\ ApplyPatch(Updater, ops, n)
                 /\ \/ /\ k \in {"enable", "disable", "import"}
                       /\ ops = <<[file |-> q, to |-> w]>>
                    \/ /\ k = "install"
                       /\ ops = <<[file |-> q, to |-> w], [file |-> Includes, to |-> Listed]>>
                    \/ /\ k = "uninstall"
                       /\ ops = <<[file |-> q, to |-> Missing], [file |-> Includes, to |-> Listed]>>
  BY <1>2 DEF BuildPup, WritePupFile, RemovePupFile, UpdateIncludesFile, Listed, past
<1> HIDE DEF n, w
<1>4. /\ patch' = [patch EXCEPT ![Updater] = [at |-> "write", ops |-> ops, cfg |-> <<>>]]
      /\ work' = [work EXCEPT ![Updater] = [work[Updater] EXCEPT !.at = "await", !.then = n]]
      /\ UNCHANGED <<pup, queue, withdrawn, nixDir, running>>
  BY <1>3 DEF ApplyPatch, Apply, past
<1>5. /\ patch'[Updater].at = "write" /\ patch'[Updater].ops = ops /\ patch'[Loop] = patch[Loop]
  BY <1>1, <1>4, Goroutines
<1>6. /\ work'[Updater].at = "await" /\ work'[Updater].job = work[Updater].job
      /\ work'[Updater].then = n /\ work'[Loop] = work[Loop]
  <2>1. work'[Updater] = [work[Updater] EXCEPT !.at = "await", !.then = n]
        /\ work'[Loop] = work[Loop]
    BY <1>1, <1>4, Goroutines
  <2> QED
    BY <1>1, <2>1 DEF Works
<1>7. \A f : \A c \in Becoming(f)' :
        \/ \E i \in DOMAIN ops : ops[i].file = f /\ c = ops[i].to
        \/ c = nixDir[f] /\ \A i \in DOMAIN ops : ops[i].file # f
  BY <1>4, <1>5 DEF Becoming
<1>8. /\ DOMAIN ops \subseteq {1, 2} /\ 1 \in DOMAIN ops /\ ops[1].file = q
      /\ k # "uninstall" => ops[1].to = w
      /\ 2 \in DOMAIN ops => ops[2].file = Includes /\ ops[2].to = Listed
      /\ 2 \notin DOMAIN ops => k \in {"enable", "disable", "import"}
  BY <1>2, <1>3
<1>9. q # Includes /\ \A p \in Pups : p # Includes
  BY <1>1, LifecycleAssumption
<1>10. w # Missing
  <2>1. Written \in PupStates
    BY <1>1 DEF Written, Mine, Works
  <2> QED
    BY <2>1, LifecycleAssumption DEF w, PupStates, PupFiles
<1>11. ASSUME NEW c \in Becoming(Includes)'
       PROVE  c = Listed \/ (k \in {"enable", "disable", "import"} /\ c = nixDir[Includes])
  <2>1. CASE \E i \in DOMAIN ops : ops[i].file = Includes /\ c = ops[i].to
    BY <1>8, <1>9, <2>1
  <2>2. CASE c = nixDir[Includes] /\ \A i \in DOMAIN ops : ops[i].file # Includes
    BY <1>8, <2>2
  <2> QED
    BY <1>7, <1>11, <2>1, <2>2
<1>12. ASSUME NEW p \in Pups \ {q}, NEW c \in Becoming(p)' PROVE c = nixDir[p]
  <2>1. \A i \in DOMAIN ops : ops[i].file # p
    BY <1>8, <1>9
  <2> QED
    BY <1>7, <1>12, <2>1
<1>13. ASSUME k # "uninstall", NEW p, p = q, NEW c \in Becoming(p)' PROVE c = w
  <2>1. \A i \in DOMAIN ops : ops[i].file = p => ops[i].to = w
    BY <1>8, <1>9, <1>13
  <2>2. ops[1].file = p /\ 1 \in DOMAIN ops
    BY <1>8, <1>13
  <2> QED
    BY <1>7, <1>13, <2>1, <2>2
<1> QED
  BY <1>2, <1>4, <1>5, <1>6, <1>10, <1>11, <1>12, <1>13 DEF n, w

LEMMA CalmBuilds ==
  ASSUME IInv, FInv, GInv, BuildPup \/ RebuildOnly \/ RemoveFromConfig \/ AddBack
  PROVE  GInv'
<1> DEFINE q == Pup(Updater)
           k == Kind(Updater)
<1>1. ~RebuildOnly /\ ~RemoveFromConfig /\ ~AddBack
  BY AtRoute DEF RebuildOnly, RemoveFromConfig, AddBack, At, Route, Between
<1>2. BuildPup
  BY <1>1
<1>3. /\ work[Updater].at = "build" /\ patch[Updater].at = "idle" /\ patch[Updater].ops = <<>>
      /\ running = nixDir
  BY <1>2 DEF BuildPup, ApplyPatch, Apply, At, GInv, PatchInv, past
<1>4. /\ k \in {"install", "uninstall", "enable", "disable", "import"}
      /\ work'[Updater].at = "await" /\ work'[Updater].job = work[Updater].job
      /\ work'[Updater].then = CASE k = "install" -> "ready" [] k = "uninstall" -> "gone"
                                 [] OTHER -> "done"
      /\ work'[Loop] = work[Loop] /\ UNCHANGED <<pup, queue, withdrawn, nixDir, running>>
      /\ patch'[Updater].at = "write" /\ patch'[Loop] = patch[Loop]
  BY <1>2, BuildOps
<1>5. /\ Pup(Updater)' = q /\ Kind(Updater)' = k /\ q \in Pups /\ Mine = pup[q] /\ Mine' = Mine
      /\ Pup(Loop)' = Pup(Loop) /\ Kind(Loop)' = Kind(Loop)
      /\ pup \in [Pups -> PupStates]
  BY <1>3, <1>4, AtRoute, TypeParts DEF Pup, Kind, Mine, IInv
<1>6. RouteInv'
  BY <1>3, <1>4, <1>5 DEF GInv, RouteInv, Route, Between
<1>7. PatchInv'
  BY <1>3, <1>4 DEF GInv, PatchInv
<1>8. StoppedInv'
  <2>1. k = "uninstall" => Mine.inst = "uninstalling"
    BY <1>3 DEF GInv, StoppedInv, Between
  <2> QED
    BY <1>4, <1>5, <2>1 DEF GInv, StoppedInv, Stopped, Between
<1>9. CopyInv'
  BY <1>4 DEF CopyInv
<1>10. /\ k = "install" => Mine.inst = "installing"
       /\ k = "uninstall" => Mine.inst = "uninstalling"
  BY <1>3, AtStage, AtRoute DEF Staged, GInv, StoppedInv, Between
<1>11. ASSUME NEW p \in Pups
       PROVE  /\ Installed(p)' <=> \/ pup[p].inst = "ready" 
                                   \/ k = "install" /\ p = q
              /\ Stopped(p)' <=> ~Shown(pup[p])
              /\ Flipped(p)' <=> Flipped(p)
              /\ ~Leaving(p)' /\ (Leaving(p) <=> k = "uninstall" /\ p = q)
              /\ WillWrite(p) => p = q /\ k # "install"
              /\ pup[p].inst = "ready" => Installed(p)
              /\ pup[p].inst \in Installation
  BY <1>3, <1>4, <1>5, PupStateFields
     DEF Installed, Stopped, Shown, Flipped, Leaving, WillWrite, On, Between, Switches, Withdrawn
<1>12. \A f : Becoming(f) = {nixDir[f]}
  BY <1>3 DEF Becoming
<1>13. ASSUME NEW p \in Pups, NEW c \in Becoming(Includes)' PROVE ListRight(c, p)'
  <2>1. CASE c = Listed
    <3>1. c # Missing /\ (c[p] <=> Shown(pup[p]))
      BY <1>5, <2>1, ListedPups
    <3> QED
      BY <1>5, <1>10, <1>11, <3>1 DEF ListRight, Shown
  <2>2. CASE k \in {"enable", "disable", "import"} /\ c = nixDir[Includes]
    <3>1. ListRight(c, p)
      BY <1>12, <2>2 DEF GInv, NixInv
    <3> QED
      BY <1>11, <2>2, <3>1 DEF ListRight, Stopped, Shown
  <2> QED
    BY <1>2, <1>13, <2>1, <2>2, BuildOps
<1>14. ASSUME NEW p \in Pups, NEW c \in Becoming(p)' PROVE FileRight(c, p)'
  <2>1. CASE p # q
    <3>1. c = nixDir[p]
      BY <1>2, <1>14, <2>1, BuildOps
    <3>2. FileRight(c, p)
      BY <1>12, <3>1 DEF GInv, NixInv
    <3> QED
      BY <1>4, <1>11, <2>1, <3>2 DEF FileRight
  <2>2. CASE p = q
    <3>1. CASE k = "uninstall"
      BY <1>5, <1>10, <1>11, <2>2, <3>1 DEF FileRight
    <3>2. CASE k # "uninstall"
      <4>1. c = [enabled |-> Written.enabled, version |-> Written.version] /\ c # Missing
        BY <1>2, <1>14, <2>2, <3>2, BuildOps
      <4>2. Mine # NoPup => Written.enabled = Mine.enabled \/ Flipped(q)
        BY <1>3, <1>4, <3>2 DEF GInv, CopyInv, Written
      <4>3. Installed(q)' => Mine # NoPup
        BY <1>5, <1>10, <1>11, PupStateFields
      <4> QED
        BY <1>4, <1>5, <1>11, <2>2, <4>1, <4>2, <4>3 DEF FileRight
    <3> QED
      BY <3>1, <3>2
  <2> QED
    BY <2>1, <2>2
<1>15. NixInv'
  BY <1>13, <1>14 DEF NixInv
<1> QED
  BY <1>6, <1>7, <1>8, <1>9, <1>15 DEF GInv
\* Steps that leave the pups and the jobs alone, and write what is to be written.
LEMMA CalmKept ==
  ASSUME GInv, UNCHANGED <<pup, queue, withdrawn, work>>, patch'[Loop] = patch[Loop],
         \A f : Becoming(f)' \subseteq Becoming(f), PatchInv'
  PROVE  GInv'
<1>1. RouteInv' /\ StoppedInv' /\ CopyInv'
  BY DEF GInv, RouteInv, StoppedInv, CopyInv, Mine, Seen, Stopped, Flipped, Pup, Kind, Withdrawn
<1>2. \A p : /\ Installed(p)' = Installed(p) /\ Stopped(p)' = Stopped(p)
             /\ Leaving(p)' = Leaving(p) /\ Flipped(p)' = Flipped(p)
             /\ WillWrite(p)' = WillWrite(p)
  BY DEF Installed, Stopped, Leaving, Flipped, WillWrite, On, Pup, Kind, Seen, Withdrawn
<1>3. NixInv'
  BY <1>2, NixKept DEF GInv
<1> QED
  BY <1>1, <1>3 DEF GInv

LEMMA CalmPatches ==
  ASSUME Calm, IInv, GInv, NEW a \in Patchers, PatchStep(a) PROVE GInv'
<1>1. /\ UNCHANGED <<pup, queue, withdrawn, work>> /\ "nix" \notin Faults
      /\ patch \in [Patchers -> Patching] /\ nixDir \in Dirs
  BY TypeParts DEF PatchStep, pupVars, Calm, IInv, NixTypeOK, Patching, past
<1>2. a = Updater
  BY <1>1, Goroutines DEF PatchStep, Write, Evaluate, Switch, GInv, RouteInv, past
<1>3. patch[Updater] \in Patching
  BY <1>1, Goroutines
<1>4. CASE Write(Updater)
  <2> DEFINE ops == patch[Updater].ops
             o == Head(ops)
  <2>1. /\ patch[Updater].at = "write" /\ ops # <<>> /\ ops \in Seq(Ops)
        /\ nixDir' = [nixDir EXCEPT ![o.file] = o.to] /\ running' = running
        /\ patch' = [patch EXCEPT ![Updater] = [patch[Updater] EXCEPT !.ops = Tail(ops)]]
    BY <1>3, <1>4 DEF Write, Patching
  <2>2. [patch[Updater] EXCEPT !.ops = Tail(ops)].at = "write"
        /\ [patch[Updater] EXCEPT !.ops = Tail(ops)].ops = Tail(ops)
    BY <1>3, <2>1 DEF Patching
  <2>3. /\ patch'[Updater].at = "write" /\ patch'[Updater].ops = Tail(ops)
        /\ patch'[Loop] = patch[Loop]
    BY <1>1, <2>1, <2>2, Goroutines
  <2>4. PatchInv'
    BY <1>1, <2>1, <2>3 DEF GInv, PatchInv
  <2>5. /\ o = ops[1] /\ 1 \in DOMAIN ops /\ o \in Ops
        /\ \A i \in DOMAIN Tail(ops) : i + 1 \in DOMAIN ops /\ Tail(ops)[i] = ops[i + 1]
        /\ \A i \in DOMAIN ops : i # 1 => i - 1 \in DOMAIN Tail(ops) /\ Tail(ops)[i - 1] = ops[i]
    BY <2>1
  <2>6. o.file \in Files
    BY <2>5 DEF Ops
  <2>7. ASSUME NEW f, NEW c \in Becoming(f)' PROVE c \in Becoming(f)
    <3> DEFINE rest == Tail(ops)
    <3> HIDE DEF rest, ops
    <3>1. \/ \E i \in DOMAIN rest : rest[i].file = f /\ c = rest[i].to
          \/ c = nixDir'[f] /\ \A i \in DOMAIN rest : rest[i].file # f
      BY <2>3, <2>7 DEF Becoming, rest
    <3>2. \A i \in DOMAIN ops : ops[i].file = f => ops[i].to \in Becoming(f)
      BY DEF Becoming, ops
    <3>3. CASE \E i \in DOMAIN rest : rest[i].file = f /\ c = rest[i].to
      BY <2>5, <3>2, <3>3 DEF rest
    <3>4. CASE c = nixDir'[f] /\ \A i \in DOMAIN rest : rest[i].file # f
      <4>1. CASE f = o.file
        <5>1. c = o.to
          BY <1>1, <2>1, <2>6, <3>4, <4>1 DEF Dirs, ops
        <5> QED
          BY <2>5, <3>2, <4>1, <5>1 DEF ops
      <4>2. CASE f # o.file
        <5>1. c = nixDir[f]
          BY <1>1, <2>1, <2>6, <3>4, <4>2 DEF Dirs, ops
        <5>2. \A i \in DOMAIN ops : ops[i].file # f
          BY <2>5, <3>4, <4>2 DEF ops, rest
        <5> QED
          BY <5>1, <5>2 DEF Becoming, ops
      <4> QED
        BY <4>1, <4>2
    <3> QED
      BY <3>1, <3>3, <3>4
  <2> QED
    BY <1>1, <2>3, <2>4, <2>7, CalmKept
<1>5. CASE Evaluate(Updater)
  <2>1. /\ patch[Updater].at = "write" /\ patch[Updater].ops = <<>> /\ UNCHANGED <<nixDir, running>>
        /\ patch' = [patch EXCEPT ![Updater] =
                       [patch[Updater] EXCEPT !.at = "switch", !.cfg = nixDir]]
    BY <1>5 DEF Evaluate
  <2>2. LET n == [patch[Updater] EXCEPT !.at = "switch", !.cfg = nixDir]
        IN  n.at = "switch" /\ n.cfg = nixDir /\ n.ops = <<>>
    BY <1>3, <2>1 DEF Patching
  <2>3. /\ patch'[Updater].at = "switch" /\ patch'[Updater].ops = <<>>
        /\ patch'[Updater].cfg = nixDir /\ patch'[Loop] = patch[Loop]
    BY <1>1, <2>1, <2>2, Goroutines
  <2>4. PatchInv'
    BY <1>1, <2>1, <2>3 DEF GInv, PatchInv
  <2> QED
    BY <1>1, <2>1, <2>3, <2>4, BecomingKept, CalmKept
<1>6. CASE Switch(Updater)
  <2>1. /\ patch[Updater].at = "switch" /\ running' = patch[Updater].cfg /\ nixDir' = nixDir
        /\ patch' = [patch EXCEPT ![Updater] = [NoPatch EXCEPT !.at = "applied"]]
    BY <1>6 DEF Switch
  <2>2. [NoPatch EXCEPT !.at = "applied"].at = "applied" /\ [NoPatch EXCEPT !.at = "applied"].ops = <<>>
    BY DEF NoPatch
  <2>3. /\ patch'[Updater].at = "applied" /\ patch'[Updater].ops = <<>>
        /\ patch'[Loop] = patch[Loop] /\ patch[Updater].ops = <<>>
    BY <1>1, <2>1, <2>2, Goroutines DEF GInv, PatchInv
  <2>4. PatchInv'
    BY <1>1, <2>1, <2>3 DEF GInv, PatchInv
  <2> QED
    BY <1>1, <2>1, <2>3, <2>4, BecomingKept, CalmKept
<1> QED
  BY <1>1, <1>2, <1>4, <1>5, <1>6 DEF PatchStep, past

LEMMA CalmAwaits ==
  ASSUME IInv, FInv, GInv, NEW a \in Patchers, Await(a) PROVE GInv'
<1> DEFINE q == Pup(Updater)
           t == work[Updater]
<1>1. a = Updater
  BY Goroutines DEF Await, GInv, RouteInv, past
<1>2. /\ t.at = "await" /\ patch[Updater].at \in Result /\ patch' = [patch EXCEPT ![Updater] = NoPatch]
      /\ UNCHANGED <<nixDir, running, pup, queue, withdrawn>>
  BY <1>1 DEF Await, Discard, past
<1>3. patch[Updater].at = "applied" /\ patch[Updater].ops = <<>> /\ running = nixDir
  BY <1>2 DEF GInv, PatchInv, Result
<1>4. /\ patch'[Updater] = NoPatch /\ patch'[Loop] = patch[Loop]
      /\ NoPatch.at = "idle" /\ NoPatch.ops = <<>>
  BY <1>2, Goroutines, TypeParts DEF IInv, NixTypeOK, NoPatch
<1>5. /\ Route(Kind(Updater), "await", t.then) /\ Kind(Updater) \in CalmKinds
      /\ Mine = pup[q] /\ q \in Pups
  BY <1>2, AtRoute
<1>6. /\ t.then \in {"ready", "gone", "done"} /\ t.then \in Labels
      /\ t.then = "ready" <=> Kind(Updater) = "install"
      /\ t.then = "gone" <=> Kind(Updater) = "uninstall"
  BY <1>5 DEF Route, Between, Labels
<1>7. Goto(Updater, t.then)
  BY <1>1, <1>3 DEF Await, past
<1>8. /\ work'[Updater].at = t.then /\ work'[Updater].job = t.job /\ work'[Loop] = work[Loop]
      /\ work'[Updater].then = t.then /\ work'[Updater].state = t.state
  BY <1>6, <1>7, TypeParts, GotoEffect, Goroutines DEF IInv
<1>9. /\ Pup(Updater)' = q /\ Kind(Updater)' = Kind(Updater) /\ Mine' = Mine
      /\ Pup(Loop)' = Pup(Loop) /\ Kind(Loop)' = Kind(Loop)
  BY <1>2, <1>8 DEF Pup, Kind, Mine
<1>10. RouteInv' /\ PatchInv'
  BY <1>2, <1>3, <1>4, <1>5, <1>6, <1>8, <1>9 DEF GInv, RouteInv, PatchInv, Route, Between
<1>11. StoppedInv' /\ CopyInv'
  BY <1>2, <1>6, <1>8, <1>9
     DEF GInv, StoppedInv, CopyInv, Stopped, Between
<1>12. ASSUME NEW p \in Pups
       PROVE  /\ Installed(p)' = Installed(p) /\ Stopped(p)' = Stopped(p)
              /\ ~Leaving(p)' /\ ~Leaving(p) /\ Flipped(p)' = Flipped(p) /\ ~WillWrite(p)
  BY <1>2, <1>6, <1>8, <1>9
     DEF Installed, Stopped, Leaving, Flipped, WillWrite, On, Between, Withdrawn
<1>13. NixInv'
  <2>1. \A f : Becoming(f)' \subseteq Becoming(f)
    BY <1>2, <1>3, <1>4, BecomingKept
  <2> QED
    BY <1>12, <2>1, NixKept, <1>2 DEF GInv
<1> QED
  BY <1>10, <1>11, <1>13 DEF GInv
\* An installed pup has a state.
LEMMA InstalledIsThere ==
  ASSUME IInv, FInv, NEW p \in Pups, Installed(p) PROVE pup[p] # NoPup
<1>1. CASE pup[p].inst = "ready"
  BY <1>1, PupStateFields
<1>2. CASE pup[p].inst # "ready"
  <2>1. /\ work[Updater].at # "idle" /\ Pup(Updater) = p
        /\ Between(work[Updater].at, work[Updater].then, {"ready"}, {"ready"})
    BY <1>2 DEF Installed, On
  <2>2. Mine.inst \in {"installing", "upgrading"} /\ Mine = pup[p]
    BY <2>1, AtStage DEF Staged, Between, Mine
  <2> QED
    BY <2>2, PupStateFields
<1> QED
  BY <1>1, <1>2

\* A step of the main loop: a pup whose switch it sets has a job to write that, a
\* pup it adds has no other job, and a purge it sends is for a pup that is out.
LEMMA LoopStepKeeps ==
  ASSUME IInv, FInv, GInv, RouteInv', UNCHANGED configVars, work'[Updater] = work[Updater],
         \A p \in Pups : Flipped(p) /\ pup[p] # NoPup => Flipped(p)',
         \A p \in Pups : \/ pup'[p] = pup[p]
                         \/ Flipped(p)' /\ pup'[p].inst = pup[p].inst /\ pup[p] # NoPup
                         \/ pup[p] = NoPup /\ ~On(Updater, p) /\ pup'[p].inst = "installing",
         \A i \in DOMAIN queue' :
           queue'[i].kind = "purge" /\ queue'[i].seen.inst = "uninstalled"
             => pup'[queue'[i].pup].inst \notin {"installing", "ready"}
  PROVE  GInv'
<1> DEFINE q == Pup(Updater)
<1>1. /\ Pup(Updater)' = q /\ Kind(Updater)' = Kind(Updater) /\ Seen' = Seen
      /\ \A p : On(Updater, p)' <=> On(Updater, p)
  BY DEF Pup, Kind, Seen, On
<1>2. work[Updater].at # "idle" => q \in Pups /\ On(Updater, q)
  BY Busy DEF On
<1>3. PatchInv'
  BY DEF GInv, PatchInv, configVars
<1>4. StoppedInv'
  <2>1. \A p \in Pups : pup'[p].inst # "upgrading"
    BY DEF GInv, StoppedInv
  <2>2. ASSUME work[Updater].at # "idle" 
        PROVE  Mine'.inst = Mine.inst /\ (Mine = NoPup => Mine' = NoPup)
    BY <1>1, <1>2, <2>2 DEF Mine
  <2>3. "broken" # "idle" /\ "start" # "idle"
        /\ (Between(work[Updater].at, work[Updater].then, {"build", "gone"}, {"gone"})
              => work[Updater].at # "idle")
    BY DEF Between
  <2>4. work[Updater].at # "idle" /\ Stopped(q) => Stopped(q)'
    BY <1>1, <1>2, <2>2 DEF Stopped, Mine
  <2> QED
    BY <1>1, <2>1, <2>2, <2>3, <2>4 DEF GInv, StoppedInv, Stopped
<1>5. CopyInv'
  <2>1. ASSUME work[Updater].at # "idle", Mine' # NoPup
        PROVE  Flipped(q)' \/ (Mine' = Mine /\ Mine # NoPup)
    BY <1>1, <1>2, <2>1 DEF Mine
  <2> QED
    BY <1>1, <1>2, <2>1 DEF GInv, CopyInv, Mine
<1>6. ASSUME NEW p \in Pups
      PROVE  /\ Installed(p)' => Installed(p)
             /\ Stopped(p)' /\ ~Leaving(p)' => Stopped(p) /\ ~Leaving(p)
             /\ Installed(p)' => \/ Flipped(p)' \/ WillWrite(p)'
                                 \/ /\ pup'[p].enabled = pup[p].enabled
                                    /\ ~Flipped(p) /\ ~WillWrite(p)
  <2>1. Installed(p)' => Installed(p)
    BY <1>1 DEF Installed
  <2>2. Leaving(p)' = Leaving(p) /\ WillWrite(p)' = WillWrite(p)
    BY <1>1 DEF Leaving, WillWrite
  <2>3. Stopped(p)' => Stopped(p)
    BY PupStateFields DEF Stopped
  <2>4. Installed(p)' => pup[p] # NoPup
    BY <2>1, InstalledIsThere
  <2> QED
    BY <2>1, <2>2, <2>3, <2>4
<1>7. NixInv'
  <2>1. \A f : Becoming(f)' \subseteq Becoming(f)
    BY BecomingKept DEF configVars
  <2> QED
    BY <1>6, <2>1, NixKept DEF GInv
<1> QED
  BY <1>3, <1>4, <1>5, <1>7 DEF GInv

\* The control of the updater is as it was.
LEMMA RouteKept ==
  ASSUME GInv, UNCHANGED <<configVars, queue, withdrawn>>, work'[Updater] = work[Updater],
         work'[Loop].at \in {"idle", "adopt", "send", "done"},
         work'[Loop].at = "send" => work'[Loop].job.kind \in CalmKinds
  PROVE  RouteInv'
  BY DEF GInv, RouteInv, configVars, Kind

LEMMA CalmRequests ==
  ASSUME Calm, IInv, FInv, GInv, NEW p \in Pups, NEW kind \in AllKinds, NEW v,
         \/ kind = "install" /\ AdoptPup(p, v)
         \/ kind # "install" /\ Dispatch(kind, p, v) /\ kind \notin {"config", "touch"}
         \/ DirectUpdate(kind, p) /\ kind \in {"config", "touch"}
  PROVE  GInv'
<1>1. /\ work[Loop].at = "idle" /\ kind \in Kinds /\ UNCHANGED <<configVars, queue, withdrawn>>
      /\ kind \notin {"upgrade", "rollback", "config"}
  BY DEF AdoptPup, Dispatch, DirectUpdate, Request, Calm, past
<1>2. \E r, l : /\ work' = [work EXCEPT ![Loop] = Doing(kind, p, IF kind = "touch" THEN 0 ELSE v, r, l)]
                /\ l = IF kind = "install" THEN "adopt" ELSE IF kind = "touch" THEN "done" ELSE "send"
  BY <1>1 DEF AdoptPup, Dispatch, DirectUpdate, past
<1>3. /\ work'[Updater] = work[Updater] /\ work'[Loop].job.kind = kind /\ work'[Loop].job.pup = p
      /\ work'[Loop].at = IF kind = "install" THEN "adopt" ELSE IF kind = "touch" THEN "done"
                          ELSE "send"
  <2>1. work \in [Patchers -> Works]
    BY TypeParts DEF IInv
  <2> QED
    BY <1>2, <2>1, DoingJob, Goroutines
<1>4. RouteInv'
  BY <1>1, <1>3, RouteKept DEF AllKinds, CalmKinds
<1>5. \A x \in Pups : Flipped(x) => Flipped(x)'
  BY <1>1, <1>3 DEF Flipped, Withdrawn
<1>6. \A x \in Pups : \/ pup'[x] = pup[x]
                      \/ Flipped(x)' /\ pup'[x].inst = pup[x].inst /\ pup[x] # NoPup
  <2>1. CASE pup' = pup
    BY <2>1
  <2>2. CASE pup' # pup
    <3> DEFINE m == [pup[p] EXCEPT !.enabled = (kind = "enable")]
    <3>1. kind \in Switches /\ pup[p] # NoPup /\ pup' = [pup EXCEPT ![p] = m]
      BY <1>1, <2>2 DEF AdoptPup, Dispatch, DirectUpdate, Switches, past
    <3>2. pup[p] \in PupStates /\ pup \in [Pups -> PupStates]
      BY TypeParts DEF IInv
    <3>3. m.inst = pup[p].inst
      <4>1. \A r \in PupStates : [r EXCEPT !.enabled = (kind = "enable")].inst = r.inst
        BY DEF PupStates
      <4> QED
        BY <3>2, <4>1
    <3> HIDE DEF m
    <3>4. Flipped(p)'
      BY <1>3, <3>1 DEF Flipped, Pup, Kind, Switches, Withdrawn
    <3> QED
      BY <3>1, <3>2, <3>3, <3>4
  <2> QED
    BY <2>1, <2>2
<1>7. \A i \in DOMAIN queue' :
        queue'[i].kind = "purge" /\ queue'[i].seen.inst = "uninstalled"
          => pup'[queue'[i].pup].inst \notin {"installing", "ready"}
  <2>1. \A i \in DOMAIN queue : queue[i].pup \in Pups
    BY JobFields, TypeParts DEF IInv
  <2> QED
    BY <1>1, <1>6, <2>1 DEF GInv, StoppedInv, Stopped
<1> QED
  BY <1>1, <1>3, <1>4, <1>5, <1>6, <1>7, LoopStepKeeps
LEMMA CalmIndexing ==
  ASSUME IInv, FInv, GInv, indexPup PROVE GInv'
<1> DEFINE p == Pup(Loop)
           r == work[Loop].state
<1>1. /\ work[Loop].at = "adopt" /\ Goto(Loop, "send") /\ "send" \in Labels
      /\ pup' = [pup EXCEPT ![p] = r] /\ UNCHANGED <<configVars, queue, withdrawn>>
  BY DEF indexPup, At, Labels, past
<1>2. /\ p \in Pups /\ pup[p] = NoPup /\ p \notin purged /\ Kind(Loop) = "install"
      /\ r.inst = "installing" /\ pup \in [Pups -> PupStates]
  BY <1>1, LoopBusy, TypeParts DEF IInv, AdoptInv, FInv, KnownInv
<1>3. /\ work'[Loop].at = "send" /\ work'[Loop].job = work[Loop].job
      /\ work'[Updater] = work[Updater]
  BY <1>1, GotoEffect, Goroutines, TypeParts DEF IInv
<1>4. pup'[p] = r /\ \A x \in Pups \ {p} : pup'[x] = pup[x]
  BY <1>1, <1>2
<1>5. /\ ~On(Updater, p) /\ \A i \in DOMAIN queue : queue[i].pup # p /\ queue[i].pup \in Pups
  BY <1>2, JobFields, TypeParts DEF FInv, KnownInv, IInv
<1>6. RouteInv'
  BY <1>1, <1>2, <1>3, RouteKept DEF CalmKinds, Kind
<1>7. \A x \in Pups : Flipped(x) => Flipped(x)'
  BY <1>1, <1>3 DEF Flipped, Withdrawn
<1>8. \A i \in DOMAIN queue' :
        queue'[i].kind = "purge" /\ queue'[i].seen.inst = "uninstalled"
          => pup'[queue'[i].pup].inst \notin {"installing", "ready"}
  BY <1>1, <1>4, <1>5 DEF GInv, StoppedInv, Stopped
<1> QED
  BY <1>1, <1>2, <1>3, <1>4, <1>5, <1>6, <1>7, <1>8, LoopStepKeeps

LEMMA CalmSendings ==
  ASSUME IInv, FInv, GInv, sendSystemJobWithPupDetails PROVE GInv'
<1> DEFINE p == Pup(Loop)
           j == [work[Loop].job EXCEPT !.seen = pup[p]]
<1>1. /\ work[Loop].at = "send" /\ work' = [work EXCEPT ![Loop] = NoWork]
      /\ UNCHANGED <<configVars, pup, withdrawn>>
      /\ queue' = IF pup[p] = NoPup THEN queue ELSE Append(queue, j)
  BY DEF sendSystemJobWithPupDetails, At, past
<1>2. /\ j \in Jobs /\ j.pup = p /\ j.kind = Kind(Loop) /\ j.seen = pup[p] /\ p \in Pups
  <2>1. work[Loop].job \in Jobs /\ p \in Pups /\ pup[p] \in PupStates
    BY <1>1, LoopBusy, TypeParts DEF IInv
  <2>2. \A y : \A x \in Jobs : [x EXCEPT !.seen = y].seen = y
    BY DEF Jobs
  <2> QED
    BY <2>1, <2>2, JobFields, JobTarget DEF Pup, Kind
<1> HIDE DEF j
<1>3. work'[Loop] = NoWork /\ work'[Updater] = work[Updater] /\ NoWork.at = "idle"
  BY <1>1, Goroutines, NoWorkType, TypeParts DEF IInv
<1>4. /\ \A i \in DOMAIN queue' : \/ i \in DOMAIN queue /\ queue'[i] = queue[i]
                                  \/ queue'[i] = j /\ pup[p] # NoPup
      /\ \A i \in DOMAIN queue : i \in DOMAIN queue' /\ queue'[i] = queue[i]
      /\ pup[p] # NoPup => \E i \in DOMAIN queue' : queue'[i] = j
  <2>1. queue \in Seq(Jobs)
    BY TypeParts DEF IInv
  <2>2. CASE pup[p] = NoPup
    BY <1>1, <2>2
  <2>3. CASE pup[p] # NoPup
    <3>1. queue' = Append(queue, j)
      BY <1>1, <2>3
    <3>2. Len(queue) + 1 \in DOMAIN queue' /\ queue'[Len(queue) + 1] = j
      BY <1>2, <2>1, <3>1
    <3>3. \A i \in DOMAIN queue : i \in DOMAIN queue' /\ queue'[i] = queue[i]
      BY <1>2, <2>1, <3>1
    <3>4. \A i \in DOMAIN queue' : (i \in DOMAIN queue /\ queue'[i] = queue[i]) \/ queue'[i] = j
      BY <1>2, <2>1, <3>1
    <3> QED
      BY <2>3, <3>2, <3>3, <3>4
  <2> QED
    BY <2>2, <2>3
<1>5. RouteInv'
  <2>1. Kind(Loop) \in CalmKinds
    BY <1>1 DEF GInv, RouteInv
  <2>2. \A i \in DOMAIN queue' : queue'[i].kind \in CalmKinds
    BY <1>2, <1>4, <2>1 DEF GInv, RouteInv
  <2> QED
    BY <1>1, <1>3, <2>2 DEF GInv, RouteInv, configVars, Kind
<1>6. \A x \in Pups : Flipped(x) /\ pup[x] # NoPup => Flipped(x)'
  BY <1>1, <1>2, <1>4 DEF Flipped, Withdrawn
<1>7. \A i \in DOMAIN queue' :
        queue'[i].kind = "purge" /\ queue'[i].seen.inst = "uninstalled"
          => pup'[queue'[i].pup].inst \notin {"installing", "ready"}
  BY <1>1, <1>2, <1>4 DEF GInv, StoppedInv, Stopped
<1> QED
  BY <1>1, <1>3, <1>5, <1>6, <1>7, LoopStepKeeps

LEMMA CalmLoop ==
  ASSUME IInv, FInv, GInv, LoopStep PROVE GInv'
<1>1. ~updatePupConfig /\ ~BuildDirect
  BY DEF updatePupConfig, BuildDirect, At, GInv, RouteInv
<1> QED
  BY <1>1, CalmIndexing, CalmSendings DEF LoopStep

\* Nothing of the pups, the queue and the files changes, and of the jobs what does
\* not matter here.
LEMMA CalmStill ==
  ASSUME IInv, FInv, GInv, UNCHANGED <<configVars, pup, queue, withdrawn>>,
         work'[Updater] = work[Updater], work'[Loop].at = work[Loop].at \/ work'[Loop].at = "idle",
         work'[Loop].at # "idle" => work'[Loop].job = work[Loop].job,
         work'[Loop].at = "idle" => work[Loop].at # "send"
  PROVE  GInv'
<1>1. RouteInv'
  <2>1. work'[Loop].at \in {"idle", "adopt", "send", "done"}
    BY DEF GInv, RouteInv
  <2>2. work'[Loop].at = "send" => work'[Loop].job.kind \in CalmKinds
    BY DEF GInv, RouteInv, Kind
  <2> QED
    BY <2>1, <2>2, RouteKept
<1>2. \A p : Flipped(p) => Flipped(p)'
  BY DEF Flipped, Pup, Kind, Withdrawn
<1>3. \A i \in DOMAIN queue' :
        queue'[i].kind = "purge" /\ queue'[i].seen.inst = "uninstalled"
          => pup'[queue'[i].pup].inst \notin {"installing", "ready"}
  BY DEF GInv, StoppedInv, Stopped
<1> QED
  BY <1>1, <1>2, <1>3, LoopStepKeeps

\* A job ends; a goroutine copies the state it has saved; the updater takes a job.
LEMMA CalmFinishes ==
  ASSUME IInv, FInv, GInv, NEW a \in Patchers, Finish(a) PROVE GInv'
<1>1. /\ work[a].at \in {"done", "failed"} /\ work' = [work EXCEPT ![a] = NoWork]
      /\ UNCHANGED <<configVars, pup, queue, withdrawn>>
  BY DEF Finish, At, past
<1>2. /\ NoWork.at = "idle" /\ work'[a] = NoWork /\ \A b \in Patchers \ {a} : work'[b] = work[b]
  BY <1>1, NoWorkType, TypeParts DEF IInv
<1>3. CASE a = Loop
  BY <1>1, <1>2, <1>3, Goroutines, CalmStill
<1>4. CASE a = Updater
  <2>1. /\ work'[Updater].at = "idle" /\ work'[Loop] = work[Loop]
        /\ work[Updater].at \in {"done", "failed"}
    BY <1>1, <1>2, <1>4, Goroutines
  <2>2. RouteInv' /\ PatchInv' /\ StoppedInv' /\ CopyInv'
    BY <1>1, <2>1 DEF GInv, RouteInv, PatchInv, StoppedInv, CopyInv, configVars, Route, Stopped,
                      Between, Kind
  <2>3. \A p : /\ Installed(p)' <=> Installed(p)
               /\ Stopped(p)' <=> Stopped(p)
               /\ ~Leaving(p) /\ ~Leaving(p)' /\ ~WillWrite(p)
               /\ Flipped(p)' <=> Flipped(p)
    BY <1>1, <2>1 DEF Installed, Stopped, Leaving, WillWrite, Flipped, On, Between, Pup, Kind, Withdrawn
  <2>4. NixInv'
    <3>1. \A f : Becoming(f)' \subseteq Becoming(f)
      BY <1>1, BecomingKept DEF configVars
    <3> QED
      BY <1>1, <2>3, <3>1, NixKept DEF GInv
  <2> QED
    BY <2>2, <2>4 DEF GInv
<1> QED
  BY <1>3, <1>4, Goroutines

LEMMA CalmSaves ==
  ASSUME IInv, FInv, GInv, NEW a \in Patchers, Saved(a) PROVE GInv'
<1> DEFINE q == Pup(a)
           now == pup[q]
           w == [work[a] EXCEPT !.state = now]
<1>1. /\ saving[a] # NoPup /\ UNCHANGED <<configVars, pup, queue, withdrawn>>
      /\ UNCHANGED work \/ work' = [work EXCEPT ![a] = w]
  BY DEF Saved, past
<1>2. /\ work[a].at # "idle" /\ work[a] \in Works /\ work \in [Patchers -> Works]
      /\ q \in Pups
  BY <1>1, EitherBusy, TypeParts DEF IInv, JobInv, Resting
<1>3. w.at = work[a].at /\ w.job = work[a].job /\ w.then = work[a].then /\ w.state = now
  <2> HIDE DEF now
  <2> QED
    BY <1>2 DEF Works
<1> HIDE DEF w
<1>4. /\ work'[a].at = work[a].at /\ work'[a].job = work[a].job /\ work'[a].then = work[a].then
      /\ work'[a].state = work[a].state \/ work'[a].state = pup[q]
      /\ \A b \in Patchers \ {a} : work'[b] = work[b]
  BY <1>1, <1>2, <1>3
<1>5. CASE a = Loop
  <2>1. work'[Updater] = work[Updater] /\ work'[Loop].at = work[Loop].at
        /\ work'[Loop].job = work[Loop].job /\ work[Loop].at # "idle"
    BY <1>2, <1>4, <1>5, Goroutines
  <2> QED
    BY <1>1, <2>1, CalmStill
<1>6. CASE a = Updater
  <2>1. /\ work'[Updater].at = work[Updater].at /\ work'[Updater].job = work[Updater].job
        /\ work'[Updater].then = work[Updater].then /\ work'[Loop] = work[Loop]
        /\ work'[Updater].state = work[Updater].state \/ work'[Updater].state = Mine
    BY <1>4, <1>6, Goroutines DEF Mine
  <2>2. /\ Pup(Updater)' = Pup(Updater) /\ Kind(Updater)' = Kind(Updater) /\ Mine' = Mine
        /\ \A p : Flipped(p)' <=> Flipped(p)
    BY <1>1, <2>1 DEF Pup, Kind, Mine, Flipped, Withdrawn
  <2>3. RouteInv' /\ PatchInv' /\ StoppedInv'
    BY <1>1, <2>1, <2>2 DEF GInv, RouteInv, PatchInv, StoppedInv, configVars, Stopped, Seen, Kind
  <2>4. CopyInv'
    BY <2>1, <2>2 DEF GInv, CopyInv
  <2>5. \A p : /\ Installed(p)' <=> Installed(p)
               /\ Stopped(p)' <=> Stopped(p)
               /\ Leaving(p)' <=> Leaving(p)
               /\ WillWrite(p)' <=> WillWrite(p)
    BY <1>1, <2>1, <2>2 DEF Installed, Stopped, Leaving, WillWrite, On, Seen
  <2>6. NixInv'
    <3>1. \A f : Becoming(f)' \subseteq Becoming(f)
      BY <1>1, BecomingKept DEF configVars
    <3> QED
      BY <1>1, <2>2, <2>5, <3>1, NixKept DEF GInv
  <2> QED
    BY <2>3, <2>4, <2>6 DEF GInv
<1> QED
  BY <1>5, <1>6, Goroutines

LEMMA CalmTakes ==
  ASSUME IInv, FInv, GInv, TakeJob PROVE GInv'
<1> DEFINE j == Head(queue)
           w == [NoWork EXCEPT !.at = "start", !.job = j]
<1>1. /\ work[Updater].at = "idle" /\ queue # <<>> /\ work' = [work EXCEPT ![Updater] = w]
      /\ queue' = Tail(queue) /\ UNCHANGED <<configVars, pup>>
      /\ withdrawn' = IF j.kind \in Switches THEN withdrawn \ (Switches \X {j.pup}) ELSE withdrawn
  BY DEF TakeJob
<1>2. /\ queue \in Seq(Jobs) /\ j = queue[1] /\ 1 \in DOMAIN queue
      /\ \A i \in DOMAIN queue' : i + 1 \in DOMAIN queue /\ queue'[i] = queue[i + 1]
      /\ \A i \in DOMAIN queue : i # 1 => i - 1 \in DOMAIN queue' /\ queue'[i - 1] = queue[i]
  BY <1>1, TypeParts DEF IInv
<1> HIDE DEF j
<1>3. w.at = "start" /\ w.job = j
  BY NoWorkType DEF NoWork
<1> HIDE DEF w
<1>4. work'[Updater] = w /\ work'[Loop] = work[Loop]
  BY <1>1, Goroutines, TypeParts DEF IInv
<1>5. /\ Pup(Updater)' = j.pup /\ Kind(Updater)' = j.kind /\ Seen' = j.seen
      /\ \A x : On(Updater, x)' <=> x = j.pup
      /\ \A x : ~On(Updater, x)
  BY <1>1, <1>3, <1>4 DEF Pup, Kind, On, Seen
<1>6. RouteInv'
  BY <1>1, <1>2, <1>3, <1>4, <1>5 DEF GInv, RouteInv, configVars, Route, Kind
<1>7. PatchInv'
  <2>1. patch[Updater].at = "idle"
    BY <1>1 DEF GInv, PatchInv
  <2> QED
    BY <1>1, <2>1 DEF GInv, PatchInv, configVars
<1>8. StoppedInv'
  BY <1>1, <1>2, <1>3, <1>4, <1>5 DEF GInv, StoppedInv, Stopped, Between
<1>9. CopyInv'
  BY <1>3, <1>4 DEF CopyInv
<1>10. ASSUME NEW p \in Pups
       PROVE  /\ Installed(p)' <=> Installed(p)
              /\ Stopped(p)' <=> Stopped(p)
              /\ ~Leaving(p) /\ ~Leaving(p)' /\ ~WillWrite(p)
              /\ Flipped(p) => Flipped(p)' \/ WillWrite(p)'
  <2>1. /\ Installed(p)' <=> Installed(p)
        /\ Stopped(p)' <=> Stopped(p)
        /\ ~Leaving(p) /\ ~Leaving(p)' /\ ~WillWrite(p)
    BY <1>1, <1>3, <1>4, <1>5 DEF Installed, Stopped, Leaving, WillWrite, Between
  <2>2. ASSUME NEW i \in DOMAIN queue, queue[i].pup = p, queue[i].kind \in Switches
        PROVE  Flipped(p)' \/ WillWrite(p)'
    <3>1. CASE i = 1
      BY <1>2, <1>3, <1>4, <1>5, <2>2, <3>1 DEF WillWrite
    <3>2. CASE i # 1
      BY <1>2, <2>2, <3>2 DEF Flipped, Withdrawn
    <3> QED
      BY <3>1, <3>2
  <2>3. ASSUME work[Loop].at = "send", Pup(Loop) = p, Kind(Loop) \in Switches
        PROVE  Flipped(p)'
    BY <1>4, <2>3 DEF Flipped, Pup, Kind
  <2>4. ASSUME Withdrawn(Switches, p) PROVE Flipped(p)' \/ WillWrite(p)'
    <3>1. CASE j.kind \in Switches /\ j.pup = p
      BY <1>3, <1>4, <1>5, <3>1 DEF WillWrite
    <3>2. CASE ~(j.kind \in Switches /\ j.pup = p)
      BY <1>1, <2>4, <3>2 DEF Flipped, Withdrawn
    <3> QED
      BY <3>1, <3>2
  <2> QED
    BY <2>1, <2>2, <2>3, <2>4 DEF Flipped
<1>11. NixInv'
  <2>1. \A f : Becoming(f)' \subseteq Becoming(f)
    BY <1>1, BecomingKept DEF configVars
  <2> QED
    BY <1>1, <1>10, <2>1, NixKept DEF GInv
<1> QED
  BY <1>6, <1>7, <1>8, <1>9, <1>11 DEF GInv
LEMMA InitiallyCalm == Init => GInv
<1> SUFFICES ASSUME Init PROVE GInv
  OBVIOUS
<1> DEFINE list == [p \in Pups |-> pup[p].inst = "ready"]
           file(f) == [enabled |-> pup[f].enabled, version |-> pup[f].version]
<1>1. /\ pup \in [Pups -> Found] /\ queue = <<>> /\ work = [a \in Patchers |-> NoWork]
      /\ running = nixDir /\ patch = [a \in Patchers |-> NoPatch] /\ withdrawn = {}
  BY DEF Init, NixInit
<1>2. /\ \A a \in Patchers : work[a] = NoWork /\ patch[a] = NoPatch
      /\ NoWork.at = "idle" /\ NoPatch.at = "idle" /\ NoPatch.ops = <<>>
      /\ DOMAIN queue = {}
  BY <1>1, NoWorkType DEF NoPatch
<1>3. \A p \in Pups : pup[p] \in PupStates /\ pup[p].inst \notin Passing
  BY <1>1, LifecycleAssumption, PassingStates
<1>4. RouteInv /\ PatchInv /\ StoppedInv /\ CopyInv
  BY <1>1, <1>2, <1>3, Goroutines DEF RouteInv, PatchInv, StoppedInv, CopyInv, Route, Between, Passing
<1>5. \A f : Becoming(f) = {nixDir[f]}
  BY <1>2, Goroutines DEF Becoming
<1>6. \A p : /\ ~On(Updater, p) /\ ~Flipped(p)
             /\ Installed(p) <=> pup[p].inst = "ready"
  BY <1>1, <1>2, Goroutines DEF On, Flipped, Installed, Withdrawn
<1>7. \A f \in Files : nixDir[f] = IF f = Includes THEN list
                                   ELSE IF pup[f].inst = "ready" THEN file(f) ELSE Missing
  BY DEF Init, NixInit
<1>8. ASSUME NEW p \in Pups PROVE ListRight(nixDir[Includes], p)
  <2>1. nixDir[Includes] = list
    BY <1>7, LifecycleAssumption
  <2>2. list \in Listings
    <3>1. \A x \in Pups : (pup[x].inst = "ready") \in BOOLEAN
      OBVIOUS
    <3> QED
      BY <3>1, Zenon DEF Listings
  <2>3. nixDir[Includes] # Missing /\ (nixDir[Includes][p] <=> pup[p].inst = "ready")
    BY <2>1, <2>2, LifecycleAssumption
  <2> QED
    BY <1>3, <1>6, <2>3 DEF ListRight, Stopped, Passing
<1>9. ASSUME NEW p \in Pups PROVE FileRight(nixDir[p], p)
  <2>1. nixDir[p] = IF pup[p].inst = "ready" THEN file(p) ELSE Missing
    BY <1>7, LifecycleAssumption
  <2>2. file(p) \in PupFiles
    BY <1>3, PupStateFields DEF PupFiles, VersionsOrNone
  <2> QED
    BY <1>6, <2>1, <2>2, LifecycleAssumption DEF FileRight
<1>10. NixInv
  BY <1>5, <1>8, <1>9 DEF NixInv
<1> QED
  BY <1>4, <1>10 DEF GInv

\* A deleted enable or disable leaves its pup flipped.
LEMMA CalmDeletions ==
  ASSUME IInv, FInv, GInv, NEW i \in DOMAIN queue, RemoveFromQueue(i) PROVE GInv'
<1>1. /\ UNCHANGED <<configVars, pup, work>>
      /\ withdrawn' = withdrawn \cup {<<queue[i].kind, queue[i].pup>>}
  BY DEF RemoveFromQueue
<1>2. /\ queue \in Seq(Jobs) /\ DOMAIN queue' = 1 .. Len(queue) - 1
      /\ \A j \in DOMAIN queue' :
           /\ j \in DOMAIN queue /\ j + 1 \in DOMAIN queue
           /\ queue'[j] = IF j < i THEN queue[j] ELSE queue[j + 1]
  BY QueueWithout, TypeParts DEF IInv
<1>3. \A j \in DOMAIN queue' : \E k \in DOMAIN queue : queue'[j] = queue[k]
  BY <1>2
<1>4. \A k \in DOMAIN queue : k = i \/ \E j \in DOMAIN queue' : queue'[j] = queue[k]
  <2> SUFFICES ASSUME NEW k \in DOMAIN queue, k # i
               PROVE  \E j \in DOMAIN queue' : queue'[j] = queue[k]
    OBVIOUS
  <2>1. CASE k < i
    BY <1>2, <2>1
  <2>2. CASE i < k
    <3>1. k - 1 \in DOMAIN queue' /\ queue'[k - 1] = queue[k]
      BY <1>2, <2>2
    <3> QED
      BY <3>1
  <2> QED
    BY <1>2, <2>1, <2>2
<1>5. RouteInv'
  BY <1>1, <1>3 DEF GInv, RouteInv, configVars, Kind
<1>6. ASSUME NEW x \in Pups, Flipped(x) PROVE Flipped(x)'
  <2>1. CASE Withdrawn(Switches, x)
    BY <1>1, <2>1 DEF Flipped, Withdrawn
  <2>2. ASSUME NEW k \in DOMAIN queue, queue[k].pup = x, queue[k].kind \in Switches
        PROVE  Flipped(x)'
    <3>1. CASE k = i
      BY <1>1, <2>2, <3>1 DEF Flipped, Withdrawn
    <3>2. CASE k # i
      BY <1>4, <2>2, <3>2 DEF Flipped
    <3> QED
      BY <3>1, <3>2
  <2>3. CASE work[Loop].at = "send" /\ Pup(Loop) = x /\ Kind(Loop) \in Switches
    BY <1>1, <2>3 DEF Flipped, Pup, Kind
  <2> QED
    BY <1>6, <2>1, <2>2, <2>3 DEF Flipped
<1>7. \A j \in DOMAIN queue' :
        queue'[j].kind = "purge" /\ queue'[j].seen.inst = "uninstalled"
          => pup'[queue'[j].pup].inst \notin {"installing", "ready"}
  BY <1>1, <1>3 DEF GInv, StoppedInv, Stopped
<1> QED
  BY <1>1, <1>5, <1>6, <1>7, LoopStepKeeps

LEMMA CalmNext ==
  ASSUME Calm, IInv, FInv, GInv, Next PROVE GInv'
<1>1. ASSUME NewRequest PROVE GInv'
  <2>1. PICK p \in Pups :
          \/ \E v \in Versions : AdoptPup(p, v) \/ Dispatch("upgrade", p, v)
          \/ \E kind \in {"uninstall", "purge", "enable", "disable", "rollback", "import"} :
               Dispatch(kind, p, 0)
          \/ \E kind \in {"config", "touch"} : DirectUpdate(kind, p)
    BY <1>1 DEF NewRequest
  <2>2. {"install", "upgrade", "uninstall", "purge", "enable", "disable", "rollback", "import",
         "config", "touch"} \subseteq AllKinds
    BY DEF AllKinds
  <2>3. CASE \E v \in Versions : AdoptPup(p, v)
    BY <2>2, <2>3, CalmRequests
  <2>4. CASE \E kind \in {"upgrade", "uninstall", "purge", "enable", "disable", "rollback",
                          "import"}, v \in Versions \cup {0} : Dispatch(kind, p, v)
    BY <2>2, <2>4, CalmRequests
  <2>5. CASE \E kind \in {"config", "touch"} : DirectUpdate(kind, p)
    BY <2>2, <2>5, CalmRequests
  <2> QED
    BY <2>1, <2>3, <2>4, <2>5
<1>2. ASSUME NEW a \in Patchers, Step(a) PROVE GInv'
  <2>1. CASE LoopStep
    BY <2>1, CalmLoop
  <2>2. CASE UpdaterStep
    BY <2>2, CalmTakes, CalmBeginnings, CalmImports, CalmPreparation, CalmEndings, CalmRemovals,
       CalmBuilds
       DEF UpdaterStep
  <2>3. CASE Saved(a) \/ Await(a) \/ Finish(a) \/ PatchStep(a)
    BY <2>3, CalmSaves, CalmAwaits, CalmFinishes, CalmPatches
  <2>4. ~SaveFails(a)
    BY DEF SaveFails, Calm
  <2> QED
    BY <1>2, <2>1, <2>2, <2>3, <2>4 DEF Step
<1>3. ~Restart
  <2>1. crashes \in Nat
    BY TypeParts DEF IInv
  <2> QED
    BY <2>1 DEF Restart, Calm
<1> QED
  BY <1>1, <1>2, <1>3, CalmDeletions DEF Next

LEMMA QuietIsSettled == IInv /\ FInv /\ GInv => Settled
<1> SUFFICES ASSUME IInv, FInv, GInv, Quiet, NEW p \in Pups,
                    ~(pup[p].inst = "ready" /\ Withdrawn(Switches, p)),
                    ~(pup[p].inst = "installing" /\ Withdrawn({"install"}, p))
             PROVE  Live(running, p) <=> pup[p].inst = "ready" /\ pup[p].enabled
  BY DEF Settled
<1>1. /\ queue = <<>> /\ work[Loop].at = "idle" /\ work[Updater].at = "idle"
      /\ pup[p] \in PupStates
  BY Goroutines, TypeParts DEF Quiet, IInv
<1>2. patch[Updater].at = "idle" /\ patch[Updater].ops = <<>> /\ running = nixDir
  BY <1>1 DEF GInv, PatchInv
<1>3. ListRight(running[Includes], p) /\ FileRight(running[p], p)
  <2>1. \A f : Becoming(f) = {running[f]}
    BY <1>2 DEF Becoming
  <2> QED
    BY <2>1 DEF GInv, NixInv
<1>4. pup[p].inst # "installing"
  <2>1. ~Coming(p) /\ ~Marked(p)
    BY <1>1 DEF Coming, Marked, MarkedBy, Between, At
  <2> QED
    BY <2>1, PassingStates DEF IInv, ProgressInv, Excused, Passing
<1>5. /\ ~WillWrite(p) /\ ~Leaving(p)
      /\ pup[p].inst = "ready" => ~Flipped(p)
  BY <1>1 DEF Flipped, WillWrite, Leaving, On
<1>6. CASE pup[p].inst = "ready"
  BY <1>3, <1>5, <1>6 DEF Live, ListRight, FileRight, Installed
<1>7. CASE pup[p].inst # "ready"
  BY <1>3, <1>4, <1>5, <1>7 DEF Live, ListRight, Stopped
<1> QED
  BY <1>6, <1>7

(* While nothing fails and nobody upgrades, rolls back or configures a pup:  *)
(* for any pups, versions, states found at the start and number of requests, *)
(* the system that is running when all jobs are done starts exactly the pups *)
(* that are READY and enabled (pups.go, updater.go, nix/patch.go), but for   *)
(* those whose queued enable, disable or install the user has deleted.       *)
THEOREM RunsWhatIsEnabled == ASSUME Calm PROVE Spec => []Settled
<1>1. (IInv /\ FInv /\ GInv) /\ [Next]_vars => GInv'
  <2>1. IInv /\ FInv /\ GInv /\ Next => GInv'
    BY CalmNext
  <2>2. IInv /\ FInv /\ GInv /\ UNCHANGED vars => GInv'
    BY CalmStill DEF vars, pupVars, past
  <2> QED
    BY <2>1, <2>2
<1>2. Init => GInv
  BY InitiallyCalm
<1>3. IInv /\ FInv /\ GInv => Settled
  BY QuietIsSettled
<1>4. Spec => [](IInv /\ FInv)
  BY FilesInvariance
<1> QED
  BY <1>1, <1>2, <1>3, <1>4, PTL DEF Spec
=============================================================================
