------------------------------- MODULE NixPatch -------------------------------
(***************************************************************************)
(* pkg/system/nix/nix-patch.go: a patch collects operations on the files   *)
(* of NixDir, then ApplyCustom snapshots the directory into a temporary    *)
(* directory named after the second, performs the operations, rebuilds the *)
(* system and removes the snapshot.  Each step may fail, several patches   *)
(* may be applied at once, and the process may die.  A file is written in  *)
(* one step and a directory copied in one; a copy that meets a file or a   *)
(* directory vanishing under it is one of the failures of that step.       *)
(***************************************************************************)
EXTENDS Naturals, Sequences

CONSTANTS
  Patchers,   \* the goroutines that apply patches
  Files,      \* the files of NixDir
  Contents,   \* what a file can hold, Missing included
  Missing,    \* the file does not exist
  MaxOps,     \* bound on the operations of a patch
  MaxTime,    \* bound on the clock, in seconds
  MaxCrashes  \* bound on the deaths of the process

ASSUME NixPatchAssumption ==
  Missing \in Contents /\ MaxOps \in Nat /\ MaxTime \in Nat /\ MaxCrashes \in Nat

VARIABLES
  nixDir,     \* the files on disk
  running,    \* the files the running system was built from
  boot,       \* the files the next boot's system was built from
  patch,      \* patch[a]: a's current nixPatch and where its ApplyCustom is
  snapshots,  \* snapshots[t]: what nix-patch-<t> in TmpDir holds
  now,
  crashes,
  overlapped  \* history: the patchers that were not alone since their last Apply

nixVars == <<nixDir, running, boot, patch, snapshots, now, crashes, overlapped>>

Ops   == [file : Files, to : Contents]
Dirs  == [Files -> Contents]
Empty == [f \in Files |-> Missing]
Time  == 0 .. MaxTime
\* Rebuild, RebuildBoot, DangerousNoRebuild.
Modes == {"switch", "boot", "none"}
NoDir == <<>>

NoPatch == [state |-> "none", at |-> "idle", ops |-> <<>>, mode |-> "switch",
            snapshotDir |-> 0, cfg |-> NoDir]

Patches ==
  [state : {"none", "pending", "cancelled", "applying", "applied", "errored"},
   at : {"idle", "snapshot", "copy", "operation", "rebuild", "remove"},
   ops : Seq(Ops), mode : Modes, snapshotDir : Time, cfg : Dirs \cup {NoDir}]

TypeOK ==
  /\ nixDir \in Dirs /\ running \in Dirs /\ boot \in Dirs
  /\ patch \in [Patchers -> Patches]
  /\ \A a \in Patchers : patch[a].at = "rebuild" => patch[a].cfg \in Dirs
  /\ snapshots \in [Time -> Dirs \cup {NoDir}]
  /\ now \in Time /\ crashes \in Nat /\ overlapped \subseteq Patchers

Init ==
  /\ nixDir = Empty /\ running = Empty /\ boot = Empty
  /\ patch = [a \in Patchers |-> NoPatch]
  /\ snapshots = [t \in Time |-> NoDir]
  /\ now = 0 /\ crashes = 0 /\ overlapped = {}

-----------------------------------------------------------------------------
NewNixPatch(a) ==
  /\ patch[a].at = "idle"
  /\ patch' = [patch EXCEPT ![a] = [NoPatch EXCEPT !.state = "pending"]]
  /\ UNCHANGED <<nixDir, running, boot, snapshots, now, crashes, overlapped>>

\* UpdateFirewall, WritePupFile, RemovePupFile ...: what is to be written is
\* fixed when the operation is added.
add(a, op) ==
  /\ patch[a].state = "pending" /\ Len(patch[a].ops) < MaxOps
  /\ patch' = [patch EXCEPT ![a].ops = Append(@, op)]
  /\ UNCHANGED <<nixDir, running, boot, snapshots, now, crashes, overlapped>>

Cancel(a) ==
  /\ patch[a].state = "pending"
  /\ patch' = [patch EXCEPT ![a].state = "cancelled"]
  /\ UNCHANGED <<nixDir, running, boot, snapshots, now, crashes, overlapped>>

ApplyCustom(a, mode) ==
  /\ patch[a].state = "pending"
  /\ patch' = [patch EXCEPT ![a].state = "applying", ![a].at = "snapshot",
                            ![a].mode = mode]
  /\ overlapped' = (Patchers \ {a}) \cup
                    {b \in {a} : \E c \in Patchers \ {a} : patch[c].at # "idle"}
  /\ UNCHANGED <<nixDir, running, boot, snapshots, now, crashes>>

\* snapshot(): first the directory, named after the second ...
MakeSnapshotDir(a) ==
  /\ patch[a].at = "snapshot"
  /\ patch' = [patch EXCEPT ![a].at = "copy", ![a].snapshotDir = now]
  /\ snapshots' = IF snapshots[now] = NoDir
                    THEN [snapshots EXCEPT ![now] = Empty] ELSE snapshots
  /\ UNCHANGED <<nixDir, running, boot, now, crashes, overlapped>>

\* ... then the copy, which makes the directory again if another patch of the
\* same second has removed it, and keeps what it does not overwrite.
CopyToSnapshot(a) ==
  /\ patch[a].at = "copy"
  /\ patch' = [patch EXCEPT ![a].at = "operation"]
  /\ LET t == patch[a].snapshotDir
         old == IF snapshots[t] = NoDir THEN Empty ELSE snapshots[t]
     IN  snapshots' = [snapshots EXCEPT ![t] =
           [f \in Files |-> IF nixDir[f] = Missing THEN old[f] ELSE nixDir[f]]]
  /\ UNCHANGED <<nixDir, running, boot, now, crashes, overlapped>>

SnapshotFails(a) ==
  /\ patch[a].at \in {"snapshot", "copy"}
  /\ patch' = [patch EXCEPT ![a] = [NoPatch EXCEPT !.state = "errored"]]
  /\ UNCHANGED <<nixDir, running, boot, snapshots, now, crashes, overlapped>>

\* Mutant: an operation counts as done although its file was not written.
OperationSkipped(a) ==
  /\ patch[a].at = "operation" /\ patch[a].ops # <<>>
  /\ patch' = [patch EXCEPT ![a].ops = Tail(@)]
  /\ UNCHANGED <<nixDir, running, boot, snapshots, now, crashes, overlapped>>

Operation(a) ==
  /\ patch[a].at = "operation" /\ patch[a].ops # <<>>
  /\ LET op == Head(patch[a].ops) IN
       nixDir' = [nixDir EXCEPT ![op.file] = op.to]
  /\ patch' = [patch EXCEPT ![a].ops = Tail(@)]
  /\ UNCHANGED <<running, boot, snapshots, now, crashes, overlapped>>

\* nixos-rebuild reads the directory, and takes its time to build.
StartRebuild(a) ==
  /\ patch[a].at = "operation" /\ patch[a].ops = <<>> /\ patch[a].mode # "none"
  /\ patch' = [patch EXCEPT ![a].at = "rebuild", ![a].cfg = nixDir]
  /\ UNCHANGED <<nixDir, running, boot, snapshots, now, crashes, overlapped>>

\* Mutant: what is switched to was evaluated by the previous rebuild.
RebuiltStale(a) ==
  /\ patch[a].at = "rebuild"
  /\ running' = IF patch[a].mode = "switch" THEN boot ELSE running
  /\ boot' = patch[a].cfg
  /\ patch' = [patch EXCEPT ![a].at = "remove", ![a].cfg = NoDir]
  /\ UNCHANGED <<nixDir, snapshots, now, crashes, overlapped>>

Rebuilt(a) ==
  /\ patch[a].at = "rebuild"
  /\ running' = IF patch[a].mode = "switch" THEN patch[a].cfg ELSE running
  /\ boot' = patch[a].cfg
  /\ patch' = [patch EXCEPT ![a].at = "remove", ![a].cfg = NoDir]
  /\ UNCHANGED <<nixDir, snapshots, now, crashes, overlapped>>

NoRebuild(a) ==
  /\ patch[a].at = "operation" /\ patch[a].ops = <<>> /\ patch[a].mode = "none"
  /\ patch' = [patch EXCEPT ![a].at = "remove"]
  /\ UNCHANGED <<nixDir, running, boot, snapshots, now, crashes, overlapped>>

\* What NixDir holds after doRollback of a patch in this state.
doRollback(state, t) ==
  IF state # "applying" THEN nixDir ELSE snapshots[t]

\* An operation or the rebuild failed: triggerRollback sets the state, then
\* calls doRollback.
triggerRollback(a) ==
  /\ \/ patch[a].at = "operation" /\ patch[a].ops # <<>>
     \/ patch[a].at = "rebuild"
  /\ nixDir' = doRollback("rolling back", patch[a].snapshotDir)
  /\ patch' = [patch EXCEPT ![a] = [NoPatch EXCEPT !.state = "errored"]]
  /\ UNCHANGED <<running, boot, snapshots, now, crashes, overlapped>>

\* A snapshot that cannot be removed is only logged.
RemoveSnapshot(a) ==
  /\ patch[a].at = "remove"
  /\ \E removed \in BOOLEAN :
       snapshots' = IF removed THEN [snapshots EXCEPT ![patch[a].snapshotDir] = NoDir]
                    ELSE snapshots
  /\ patch' = [patch EXCEPT ![a] = [NoPatch EXCEPT !.state = "applied",
                                               !.mode = patch[a].mode]]
  /\ UNCHANGED <<nixDir, running, boot, now, crashes, overlapped>>

\* The process dies; what is on disk stays.
Crash ==
  /\ crashes < MaxCrashes
  /\ crashes' = crashes + 1
  /\ patch' = [a \in Patchers |-> NoPatch]
  /\ UNCHANGED <<nixDir, running, boot, snapshots, now, overlapped>>

Tick ==
  /\ now < MaxTime
  /\ now' = now + 1
  /\ UNCHANGED <<nixDir, running, boot, patch, snapshots, crashes, overlapped>>

-----------------------------------------------------------------------------
Step(a) ==
  \/ MakeSnapshotDir(a) \/ CopyToSnapshot(a) \/ SnapshotFails(a)
  \/ Operation(a) \/ StartRebuild(a) \/ Rebuilt(a) \/ NoRebuild(a)
  \/ triggerRollback(a) \/ RemoveSnapshot(a)

Next ==
  \/ \E a \in Patchers :
       \/ NewNixPatch(a) \/ Cancel(a) \/ Step(a)
       \/ \E op \in Ops : add(a, op)
       \/ \E mode \in Modes : ApplyCustom(a, mode)
  \/ Crash \/ Tick

Spec == Init /\ [][Next]_nixVars

-----------------------------------------------------------------------------
\* A patch that was applied while no other was leaves the system (or the next
\* boot) in agreement with all of NixDir, until another one starts: whatever
\* earlier patches left there when they failed or died half-way.
AppliedIsRunning == \A a \in Patchers \ overlapped :
  patch[a].state = "applied" =>
    /\ patch[a].mode = "switch" => running = nixDir
    /\ patch[a].mode # "none" => boot = nixDir

\* "We failed. Roll back our changes." (nix-patch.go:146): with no other patch
\* around, NixDir holds after a failed Apply what it held before.
FailedLeavesNoTrace ==
  [][\A a \in Patchers :
       /\ patch[a].at \in {"operation", "rebuild"}
       /\ patch'[a].state = "errored"
       => nixDir' = snapshots[patch[a].snapshotDir]]_nixVars

\* The patches as their callers see them (see NixConfig).
AbsAt(p) ==
  CASE p.at \in {"snapshot", "copy", "operation"} -> "write"
    [] p.at = "rebuild" -> "switch"
    [] p.at = "remove" -> "applied"
    [] p.at = "idle" -> IF p.state \in {"applied", "errored"} THEN p.state ELSE "idle"

AbsPatch(p) ==
  [at |-> AbsAt(p),
   ops |-> IF AbsAt(p) = "write" THEN p.ops ELSE <<>>,
   cfg |-> p.cfg]

Abs == INSTANCE NixConfig WITH patch <- [a \in Patchers |-> AbsPatch(patch[a])]

\* Snapshots, the clock, cancellation and the three ways of rebuilding change
\* nothing else about what a caller observes of NixDir and the system: a failed
\* patch stops where it is, an applied one was built from all of its writes.
AbsSpec == Abs!ConfigSpec
=============================================================================
