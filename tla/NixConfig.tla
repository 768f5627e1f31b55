------------------------------ MODULE NixConfig ------------------------------
(***************************************************************************)
(* What applying a nix patch amounts to for its caller: files of NixDir    *)
(* are written one after the other, then the system is rebuilt from what   *)
(* the directory holds at that moment and switched to the result.  Nothing *)
(* keeps two callers apart: the SystemUpdater and the main loop apply      *)
(* patches at the same time.  A patch that fails stops where it is; what   *)
(* it has written stays (NixPatch shows that the code does exactly this).  *)
(***************************************************************************)
EXTENDS Naturals, Sequences

CONSTANTS
  Patchers,   \* the goroutines that apply patches
  Files,      \* the files of NixDir
  Contents,   \* what a file can hold, Missing included
  Missing     \* the file does not exist

ASSUME NixConfigAssumption == Missing \in Contents

Ops  == [file : Files, to : Contents]
Dirs == [Files -> Contents]

VARIABLES
  nixDir,     \* the files on disk
  running,    \* the files the running system was built from
  patch       \* patch[a]: [at, ops, cfg]: what is left to write, what was evaluated

configVars == <<nixDir, running, patch>>

NoPatch == [at |-> "idle", ops |-> <<>>, cfg |-> <<>>]
Active  == {"write", "switch"}
Result  == {"applied", "errored"}

NixTypeOK ==
  /\ nixDir \in Dirs
  /\ running \in Dirs
  /\ patch \in [Patchers -> [at : {"idle"} \cup Active \cup Result,
                             ops : Seq(Ops), cfg : Dirs \cup {<<>>}]]
  /\ \A a \in Patchers : patch[a].at = "switch" => patch[a].cfg \in Dirs

NixInit(dir) ==
  /\ nixDir = dir /\ running = dir
  /\ patch = [a \in Patchers |-> NoPatch]

\* A caller with a patch that is not being applied may apply a new one; without
\* operations this is a bare Rebuild.
Apply(a, ops) ==
  /\ patch[a].at = "idle"
  /\ patch' = [patch EXCEPT ![a] = [at |-> "write", ops |-> ops, cfg |-> <<>>]]
  /\ UNCHANGED <<nixDir, running>>

Write(a) ==
  /\ patch[a].at = "write" /\ patch[a].ops # <<>>
  /\ LET op == Head(patch[a].ops) IN
       nixDir' = [nixDir EXCEPT ![op.file] = op.to]
  /\ patch' = [patch EXCEPT ![a].ops = Tail(@)]
  /\ UNCHANGED running

\* nixos-rebuild reads the directory now and switches when the build is done.
Evaluate(a) ==
  /\ patch[a].at = "write" /\ patch[a].ops = <<>>
  /\ patch' = [patch EXCEPT ![a].at = "switch", ![a].cfg = nixDir]
  /\ UNCHANGED <<nixDir, running>>

Switch(a) ==
  /\ patch[a].at = "switch"
  /\ running' = patch[a].cfg
  /\ patch' = [patch EXCEPT ![a] = [NoPatch EXCEPT !.at = "applied"]]
  /\ UNCHANGED nixDir

\* Applied without a switch: not asked for, or prepared for the next boot.
Skip(a) ==
  /\ \/ patch[a].at = "write" /\ patch[a].ops = <<>>
     \/ patch[a].at = "switch"
  /\ patch' = [patch EXCEPT ![a] = [NoPatch EXCEPT !.at = "applied"]]
  /\ UNCHANGED <<nixDir, running>>

Fail(a) ==
  /\ patch[a].at \in Active
  /\ patch' = [patch EXCEPT ![a] = [NoPatch EXCEPT !.at = "errored"]]
  /\ UNCHANGED <<nixDir, running>>

Discard(a) ==
  /\ patch[a].at \in Result
  /\ patch' = [patch EXCEPT ![a] = NoPatch]
  /\ UNCHANGED <<nixDir, running>>

\* The process dies: its patches stop, and the rebuilds it has started with them.
StopPatches ==
  /\ patch' = [a \in Patchers |-> NoPatch]
  /\ UNCHANGED <<nixDir, running>>

ConfigInit == NixInit([f \in Files |-> Missing])

ConfigNext ==
  \/ \E a \in Patchers :
       \/ patch'[a].ops \in Seq(Ops) /\ Apply(a, patch'[a].ops)
       \/ Write(a) \/ Evaluate(a) \/ Switch(a) \/ Skip(a) \/ Fail(a) \/ Discard(a)
  \/ StopPatches

ConfigSpec == ConfigInit /\ [][ConfigNext]_configVars
=============================================================================
