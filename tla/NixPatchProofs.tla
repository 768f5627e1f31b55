---------------------------- MODULE NixPatchProofs ----------------------------
(* Proofs about NixPatch, for all patchers, files, contents and bounds. *)
EXTENDS NixPatch, TLAPS

LEMMA NoPatchType == /\ NoPatch \in Patches /\ NoPatch.at = "idle"
                     /\ NoPatch.state = "none" /\ NoPatch.cfg = NoDir
<1>1. 0 \in Time
  BY NixPatchAssumption DEF Time
<1>2. <<>> \in Seq(Ops)
  OBVIOUS
<1> QED BY <1>1, <1>2 DEF NoPatch, Patches, Modes, NoDir

LEMMA EmptyType == Empty \in Dirs
BY NixPatchAssumption DEF Empty, Dirs

\* The patches, their snapshots and the directories keep their types: the fields
\* of nixPatch take no other value, whatever fails and whenever the process dies.
THEOREM Typing == Spec => []TypeOK
<1>1. Init => TypeOK
  BY NixPatchAssumption, NoPatchType, EmptyType DEF Init, TypeOK, Time
<1>2. TypeOK /\ [Next]_nixVars => TypeOK'
  <2> SUFFICES ASSUME TypeOK, [Next]_nixVars PROVE TypeOK'
    OBVIOUS
  <2> USE NoPatchType DEF TypeOK
  <2>1. ASSUME NEW a \in Patchers, NewNixPatch(a) PROVE TypeOK'
    BY <2>1 DEF NewNixPatch, Patches
  <2>2. ASSUME NEW a \in Patchers, Cancel(a) PROVE TypeOK'
    BY <2>2 DEF Cancel, Patches
  <2>3. ASSUME NEW a \in Patchers, NEW op \in Ops, add(a, op) PROVE TypeOK'
    <3>1. Append(patch[a].ops, op) \in Seq(Ops)
      BY DEF Patches
    <3> QED BY <2>3, <3>1 DEF add, Patches
  <2>4. ASSUME NEW a \in Patchers, NEW mode \in Modes, ApplyCustom(a, mode) PROVE TypeOK'
    BY <2>4 DEF ApplyCustom, Patches
  <2>5. ASSUME NEW a \in Patchers, MakeSnapshotDir(a) PROVE TypeOK'
    BY <2>5, EmptyType DEF MakeSnapshotDir, Patches
  <2>6. ASSUME NEW a \in Patchers, CopyToSnapshot(a) PROVE TypeOK'
    <3> DEFINE t == patch[a].snapshotDir
               old == IF snapshots[t] = NoDir THEN Empty ELSE snapshots[t]
               copy == [f \in Files |-> IF nixDir[f] = Missing THEN old[f] ELSE nixDir[f]]
    <3>0. t \in Time
      BY DEF Patches
    <3>1. old \in Dirs
      BY <3>0, EmptyType
    <3>2. copy \in Dirs
      <4> HIDE DEF old
      <4> QED BY <3>1 DEF Dirs
    <3>3. /\ snapshots' = [snapshots EXCEPT ![t] = copy]
          /\ patch' = [patch EXCEPT ![a].at = "operation"]
          /\ UNCHANGED <<nixDir, running, boot, now, crashes, overlapped>>
      BY <2>6 DEF CopyToSnapshot
    <3> HIDE DEF copy
    <3> QED BY <3>0, <3>2, <3>3 DEF Patches
  <2>7. ASSUME NEW a \in Patchers, SnapshotFails(a) PROVE TypeOK'
    BY <2>7 DEF SnapshotFails, Patches
  <2>8. ASSUME NEW a \in Patchers, Operation(a) PROVE TypeOK'
    <3>1. Head(patch[a].ops) \in Ops /\ Tail(patch[a].ops) \in Seq(Ops)
      BY <2>8 DEF Operation, Patches
    <3>2. nixDir' \in Dirs
      BY <2>8, <3>1 DEF Operation, Ops, Dirs
    <3> QED BY <2>8, <3>1, <3>2 DEF Operation, Patches
  <2>9. ASSUME NEW a \in Patchers, StartRebuild(a) PROVE TypeOK'
    BY <2>9 DEF StartRebuild, Patches
  <2>10. ASSUME NEW a \in Patchers, Rebuilt(a) PROVE TypeOK'
    BY <2>10 DEF Rebuilt, Patches
  <2>11. ASSUME NEW a \in Patchers, NoRebuild(a) PROVE TypeOK'
    BY <2>11 DEF NoRebuild, Patches
  <2>12. ASSUME NEW a \in Patchers, triggerRollback(a) PROVE TypeOK'
    BY <2>12 DEF triggerRollback, doRollback, Patches
  <2>13. ASSUME NEW a \in Patchers, RemoveSnapshot(a) PROVE TypeOK'
    BY <2>13 DEF RemoveSnapshot, Patches
  <2>14. CASE Crash
    BY <2>14 DEF Crash
  <2>15. CASE Tick
    BY <2>15, NixPatchAssumption DEF Tick, Time
  <2>16. CASE UNCHANGED nixVars
    BY <2>16 DEF nixVars
  <2> QED
    BY <2>1, <2>2, <2>3, <2>4, <2>5, <2>6, <2>7, <2>8, <2>9, <2>10, <2>11, <2>12,
       <2>13, <2>14, <2>15, <2>16 DEF Next, Step
<1> QED BY <1>1, <1>2, PTL DEF Spec

-----------------------------------------------------------------------------
\* What AppliedIsRunning needs from the steps before: while a rebuild runs the
\* directory stays as it was evaluated, and nothing of a finished patch is left
\* to do.
SoleInv == \A a \in Patchers :
  /\ patch[a].state \in {"none", "pending", "cancelled", "applied", "errored"}
       => patch[a].at = "idle"
  /\ patch[a].at # "rebuild" => patch[a].cfg = NoDir
  /\ a \notin overlapped =>
       /\ patch[a].at # "idle" \/ patch[a].state = "applied" =>
            \A b \in Patchers \ {a} : patch[b].at = "idle"
       /\ patch[a].at = "rebuild" => patch[a].cfg = nixDir /\ patch[a].mode # "none"
       /\ patch[a].at = "remove" \/ patch[a].state = "applied" =>
            /\ patch[a].mode = "switch" => running = nixDir
            /\ patch[a].mode # "none" => boot = nixDir

\* Every step of every patcher keeps that.
LEMMA SoleInvariant == Spec => []SoleInv
<1>1. Init => SoleInv
  BY NoPatchType DEF Init, SoleInv
<1>2. TypeOK /\ SoleInv /\ [Next]_nixVars => SoleInv'
  <2> SUFFICES ASSUME TypeOK, SoleInv, [Next]_nixVars PROVE SoleInv'
    OBVIOUS
  <2> USE NoPatchType DEF TypeOK, SoleInv, Patches, Modes
  <2>1. ASSUME NEW a \in Patchers, NewNixPatch(a) PROVE SoleInv'
    BY <2>1 DEF NewNixPatch
  <2>2. ASSUME NEW a \in Patchers, Cancel(a) PROVE SoleInv'
    BY <2>2 DEF Cancel
  <2>3. ASSUME NEW a \in Patchers, NEW op \in Ops, add(a, op) PROVE SoleInv'
    BY <2>3 DEF add
  <2>4. ASSUME NEW a \in Patchers, NEW mode \in Modes, ApplyCustom(a, mode) PROVE SoleInv'
    BY <2>4 DEF ApplyCustom
  <2>5. ASSUME NEW a \in Patchers, MakeSnapshotDir(a) PROVE SoleInv'
    BY <2>5 DEF MakeSnapshotDir
  <2>6. ASSUME NEW a \in Patchers, CopyToSnapshot(a) PROVE SoleInv'
    BY <2>6 DEF CopyToSnapshot
  <2>7. ASSUME NEW a \in Patchers, SnapshotFails(a) PROVE SoleInv'
    BY <2>7 DEF SnapshotFails
  <2>8. ASSUME NEW a \in Patchers, Operation(a) PROVE SoleInv'
    BY <2>8 DEF Operation
  <2>9. ASSUME NEW a \in Patchers, StartRebuild(a) PROVE SoleInv'
    BY <2>9 DEF StartRebuild
  <2>10. ASSUME NEW a \in Patchers, Rebuilt(a) PROVE SoleInv'
    BY <2>10 DEF Rebuilt
  <2>11. ASSUME NEW a \in Patchers, NoRebuild(a) PROVE SoleInv'
    BY <2>11 DEF NoRebuild
  <2>12. ASSUME NEW a \in Patchers, triggerRollback(a) PROVE SoleInv'
    BY <2>12 DEF triggerRollback, doRollback
  <2>13. ASSUME NEW a \in Patchers, RemoveSnapshot(a) PROVE SoleInv'
    BY <2>13 DEF RemoveSnapshot
  <2>14. CASE Crash
    BY <2>14 DEF Crash
  <2>15. CASE Tick
    BY <2>15 DEF Tick
  <2>16. CASE UNCHANGED nixVars
    BY <2>16 DEF nixVars
  <2> QED
    BY <2>1, <2>2, <2>3, <2>4, <2>5, <2>6, <2>7, <2>8, <2>9, <2>10, <2>11, <2>12,
       <2>13, <2>14, <2>15, <2>16 DEF Next, Step
<1> QED BY <1>1, <1>2, Typing, PTL DEF Spec

\* A patcher that is alone finds the system built from all of NixDir when its
\* patch was applied: ApplyCustom rebuilds after the last operation and nothing
\* of it writes later.
THEOREM AppliedRunning == Spec => []AppliedIsRunning
<1>1. SoleInv => AppliedIsRunning
  BY DEF SoleInv, AppliedIsRunning
<1> QED BY <1>1, SoleInvariant, PTL
-----------------------------------------------------------------------------
\* How one step of one patch looks to its caller, patch[a] alone having changed.
LEMMA AbsStep ==
  ASSUME TypeOK, NEW a \in Patchers, NEW p \in Patches,
         patch' = [patch EXCEPT ![a] = p]
  PROVE  [x \in Patchers |-> AbsPatch(patch[x])]'
           = [[x \in Patchers |-> AbsPatch(patch[x])] EXCEPT ![a] = AbsPatch(p)]
BY DEF TypeOK

LEMMA AbsTouch ==
  ASSUME TypeOK, NEW a \in Patchers, NEW p \in Patches,
         patch' = [patch EXCEPT ![a] = p], AbsPatch(p) = AbsPatch(patch[a])
  PROVE  [x \in Patchers |-> AbsPatch(patch[x])]' = [x \in Patchers |-> AbsPatch(patch[x])]
BY DEF TypeOK

\* The records of NixConfig with a field changed.
LEMMA WithOps ==
  ASSUME NEW at, NEW ops, NEW cfg, NEW x, NEW r, r = [at |-> at, ops |-> ops, cfg |-> cfg]
  PROVE  [r EXCEPT !.ops = x] = [at |-> at, ops |-> x, cfg |-> cfg]
<1>1. r \in [at : {at}, ops : {ops, x}, cfg : {cfg}]
  OBVIOUS
<1>2. r.at = at /\ r.cfg = cfg
  OBVIOUS
<1> QED BY ONLY <1>1, <1>2

LEMMA WithAt ==
  ASSUME NEW at, NEW ops, NEW cfg, NEW x, NEW r, r = [at |-> at, ops |-> ops, cfg |-> cfg]
  PROVE  [r EXCEPT !.at = x] = [at |-> x, ops |-> ops, cfg |-> cfg]
<1>1. r \in [at : {at, x}, ops : {ops}, cfg : {cfg}]
  OBVIOUS
<1>2. r.ops = ops /\ r.cfg = cfg
  OBVIOUS
<1> QED BY ONLY <1>1, <1>2

LEMMA WithCfg ==
  ASSUME NEW at, NEW ops, NEW cfg, NEW x, NEW r, r = [at |-> at, ops |-> ops, cfg |-> cfg]
  PROVE  [r EXCEPT !.cfg = x] = [at |-> at, ops |-> ops, cfg |-> x]
<1>1. r \in [at : {at}, ops : {ops}, cfg : {cfg, x}]
  OBVIOUS
<1>2. r.at = at /\ r.ops = ops
  OBVIOUS
<1> QED BY ONLY <1>1, <1>2

\* ApplyCustom with its snapshots, failures and crashes, and any number of
\* patchers at once, does to NixDir and the system what NixConfig says a caller may
\* count on.
THEOREM Refinement == Spec => AbsSpec
<1>1. Init => Abs!ConfigInit
  <2> SUFFICES ASSUME Init PROVE Abs!ConfigInit
    OBVIOUS
  <2>1. \A a \in Patchers : AbsPatch(patch[a]) = Abs!NoPatch
    BY DEF Init, AbsPatch, AbsAt, NoPatch, Abs!NoPatch, NoDir
  <2> QED BY <2>1 DEF Init, Empty, Abs!ConfigInit, Abs!NixInit
<1>2. TypeOK /\ TypeOK' /\ SoleInv /\ [Next]_nixVars => [Abs!ConfigNext]_(Abs!configVars)
  <2> SUFFICES ASSUME TypeOK, TypeOK', SoleInv, [Next]_nixVars
               PROVE  Abs!ConfigNext \/ UNCHANGED Abs!configVars
    OBVIOUS
  <2> DEFINE A == [x \in Patchers |-> AbsPatch(patch[x])]
             Goal == Abs!ConfigNext \/ UNCHANGED Abs!configVars
  <2>0. ASSUME NEW a \in Patchers PROVE patch[a] \in Patches /\ patch'[a] \in Patches
    BY DEF TypeOK
  \* A step of one patch that its caller does not see.
  <2>a. ASSUME NEW a \in Patchers, NEW p \in Patches, patch' = [patch EXCEPT ![a] = p],
               AbsPatch(p) = AbsPatch(patch[a]), UNCHANGED <<nixDir, running>>
        PROVE  Goal
    BY <2>a, AbsTouch DEF Abs!configVars
  <2>1. ASSUME NEW a \in Patchers, NewNixPatch(a) PROVE Goal
    <3> DEFINE q == [NoPatch EXCEPT !.state = "pending"]
    <3>1. q \in Patches /\ AbsPatch(q) = Abs!NoPatch
      BY NoPatchType DEF Patches, NoPatch, AbsPatch, AbsAt, Abs!NoPatch, NoDir
    <3>2. A' = [A EXCEPT ![a] = Abs!NoPatch]
      BY <2>1, <3>1, AbsStep DEF NewNixPatch
    <3>3. CASE patch[a].state \in {"applied", "errored"}
      <4>1. A[a].at \in Abs!Result
        BY <2>1, <3>3 DEF NewNixPatch, AbsPatch, AbsAt, Abs!Result
      <4>2. Abs!Discard(a)
        BY <2>1, <3>2, <4>1 DEF NewNixPatch, Abs!Discard
      <4> QED BY <4>2 DEF Abs!ConfigNext
    <3>4. CASE patch[a].state \notin {"applied", "errored"}
      <4>1. AbsPatch(patch[a]).at = "idle" /\ AbsPatch(patch[a]).ops = <<>>
        BY <2>1, <3>4 DEF NewNixPatch, AbsPatch, AbsAt
      <4>2. patch[a].cfg = NoDir
        BY <2>1 DEF SoleInv, NewNixPatch
      <4>3. AbsPatch(patch[a]) = AbsPatch(q)
        BY <4>1, <4>2, <3>1 DEF AbsPatch, Abs!NoPatch, NoDir
      <4> QED BY <2>1, <2>a, <3>1, <4>3 DEF NewNixPatch
    <3> QED BY <3>3, <3>4
  <2>2. ASSUME NEW a \in Patchers, Cancel(a) PROVE Goal
    <3> DEFINE q == [patch[a] EXCEPT !.state = "cancelled"]
    <3>1. q \in Patches /\ patch' = [patch EXCEPT ![a] = q]
      BY <2>0, <2>2 DEF Cancel, Patches
    <3>2. AbsPatch(q) = AbsPatch(patch[a])
      BY <2>0, <2>2 DEF Cancel, Patches, SoleInv, AbsPatch, AbsAt
    <3> QED BY <2>a, <2>2, <3>1, <3>2 DEF Cancel
  <2>3. ASSUME NEW a \in Patchers, NEW op \in Ops, add(a, op) PROVE Goal
    <3> DEFINE q == [patch[a] EXCEPT !.ops = Append(@, op)]
    <3>0. Append(patch[a].ops, op) \in Seq(Ops)
      BY <2>0 DEF Patches
    <3>1. q \in Patches /\ patch' = [patch EXCEPT ![a] = q]
      BY <2>0, <2>3, <3>0 DEF add, Patches
    <3>2. AbsPatch(q) = AbsPatch(patch[a])
      BY <2>0, <2>3 DEF add, Patches, SoleInv, AbsPatch, AbsAt
    <3> QED BY <2>a, <2>3, <3>1, <3>2 DEF add
  <2>4. ASSUME NEW a \in Patchers, NEW mode \in Modes, ApplyCustom(a, mode) PROVE Goal
    <3> DEFINE q == [patch[a] EXCEPT !.state = "applying", !.at = "snapshot", !.mode = mode]
               abs == [at |-> "write", ops |-> patch[a].ops, cfg |-> <<>>]
    <3>1. q \in Patches /\ patch' = [patch EXCEPT ![a] = q]
      BY <2>0, <2>4 DEF ApplyCustom, Patches
    <3>2. patch[a].cfg = NoDir /\ patch[a].at = "idle" /\ patch[a].ops \in Seq(Ops)
      BY <2>0, <2>4 DEF ApplyCustom, SoleInv, Patches
    <3>3. AbsPatch(q) = abs
      BY <2>0, <3>2 DEF AbsPatch, AbsAt, Patches, NoDir
    <3>4. A' = [A EXCEPT ![a] = abs]
      BY <3>1, <3>3, AbsStep
    <3>5. A[a].at = "idle"
      BY <2>4, <3>2 DEF ApplyCustom, AbsPatch, AbsAt
    <3>6. A'[a].ops = patch[a].ops
      BY <3>4
    <3>7. Abs!Apply(a, patch[a].ops)
      BY <2>4, <3>4, <3>5 DEF ApplyCustom, Abs!Apply
    <3>8. patch[a].ops \in Seq(Abs!Ops)
      BY <3>2 DEF Ops, Abs!Ops
    <3> QED BY <3>6, <3>7, <3>8 DEF Abs!ConfigNext
  <2>5. ASSUME NEW a \in Patchers, MakeSnapshotDir(a) PROVE Goal
    <3> DEFINE q == [patch[a] EXCEPT !.at = "copy", !.snapshotDir = now]
    <3>1. q \in Patches /\ patch' = [patch EXCEPT ![a] = q]
      BY <2>0, <2>5 DEF MakeSnapshotDir, Patches, TypeOK
    <3>2. AbsPatch(q) = AbsPatch(patch[a])
      BY <2>0, <2>5 DEF MakeSnapshotDir, Patches, AbsPatch, AbsAt
    <3> QED BY <2>a, <2>5, <3>1, <3>2 DEF MakeSnapshotDir
  <2>6. ASSUME NEW a \in Patchers, CopyToSnapshot(a) PROVE Goal
    <3> DEFINE q == [patch[a] EXCEPT !.at = "operation"]
    <3>1. q \in Patches /\ patch' = [patch EXCEPT ![a] = q]
      BY <2>0, <2>6 DEF CopyToSnapshot, Patches
    <3>2. AbsPatch(q) = AbsPatch(patch[a])
      BY <2>0, <2>6 DEF CopyToSnapshot, Patches, AbsPatch, AbsAt
    <3> QED BY <2>a, <2>6, <3>1, <3>2 DEF CopyToSnapshot
  \* A patch that fails is gone, with what it has written left behind.
  <2>b. ASSUME NEW a \in Patchers, patch[a].at \in {"snapshot", "copy", "operation", "rebuild"},
               patch' = [patch EXCEPT ![a] = [NoPatch EXCEPT !.state = "errored"]],
               UNCHANGED <<nixDir, running>>
        PROVE  Goal
    <3> DEFINE q == [NoPatch EXCEPT !.state = "errored"]
    <3>0. q \in Patches
      BY NoPatchType DEF Patches
    <3>1. AbsPatch(q) = [Abs!NoPatch EXCEPT !.at = "errored"]
      BY DEF NoPatch, AbsPatch, AbsAt, Abs!NoPatch, NoDir
    <3>a. A' = [A EXCEPT ![a] = AbsPatch(q)]
      BY <2>b, <3>0, AbsStep
    <3>2. A' = [A EXCEPT ![a] = [Abs!NoPatch EXCEPT !.at = "errored"]]
      BY <3>a, <3>1
    <3>3. A[a].at \in Abs!Active
      BY <2>b DEF AbsPatch, AbsAt, Abs!Active
    <3>4. Abs!Fail(a)
      BY <2>b, <3>2, <3>3 DEF Abs!Fail
    <3> QED BY <3>4 DEF Abs!ConfigNext
  <2>7. ASSUME NEW a \in Patchers, SnapshotFails(a) PROVE Goal
    BY <2>7, <2>b DEF SnapshotFails
  <2>8. ASSUME NEW a \in Patchers, Operation(a) PROVE Goal
    <3> DEFINE q == [patch[a] EXCEPT !.ops = Tail(@)]
    <3>0. Tail(patch[a].ops) \in Seq(Ops)
      BY <2>0, <2>8 DEF Operation, Patches
    <3>1. q \in Patches /\ patch' = [patch EXCEPT ![a] = q]
      BY <2>0, <2>8, <3>0 DEF Operation, Patches
    <3>2. A[a].at = "write" /\ A[a].ops = patch[a].ops
      BY <2>8 DEF Operation, AbsPatch, AbsAt
    <3>3. AbsPatch(q) = [AbsPatch(patch[a]) EXCEPT !.ops = Tail(@)]
      <4>1. /\ q.at = "operation" /\ q.ops = Tail(patch[a].ops)
            /\ q.cfg = patch[a].cfg /\ patch[a].at = "operation"
        BY <2>0, <2>8 DEF Operation, Patches
      <4>2. AbsAt(q) = "write" /\ AbsAt(patch[a]) = "write"
        BY <4>1 DEF AbsAt
      <4>3. AbsPatch(patch[a]) = [at |-> "write", ops |-> patch[a].ops, cfg |-> patch[a].cfg]
        BY <4>2 DEF AbsPatch
      <4>4. AbsPatch(q) = [at |-> "write", ops |-> Tail(patch[a].ops), cfg |-> patch[a].cfg]
        <5> HIDE DEF q
        <5> QED BY <4>1, <4>2 DEF AbsPatch
      <4> DEFINE left == Tail(patch[a].ops)
      <4>5. [AbsPatch(patch[a]) EXCEPT !.ops = left]
              = [at |-> "write", ops |-> left, cfg |-> patch[a].cfg]
        <5> HIDE DEF left
        <5> QED BY <4>3, WithOps
      <4>6. AbsPatch(patch[a]).ops = patch[a].ops
        BY <4>3
      <4> HIDE DEF q
      <4> QED BY <4>4, <4>5, <4>6
    <3>a. A' = [A EXCEPT ![a] = AbsPatch(q)]
      BY <3>1, AbsStep
    <3>4. A' = [A EXCEPT ![a].ops = Tail(@)]
      <4>1. AbsPatch(q) = [A[a] EXCEPT !.ops = Tail(@)]
        BY <3>3
      <4>2. [A EXCEPT ![a] = [A[a] EXCEPT !.ops = Tail(@)]] = [A EXCEPT ![a].ops = Tail(@)]
        <5> HIDE DEF A
        <5> QED OBVIOUS
      <4> QED BY <4>1, <4>2, <3>a
    <3>5. Abs!Write(a)
      BY <2>8, <3>2, <3>4 DEF Operation, Abs!Write
    <3> QED BY <3>5 DEF Abs!ConfigNext
  <2>9. ASSUME NEW a \in Patchers, StartRebuild(a) PROVE Goal
    <3> DEFINE q == [patch[a] EXCEPT !.at = "rebuild", !.cfg = nixDir]
    <3>1. q \in Patches /\ patch' = [patch EXCEPT ![a] = q]
      BY <2>0, <2>9 DEF StartRebuild, Patches, TypeOK
    <3>2. A[a].at = "write" /\ A[a].ops = <<>>
      BY <2>9 DEF StartRebuild, AbsPatch, AbsAt
    <3>3. AbsPatch(q) = [AbsPatch(patch[a]) EXCEPT !.at = "switch", !.cfg = nixDir]
      <4>1. /\ q.at = "rebuild" /\ q.cfg = nixDir
            /\ patch[a].at = "operation" /\ patch[a].ops = <<>>
        BY <2>0, <2>9 DEF StartRebuild, Patches
      <4>2. AbsAt(q) = "switch" /\ AbsAt(patch[a]) = "write"
        BY <4>1 DEF AbsAt
      <4>3. AbsPatch(patch[a]) = [at |-> "write", ops |-> <<>>, cfg |-> patch[a].cfg]
        BY <4>1, <4>2 DEF AbsPatch
      <4>4. AbsPatch(q) = [at |-> "switch", ops |-> <<>>, cfg |-> nixDir]
        <5> HIDE DEF q
        <5> QED BY <4>1, <4>2 DEF AbsPatch
      <4> DEFINE r == [AbsPatch(patch[a]) EXCEPT !.at = "switch"]
      <4>5. r = [at |-> "switch", ops |-> <<>>, cfg |-> patch[a].cfg]
        BY <4>3, WithAt
      <4>6. [AbsPatch(patch[a]) EXCEPT !.at = "switch", !.cfg = nixDir]
              = [r EXCEPT !.cfg = nixDir]
        OBVIOUS
      <4>7. [r EXCEPT !.cfg = nixDir] = [at |-> "switch", ops |-> <<>>, cfg |-> nixDir]
        <5> HIDE DEF r
        <5> QED BY <4>5, WithCfg
      <4> HIDE DEF q, r
      <4> QED BY <4>4, <4>6, <4>7
    <3>a. A' = [A EXCEPT ![a] = AbsPatch(q)]
      BY <3>1, AbsStep
    <3>4. A' = [A EXCEPT ![a].at = "switch", ![a].cfg = nixDir]
      <4>1. AbsPatch(q) = [A[a] EXCEPT !.at = "switch", !.cfg = nixDir]
        BY <3>3
      <4>2. [A EXCEPT ![a] = [A[a] EXCEPT !.at = "switch", !.cfg = nixDir]]
              = [A EXCEPT ![a].at = "switch", ![a].cfg = nixDir]
        <5> HIDE DEF A
        <5> QED OBVIOUS
      <4> QED BY <4>1, <4>2, <3>a
    <3>5. Abs!Evaluate(a)
      BY <2>9, <3>2, <3>4 DEF StartRebuild, Abs!Evaluate
    <3> QED BY <3>5 DEF Abs!ConfigNext
  <2>10. ASSUME NEW a \in Patchers, Rebuilt(a) PROVE Goal
    <3> DEFINE q == [patch[a] EXCEPT !.at = "remove", !.cfg = NoDir]
    <3>1. q \in Patches /\ patch' = [patch EXCEPT ![a] = q]
      BY <2>0, <2>10 DEF Rebuilt, Patches
    <3>2. A[a].at = "switch" /\ A[a].cfg = patch[a].cfg
      BY <2>10 DEF Rebuilt, AbsPatch, AbsAt
    <3>3. AbsPatch(q) = [Abs!NoPatch EXCEPT !.at = "applied"]
      BY <2>0 DEF Patches, AbsPatch, AbsAt, Abs!NoPatch, NoDir
    <3>a. A' = [A EXCEPT ![a] = AbsPatch(q)]
      BY <3>1, AbsStep
    <3>4. A' = [A EXCEPT ![a] = [Abs!NoPatch EXCEPT !.at = "applied"]]
      BY <3>a, <3>3
    <3>5. Abs!Switch(a) \/ Abs!Skip(a)
      BY <2>10, <3>2, <3>4 DEF Rebuilt, Abs!Switch, Abs!Skip
    <3> QED BY <3>5 DEF Abs!ConfigNext
  <2>11. ASSUME NEW a \in Patchers, NoRebuild(a) PROVE Goal
    <3> DEFINE q == [patch[a] EXCEPT !.at = "remove"]
    <3>1. q \in Patches /\ patch' = [patch EXCEPT ![a] = q]
      BY <2>0, <2>11 DEF NoRebuild, Patches
    <3>2. A[a].at = "write" /\ A[a].ops = <<>> /\ patch[a].cfg = NoDir
      BY <2>11 DEF NoRebuild, AbsPatch, AbsAt, SoleInv
    <3>3. AbsPatch(q) = [Abs!NoPatch EXCEPT !.at = "applied"]
      BY <2>0, <3>2 DEF Patches, AbsPatch, AbsAt, Abs!NoPatch, NoDir
    <3>a. A' = [A EXCEPT ![a] = AbsPatch(q)]
      BY <3>1, AbsStep
    <3>4. A' = [A EXCEPT ![a] = [Abs!NoPatch EXCEPT !.at = "applied"]]
      BY <3>a, <3>3
    <3>5. Abs!Skip(a)
      BY <2>11, <3>2, <3>4 DEF NoRebuild, Abs!Skip
    <3> QED BY <3>5 DEF Abs!ConfigNext
  <2>12. ASSUME NEW a \in Patchers, triggerRollback(a) PROVE Goal
    BY <2>12, <2>b DEF triggerRollback, doRollback
  <2>13. ASSUME NEW a \in Patchers, RemoveSnapshot(a) PROVE Goal
    <3> DEFINE q == [NoPatch EXCEPT !.state = "applied", !.mode = patch[a].mode]
    <3>1. q \in Patches /\ patch' = [patch EXCEPT ![a] = q]
      BY <2>0, <2>13, NoPatchType DEF RemoveSnapshot, Patches
    <3>2. patch[a].cfg = NoDir
      BY <2>13 DEF RemoveSnapshot, SoleInv
    <3>3. AbsPatch(q) = AbsPatch(patch[a])
      BY <2>0, <2>13, <3>2 DEF RemoveSnapshot, NoPatch, AbsPatch, AbsAt, NoDir
    <3> QED BY <2>a, <2>13, <3>1, <3>3 DEF RemoveSnapshot
  <2>14. CASE Crash
    <3>1. AbsPatch(NoPatch) = Abs!NoPatch
      BY DEF NoPatch, AbsPatch, AbsAt, Abs!NoPatch, NoDir
    <3>2. A' = [x \in Patchers |-> Abs!NoPatch]
      BY <2>14, <3>1 DEF Crash
    <3>3. Abs!StopPatches
      BY <2>14, <3>2 DEF Crash, Abs!StopPatches
    <3> QED BY <3>3 DEF Abs!ConfigNext
  <2>15. CASE Tick
    BY <2>15 DEF Tick, Abs!configVars
  <2>16. CASE UNCHANGED nixVars
    BY <2>16 DEF nixVars, Abs!configVars
  <2> QED
    BY <2>1, <2>2, <2>3, <2>4, <2>5, <2>6, <2>7, <2>8, <2>9, <2>10, <2>11, <2>12,
       <2>13, <2>14, <2>15, <2>16 DEF Next, Step
<1> QED BY <1>1, <1>2, Typing, SoleInvariant, PTL DEF Spec, AbsSpec, Abs!ConfigSpec
=============================================================================
