----------------------------- MODULE UpgradeProofs -----------------------------
(* Proofs about Upgrade, for all releases, thresholds, found boxes and bounds. *)
EXTENDS Upgrade, WellFoundedInduction, TLAPS

(***************************************************************************)
(* The inductive invariant.  What is said of units and releases holds      *)
(* until an update is begun beside the unit of a dead process.             *)
(***************************************************************************)

\* A unit runs alone, and none while an update is prepared.
AloneInv ==
  /\ \A v, w \in Versions : unit[v] # "none" /\ unit[w] # "none" => v = w
  /\ upd.at \in {"clone", "launch"} => \A v \in Versions : unit[v] = "none"

\* What is prepared and what is built is newer than the release; further on the
\* release, and then the flake, are those of the unit.
AheadInv ==
  /\ upd.at \in {"clone", "launch"} => Target(Job) \in Versions /\ release < Target(Job)
  /\ \A v \in Versions : /\ unit[v] \in {"build", "switch"} => release < v
                         /\ unit[v] = "copy" => release = v /\ flake <= v
                         /\ unit[v] = "activate" => release = v /\ flake = v
  /\ flake <= release + 1 /\ mig.flake <= flake

HasLanded(i) == release >= Target(i) /\ flake >= Target(i)

\* What is reported, settled or recorded as done has landed.
DoneInv ==
  /\ upd.at = "report" /\ upd.ok /\ rows[Job].kind = "update" => HasLanded(Job)
  /\ \A i \in DOMAIN rows :
       rows[i].status = "completed" /\ rows[i].kind = "update" => HasLanded(i)
  /\ record.ran => release >= Threshold /\ flake >= Threshold

LandInv == overlap \/ (AloneInv /\ AheadInv /\ DoneInv)

\* The two branches of the updater work on jobs of their kind, and a copy of
\* custom.nix is where the updater says.
CustomInv ==
  /\ upd.at \in {"validate", "writing"} => rows[Job].kind = "custom"
  /\ upd.at = "copying" => custom.kept = "torn"
  /\ upd.at = "verified" => custom.kept = custom.legacy

IInv == TypeOK /\ LandInv /\ CustomInv
-----------------------------------------------------------------------------
(* Lemmas: the newest of some releases, and what happens to the rows.        *)

LEMMA Minimum ==
  ASSUME NEW S \in SUBSET Nat, S # {}
  PROVE  \E x \in S : \A y \in S : x <= y
<1> DEFINE R == {ss \in Nat \X Nat : ss[1] < ss[2]}
<1>1. IsWellFoundedOn(R, Nat)
  BY NatLessThanWellFounded DEF OpToRel
<1>2. \A a, b \in Nat : <<a, b>> \in R <=> a < b
  OBVIOUS
<1> HIDE DEF R
<1>3. PICK x \in S : \A y \in S : ~ (<<y, x>> \in R)
  BY <1>1, WFMin
<1>4. ASSUME NEW y \in S PROVE x <= y
  <2>1. x \in Nat /\ y \in Nat
    OBVIOUS
  <2>2. ~ (y < x)
    BY <1>2, <1>3, <2>1
  <2> QED BY <2>1, <2>2
<1> QED BY <1>4

LEMMA LatestIsOne ==
  ASSUME NEW S \in SUBSET Versions, S # {}
  PROVE  Latest(S) \in S
<1> DEFINE T == {Newest - v : v \in S}
<1>1. \A v \in S : v \in Nat /\ Newest - v \in Nat
  BY UpgradeAssumption DEF Versions
<1>2. T \in SUBSET Nat /\ T # {}
  BY <1>1
<1>3. PICK t \in T : \A u \in T : t <= u
  BY <1>2, Minimum
<1>4. PICK v \in S : t = Newest - v
  OBVIOUS
<1>5. ASSUME NEW w \in S PROVE w <= v
  <2>1. Newest - v <= Newest - w
    BY <1>3, <1>4
  <2> QED BY <2>1, <1>1, UpgradeAssumption
<1> QED BY <1>5 DEF Latest

LEMMA TargetType == TypeOK => MigrationTarget \in 0..Newest
<1> SUFFICES ASSUME TypeOK PROVE MigrationTarget \in 0..Newest
  OBVIOUS
<1>1. Upgradable(release, record.pre) \in SUBSET Versions
  BY UpgradeAssumption DEF Upgradable, Tags, Versions, TypeOK
<1>2. Upgradable(release, record.pre) # {} =>
        Latest(Upgradable(release, record.pre)) \in 0..Newest
  BY <1>1, LatestIsOne, UpgradeAssumption DEF Versions
<1> QED BY <1>2, UpgradeAssumption DEF MigrationTarget, TypeOK

LEMMA AddedRow ==
  ASSUME TypeOK, NEW k \in {"update", "custom"}, NEW v \in 0..Newest,
         NEW b \in {"user", "migration"}, AddJob(k, v, b)
  PROVE  /\ rows' \in Seq(Rows) /\ queue' \in Seq(1..Len(rows'))
         /\ Len(rows') = Len(rows) + 1
         /\ \A i \in DOMAIN rows : i \in DOMAIN rows' /\ rows'[i] = rows[i]
         /\ \A i \in DOMAIN rows' : i \in DOMAIN rows \/ rows'[i].status = "active"
<1> DEFINE r == [kind |-> k, target |-> v, by |-> b, status |-> "active"]
<1>1. r \in Rows /\ r.status = "active"
  BY DEF Rows, Statuses
<1>2. rows' = Append(rows, r) /\ queue' = Append(queue, Len(rows) + 1)
  BY DEF AddJob
<1> HIDE DEF r
<1>3. rows \in Seq(Rows) /\ queue \in Seq(1..Len(rows)) /\ Len(rows) \in Nat
  BY DEF TypeOK
<1>4. rows' \in Seq(Rows) /\ Len(rows') = Len(rows) + 1
  BY <1>1, <1>2, <1>3
<1>5. queue \in Seq(1..Len(rows')) /\ Len(rows) + 1 \in 1..Len(rows')
  BY <1>3, <1>4
<1> QED BY <1>1, <1>2, <1>3, <1>4, <1>5

LEMMA RowStatus ==
  ASSUME NEW r \in Rows, NEW s \in Statuses
  PROVE  /\ [r EXCEPT !.status = s] \in Rows
         /\ [r EXCEPT !.status = s].kind = r.kind
         /\ [r EXCEPT !.status = s].target = r.target
         /\ [r EXCEPT !.status = s].status = s
BY DEF Rows

LEMMA RestatedRows ==
  ASSUME TypeOK, NEW st \in [DOMAIN rows -> Statuses],
         rows' = [i \in DOMAIN rows |-> [rows[i] EXCEPT !.status = st[i]]]
  PROVE  /\ rows' \in Seq(Rows) /\ Len(rows') = Len(rows) /\ DOMAIN rows' = DOMAIN rows
         /\ \A k \in DOMAIN rows : /\ rows'[k].kind = rows[k].kind
                                   /\ rows'[k].target = rows[k].target
                                   /\ rows'[k].status = st[k]
<1>1. rows \in Seq(Rows) /\ Len(rows) \in Nat /\ DOMAIN rows = 1..Len(rows)
  BY DEF TypeOK
<1>2. \A k \in DOMAIN rows : rows[k] \in Rows /\ st[k] \in Statuses
  BY <1>1
<1>3. \A k \in DOMAIN rows : rows'[k] = [rows[k] EXCEPT !.status = st[k]]
  OBVIOUS
<1>4. \A k \in DOMAIN rows : /\ rows'[k] \in Rows /\ rows'[k].kind = rows[k].kind
                            /\ rows'[k].target = rows[k].target /\ rows'[k].status = st[k]
  <2> TAKE k \in DOMAIN rows
  <2> QED BY <1>2, <1>3, RowStatus
<1>5. DOMAIN rows' = 1..Len(rows)
  BY <1>1
<1> QED BY <1>1, <1>4, <1>5

LEMMA SettledRow ==
  ASSUME TypeOK, NEW i \in DOMAIN rows, NEW s \in Statuses, Settle(i, s)
  PROVE  /\ rows' \in Seq(Rows) /\ Len(rows') = Len(rows) /\ DOMAIN rows' = DOMAIN rows
         /\ \A k \in DOMAIN rows :
              /\ rows'[k].kind = rows[k].kind /\ rows'[k].target = rows[k].target
              /\ rows'[k].status = IF k = i THEN s ELSE rows[k].status
<1> DEFINE st == [k \in DOMAIN rows |-> IF k = i THEN s ELSE rows[k].status]
<1>1. \A k \in DOMAIN rows : rows[k] \in Rows
  BY DEF TypeOK
<1>2. st \in [DOMAIN rows -> Statuses]
  BY <1>1 DEF Rows
<1>3. \A r \in Rows : r = [r EXCEPT !.status = r.status]
  BY DEF Rows
<1>4. rows' = [k \in DOMAIN rows |-> [rows[k] EXCEPT !.status = st[k]]]
  <2>1. rows' = [k \in DOMAIN rows |->
                  IF k = i THEN [rows[k] EXCEPT !.status = s] ELSE rows[k]]
    BY DEF Settle
  <2>2. ASSUME NEW k \in DOMAIN rows
        PROVE  (IF k = i THEN [rows[k] EXCEPT !.status = s] ELSE rows[k])
               = [rows[k] EXCEPT !.status = st[k]]
    BY <1>1, <1>3
  <2> QED BY <2>1, <2>2
<1> HIDE DEF st
<1>5. /\ rows' \in Seq(Rows) /\ Len(rows') = Len(rows) /\ DOMAIN rows' = DOMAIN rows
      /\ \A k \in DOMAIN rows : /\ rows'[k].kind = rows[k].kind
                                /\ rows'[k].target = rows[k].target
                                /\ rows'[k].status = st[k]
  BY <1>2, <1>4, RestatedRows
<1> QED BY <1>5 DEF st

-----------------------------------------------------------------------------
(* Typing. *)

LEMMA RestingType == /\ \A n \in Nat : Resting \in [at : Updating, row : 0..n, ok : BOOLEAN]
                     /\ Resting.at = "idle" /\ Resting.row = 0
BY DEF Resting, Updating

LEMMA MigrationType == /\ NoMigration \in [at : Migrating, flake : 0..Newest]
                       /\ NoMigration.at = "none" /\ NoMigration.flake = 0
BY UpgradeAssumption DEF NoMigration, Migrating

LEMMA TypingInit == Init => TypeOK
<1> SUFFICES ASSUME Init PROVE TypeOK
  OBVIOUS
<1>1. tags \in Versions
  BY UpgradeAssumption DEF Init, Versions
<1>2. release \in 0..Newest /\ flake \in 0..Newest
  BY UpgradeAssumption DEF Init
<1>3. rows \in Seq(Rows) /\ queue \in Seq(1..Len(rows)) /\ Len(rows) = 0
  BY DEF Init
<1>4. left \in [requests : Nat, trouble : Nat]
  BY UpgradeAssumption DEF Init
<1>5. mig \in [at : Migrating, flake : 0..Newest]
  BY MigrationType DEF Init
<1>6. upd \in [at : Updating, row : 0..Len(rows), ok : BOOLEAN] /\ upd.at = "idle"
  BY RestingType, <1>3 DEF Init
<1>7. record \in [pre : BOOLEAN, ran : BOOLEAN, doNotRun : BOOLEAN]
  BY DEF Init
<1> QED BY <1>1, <1>2, <1>3, <1>4, <1>5, <1>6, <1>7 DEF Init, TypeOK

\* What is left of the failures, and the SystemUpdater's next stage.
LEMMA TroubleType == ASSUME TypeOK, Trouble PROVE left' \in [requests : Nat, trouble : Nat]
<1>1. left \in [requests : Nat, trouble : Nat] /\ left.trouble - 1 \in Nat
  BY DEF TypeOK, Trouble
<1>2. left' = [left EXCEPT !.trouble = left.trouble - 1]
  BY DEF Trouble
<1> QED BY <1>1, <1>2

LEMMA RequestedType == ASSUME TypeOK, Requested PROVE left' \in [requests : Nat, trouble : Nat]
<1>1. left \in [requests : Nat, trouble : Nat] /\ left.requests - 1 \in Nat
  BY DEF TypeOK, Requested
<1>2. left' = [left EXCEPT !.requests = left.requests - 1]
  BY DEF Requested
<1> QED BY <1>1, <1>2

\* The row the updater is at is still there when rows are added.
LEMMA LaterRows ==
  ASSUME TypeOK, Len(rows') = Len(rows) + 1, upd' = upd
  PROVE  upd' \in [at : Updating, row : 0..Len(rows'), ok : BOOLEAN]
<1>1. Len(rows) \in Nat /\ upd \in [at : Updating, row : 0..Len(rows), ok : BOOLEAN]
  BY DEF TypeOK
<1> QED BY <1>1

LEMMA GoType ==
  ASSUME TypeOK, NEW at \in Updating, Go(at), upd.at # "idle" \/ at = "idle"
  PROVE  /\ upd' \in [at : Updating, row : 0..Len(rows), ok : BOOLEAN]
         /\ upd'.at = at /\ upd'.row = upd.row /\ upd'.ok = upd.ok
         /\ upd'.at # "idle" => upd'.row # 0
BY DEF TypeOK, Go

LEMMA EndType ==
  ASSUME TypeOK, NEW ok \in BOOLEAN, End(ok), upd.at # "idle"
  PROVE  /\ upd' \in [at : Updating, row : 0..Len(rows), ok : BOOLEAN]
         /\ upd'.at = "report" /\ upd'.row = upd.row /\ upd'.ok = ok /\ upd'.row # 0
BY DEF TypeOK, End, Updating

LEMMA JobIsRow ==
  ASSUME TypeOK, upd.at # "idle"
  PROVE  Job \in DOMAIN rows /\ rows[Job] \in Rows /\ Target(Job) \in 0..Newest /\ proc = "up"
<1>1. upd.row \in 1..Len(rows) /\ rows \in Seq(Rows)
  BY DEF TypeOK
<1>2. proc = "up"
  BY RestingType DEF TypeOK
<1>3. rows[upd.row] \in Rows /\ upd.row \in DOMAIN rows
  BY <1>1
<1>4. rows[upd.row].target \in 0..Newest
  BY <1>3 DEF Rows
<1> QED BY <1>2, <1>3, <1>4 DEF Job, Target

LEMMA TypingStep == TypeOK /\ [Next]_vars => TypeOK'
<1> SUFFICES ASSUME TypeOK, [Next]_vars PROVE TypeOK'
  OBVIOUS
<1> USE UpgradeAssumption, RestingType, MigrationType
<1>1. CASE Publish
  BY <1>1 DEF Publish, TypeOK, Versions, installed, process
<1>2. ASSUME NEW v \in Versions, RequestUpdate(v) PROVE TypeOK'
  <2>1. v \in 0..Newest /\ AddJob("update", v, "user") /\ Requested
    BY <1>2 DEF RequestUpdate, Versions
  <2>2. rows' \in Seq(Rows) /\ queue' \in Seq(1..Len(rows')) /\ Len(rows') = Len(rows) + 1
    BY <2>1, AddedRow
  <2>3. upd' \in [at : Updating, row : 0..Len(rows'), ok : BOOLEAN]
    BY <2>1, <2>2, LaterRows DEF Requested, TypeOK
  <2>4. left' \in [requests : Nat, trouble : Nat]
    BY <2>1, RequestedType
  <2> QED BY <2>1, <2>2, <2>3, <2>4 DEF Requested, Running, TypeOK, installed
<1>3. CASE RequestCustomNix
  <2>1. 0 \in 0..Newest /\ AddJob("custom", 0, "user") /\ Requested
    BY <1>3 DEF RequestCustomNix
  <2>2. rows' \in Seq(Rows) /\ queue' \in Seq(1..Len(rows')) /\ Len(rows') = Len(rows) + 1
    BY <2>1, AddedRow
  <2>3. upd' \in [at : Updating, row : 0..Len(rows'), ok : BOOLEAN]
    BY <2>1, <2>2, LaterRows DEF Requested, TypeOK
  <2>4. left' \in [requests : Nat, trouble : Nat]
    BY <2>1, RequestedType
  <2> QED BY <2>1, <2>2, <2>3, <2>4 DEF Requested, Running, TypeOK, installed
<1>4. CASE Reconcile
  <2> DEFINE done(i) == /\ flake # 0 /\ Active(i)
                        /\ rows[i].kind = "update" /\ Landed(Target(i))
  <2>1. /\ rows' \in Seq(Rows) /\ Len(rows') = Len(rows)
    <3>1. rows' = [i \in DOMAIN rows |->
                    IF done(i) THEN [rows[i] EXCEPT !.status = "completed"] ELSE rows[i]]
      BY <1>4 DEF Reconcile
    <3> HIDE DEF done
    <3>2. \A i \in DOMAIN rows : rows[i] \in Rows
      BY DEF TypeOK
    <3>3. \A i \in DOMAIN rows : rows'[i] \in Rows
      BY <3>1, <3>2, RowStatus DEF Statuses
    <3>4. rows' \in [1..Len(rows) -> Rows] /\ Len(rows) \in Nat
      BY <3>1, <3>3 DEF TypeOK
    <3> QED BY <3>4
  <2> QED BY <1>4, <2>1 DEF Reconcile, TypeOK, installed
<1>5. CASE ClearInterrupted
  <2>1. rows' \in Seq(Rows) /\ Len(rows') = Len(rows)
    <3>1. rows' = [i \in DOMAIN rows |->
                    IF Active(i) /\ Clears(i) THEN [rows[i] EXCEPT !.status = "failed"]
                    ELSE rows[i]]
      BY <1>5 DEF ClearInterrupted
    <3>2. \A i \in DOMAIN rows : rows[i] \in Rows
      BY DEF TypeOK
    <3>3. \A i \in DOMAIN rows : rows'[i] \in Rows
      BY <3>1, <3>2, RowStatus DEF Statuses
    <3>4. rows' \in [1..Len(rows) -> Rows] /\ Len(rows) \in Nat
      BY <3>1, <3>3 DEF TypeOK
    <3> QED BY <3>4
  <2>2. mig' \in [at : Migrating, flake : 0..Newest]
    BY <1>5 DEF ClearInterrupted, Migrating
  <2>3. proc' = "up"
    BY <1>5 DEF ClearInterrupted
  <2> QED BY <1>5, <2>1, <2>2, <2>3 DEF ClearInterrupted, TypeOK, installed
<1>6. CASE EvaluateRunDecision
  <2>1. mig' \in [at : Migrating, flake : 0..Newest] /\ proc = "up"
    BY <1>6 DEF EvaluateRunDecision, Migrate, Migrating, TypeOK
  <2> QED BY <1>6, <2>1 DEF EvaluateRunDecision, TypeOK, installed
<1>7. CASE ReadFlake
  <2>1. mig' \in [at : Migrating, flake : 0..Newest] /\ proc = "up"
    BY <1>7 DEF ReadFlake, Migrating, TypeOK
  <2> QED BY <1>7, <2>1 DEF ReadFlake, TypeOK, installed
<1>8. CASE Requirements
  <2>1. mig' \in [at : Migrating, flake : 0..Newest] /\ proc = "up"
    BY <1>8 DEF Requirements, Migrate, Migrating, TypeOK
  <2>2. record' \in [pre : BOOLEAN, ran : BOOLEAN, doNotRun : BOOLEAN]
    BY <1>8 DEF Requirements, MarkCompleted, TypeOK
  <2>3. left' \in [requests : Nat, trouble : Nat]
    BY <1>8, TroubleType DEF Requirements, TypeOK
  <2> QED BY <1>8, <2>1, <2>2, <2>3 DEF Requirements, TypeOK, installed
<1>9. CASE RunMigration
  <2>1. mig' \in [at : Migrating, flake : 0..Newest] /\ proc = "up"
    BY <1>9 DEF RunMigration, Migrate, Migrating, TypeOK
  <2>2. CASE UNCHANGED <<rows, queue>>
    BY <1>9, <2>1, <2>2 DEF RunMigration, TypeOK, installed
  <2>3. CASE /\ release # 0 /\ MigrationTarget # 0
             /\ AddJob("update", MigrationTarget, "migration")
    <3>1. MigrationTarget \in 0..Newest
      BY TargetType
    <3>2. rows' \in Seq(Rows) /\ queue' \in Seq(1..Len(rows')) /\ Len(rows') = Len(rows) + 1
      BY <2>3, <3>1, AddedRow
    <3>3. upd' \in [at : Updating, row : 0..Len(rows'), ok : BOOLEAN]
      BY <1>9, <3>2, LaterRows DEF RunMigration
    <3> QED BY <1>9, <2>1, <3>2, <3>3 DEF RunMigration, TypeOK, installed
  <2> QED BY <1>9, <2>2, <2>3 DEF RunMigration
<1>10. CASE TakeJob
  <2> DEFINE at == IF rows[Head(queue)].kind = "update" THEN "legacy" ELSE "validate"
  <2>1. Head(queue) \in 1..Len(rows) /\ Tail(queue) \in Seq(1..Len(rows))
    BY <1>10 DEF TakeJob, TypeOK
  <2>2. at \in Updating
    BY DEF Updating
  <2>3. upd' = [at |-> at, row |-> Head(queue), ok |-> TRUE]
    BY <1>10 DEF TakeJob
  <2> HIDE DEF at
  <2>4. /\ upd' \in [at : Updating, row : 0..Len(rows), ok : BOOLEAN]
        /\ upd'.row # 0
    BY <2>1, <2>2, <2>3 DEF TypeOK
  <2> QED BY <1>10, <2>1, <2>4 DEF TakeJob, Running, TypeOK, installed
<1>11. CASE BeginMove
  <2>1. \E at \in Updating : Go(at)
    BY <1>11 DEF BeginMove, Updating
  <2>2. upd' \in [at : Updating, row : 0..Len(rows), ok : BOOLEAN] /\ upd'.row # 0
    BY <1>11, <2>1, GoType DEF BeginMove, TypeOK
  <2>3. custom' \in [legacy : {"none", "user"}, kept : {"none", "torn", "user", "new"}]
    BY <1>11 DEF BeginMove, TypeOK
  <2>4. proc = "up"
    BY <1>11, JobIsRow DEF BeginMove
  <2> QED BY <1>11, <2>2, <2>3, <2>4 DEF BeginMove, TypeOK, installed
<1>12. CASE FinishMove
  <2>1. (\E at \in Updating : Go(at)) \/ End(FALSE)
    BY <1>12 DEF FinishMove, Updating
  <2>2. upd' \in [at : Updating, row : 0..Len(rows), ok : BOOLEAN] /\ upd'.row # 0
    BY <1>12, <2>1, GoType, EndType DEF FinishMove, TypeOK
  <2>3. custom' \in [legacy : {"none", "user"}, kept : {"none", "torn", "user", "new"}]
    BY <1>12 DEF FinishMove, TypeOK
  <2>4. proc = "up" /\ left' \in [requests : Nat, trouble : Nat]
    BY <1>12, JobIsRow, TroubleType DEF FinishMove, TypeOK
  <2> QED BY <1>12, <2>2, <2>3, <2>4 DEF FinishMove, TypeOK, installed
<1>13. CASE RemoveLegacy
  <2>1. Go("check") /\ "check" \in Updating /\ upd.at # "idle"
    BY <1>13 DEF RemoveLegacy, Updating
  <2>2. upd' \in [at : Updating, row : 0..Len(rows), ok : BOOLEAN] /\ upd'.row # 0
    BY <2>1, GoType DEF TypeOK
  <2>3. custom' \in [legacy : {"none", "user"}, kept : {"none", "torn", "user", "new"}]
    BY <1>13 DEF RemoveLegacy, TypeOK
  <2>4. proc = "up"
    BY <2>1, JobIsRow
  <2> QED BY <1>13, <2>2, <2>3, <2>4 DEF RemoveLegacy, TypeOK, installed
<1>14. CASE CheckRelease
  <2>1. /\ (\E at \in Updating : Go(at)) \/ End(FALSE)
        /\ rows' = rows \/ Settle(Job, "unavailable")
        /\ upd.at # "idle"
    BY <1>14 DEF CheckRelease, Updating
  <2>2. upd' \in [at : Updating, row : 0..Len(rows), ok : BOOLEAN] /\ upd'.row # 0
    BY <2>1, GoType, EndType DEF TypeOK
  <2>3. rows' \in Seq(Rows) /\ Len(rows') = Len(rows)
    <3>1. Job \in DOMAIN rows /\ "unavailable" \in Statuses
      BY <2>1, JobIsRow DEF Statuses
    <3> QED BY <2>1, <3>1, SettledRow DEF TypeOK
  <2>4. proc = "up" /\ left' \in [requests : Nat, trouble : Nat]
    BY <1>14, <2>1, JobIsRow, TroubleType DEF CheckRelease, TypeOK
  <2>5. overlap' \in BOOLEAN
    BY <1>14 DEF CheckRelease, TypeOK
  <2> QED BY <1>14, <2>2, <2>3, <2>4, <2>5 DEF CheckRelease, TypeOK, installed
<1>15. CASE Stage
  <2>1. ((\E at \in Updating : Go(at)) \/ End(FALSE)) /\ upd.at # "idle"
    BY <1>15 DEF Stage, Updating
  <2>2. upd' \in [at : Updating, row : 0..Len(rows), ok : BOOLEAN] /\ upd'.row # 0
    BY <2>1, GoType, EndType DEF TypeOK
  <2>3. staged' \subseteq 0..Newest
    BY <1>15, <2>1, JobIsRow DEF Stage, TypeOK
  <2>4. proc = "up" /\ left' \in [requests : Nat, trouble : Nat]
    BY <1>15, <2>1, JobIsRow, TroubleType DEF Stage, TypeOK
  <2> QED BY <1>15, <2>2, <2>3, <2>4 DEF Stage, TypeOK
<1>16. CASE Launch
  <2>1. ((\E at \in Updating : Go(at)) \/ End(FALSE)) /\ upd.at # "idle"
    BY <1>16 DEF Launch, Updating
  <2>2. upd' \in [at : Updating, row : 0..Len(rows), ok : BOOLEAN] /\ upd'.row # 0
    BY <2>1, GoType, EndType DEF TypeOK
  <2>3. unit' \in [Versions -> {"none", "build", "switch", "copy", "activate"}]
    BY <1>16 DEF Launch, TypeOK
  <2>4. proc = "up"
    BY <2>1, JobIsRow
  <2> QED BY <1>16, <2>2, <2>3, <2>4 DEF Launch, TypeOK
<1>17. CASE Validate
  <2>1. ((\E at \in Updating : Go(at)) \/ End(FALSE)) /\ upd.at # "idle"
    BY <1>17 DEF Validate, Updating
  <2>2. upd' \in [at : Updating, row : 0..Len(rows), ok : BOOLEAN] /\ upd'.row # 0
    BY <2>1, GoType, EndType DEF TypeOK
  <2>3. custom' \in [legacy : {"none", "user"}, kept : {"none", "torn", "user", "new"}]
    BY <1>17 DEF Validate, TypeOK
  <2>4. proc = "up" /\ left' \in [requests : Nat, trouble : Nat]
    BY <1>17, <2>1, JobIsRow, TroubleType DEF Validate, TypeOK
  <2> QED BY <1>17, <2>2, <2>3, <2>4 DEF Validate, TypeOK, installed
<1>18. CASE WriteCustom
  <2>1. (\E ok \in BOOLEAN : End(ok)) /\ upd.at # "idle"
    BY <1>18 DEF WriteCustom
  <2>2. upd' \in [at : Updating, row : 0..Len(rows), ok : BOOLEAN] /\ upd'.row # 0
    BY <2>1, EndType
  <2>3. custom' \in [legacy : {"none", "user"}, kept : {"none", "torn", "user", "new"}]
    BY <1>18 DEF WriteCustom, TypeOK
  <2>4. proc = "up" /\ left' \in [requests : Nat, trouble : Nat]
    BY <1>18, <2>1, JobIsRow, TroubleType DEF WriteCustom, TypeOK
  <2> QED BY <1>18, <2>2, <2>3, <2>4 DEF WriteCustom, TypeOK, installed
<1>19. CASE Report
  <2>1. /\ rows' \in Seq(Rows) /\ Len(rows') = Len(rows)
    <3>1. Job \in DOMAIN rows
      BY <1>19, JobIsRow DEF Report
    <3>2. rows' = rows \/ \E status \in Statuses : Settle(Job, status)
      BY <1>19 DEF Report, Statuses
    <3> QED BY <3>1, <3>2, SettledRow DEF TypeOK
  <2>2. upd' = Resting /\ Len(rows) \in Nat
    BY <1>19 DEF Report, TypeOK
  <2> QED BY <1>19, <2>1, <2>2 DEF Report, TypeOK, installed
<1>20. ASSUME NEW v \in Versions, Build(v) PROVE TypeOK'
  BY <1>20 DEF Build, TypeOK, process
<1>21. ASSUME NEW v \in Versions, Switch(v) PROVE TypeOK'
  <2>1. v \in 0..Newest
    BY DEF Versions
  <2>2. \/ UNCHANGED process
        \/ proc' = "down" /\ queue' = <<>> /\ upd' = Resting /\ mig' = NoMigration
    BY <1>21 DEF Switch, Dies
  <2>3. CASE UNCHANGED process
    BY <1>21, <2>1, <2>3 DEF Switch, TypeOK, process
  <2>4. CASE proc' = "down" /\ queue' = <<>> /\ upd' = Resting /\ mig' = NoMigration
    <3>1. queue' \in Seq(1..Len(rows)) /\ Len(rows) \in Nat
      BY <2>4 DEF TypeOK
    <3> QED BY <1>21, <2>1, <2>4, <3>1 DEF Switch, TypeOK
  <2> QED BY <2>2, <2>3, <2>4
<1>22. ASSUME NEW v \in Versions, CopyFlake(v) PROVE TypeOK'
  <2>1. v \in 0..Newest
    BY DEF Versions
  <2> QED BY <1>22, <2>1 DEF CopyFlake, TypeOK, process
<1>23. ASSUME NEW v \in Versions, NEW ok \in BOOLEAN, UnitEnds(v, ok)
       PROVE  /\ unit' \in [Versions -> {"none", "build", "switch", "copy", "activate"}]
              /\ upd' \in [at : Updating, row : 0..Len(rows), ok : BOOLEAN]
              /\ upd'.at # "idle" => upd'.row # 0
              /\ upd' = upd \/ proc = "up"
  <2>1. unit' \in [Versions -> {"none", "build", "switch", "copy", "activate"}]
    BY <1>23 DEF UnitEnds, TypeOK
  <2>2. CASE Waited(v)
    <3>1. End(ok) /\ upd.at # "idle"
      BY <1>23, <2>2 DEF UnitEnds, Waited
    <3> QED BY <2>1, <3>1, EndType, JobIsRow
  <2>3. CASE ~Waited(v)
    BY <1>23, <2>1, <2>3 DEF UnitEnds, TypeOK
  <2> QED BY <2>2, <2>3
<1>24. ASSUME NEW v \in Versions, Activate(v) PROVE TypeOK'
  <2>1. UnitEnds(v, TRUE)
    BY <1>24 DEF Activate
  <2> QED BY <1>23, <1>24, <2>1 DEF Activate, TypeOK
<1>25. ASSUME NEW v \in Versions, UnitFails(v) PROVE TypeOK'
  <2>1. UnitEnds(v, FALSE)
    BY <1>25 DEF UnitFails
  <2>2. left' \in [requests : Nat, trouble : Nat]
    BY <1>25, TroubleType DEF UnitFails, TypeOK
  <2> QED BY <1>23, <1>25, <2>1, <2>2 DEF UnitFails, TypeOK
<1>26. CASE Crash
  <2>1. proc' = "down" /\ queue' = <<>> /\ upd' = Resting /\ mig' = NoMigration
    BY <1>26 DEF Crash, Dies
  <2>2. queue' \in Seq(1..Len(rows)) /\ Len(rows) \in Nat
    BY <2>1 DEF TypeOK
  <2>3. left' \in [requests : Nat, trouble : Nat]
    BY <1>26, TroubleType DEF Crash
  <2>4. unit' \in [Versions -> {"none", "build", "switch", "copy", "activate"}]
    BY <1>26 DEF Crash, TypeOK
  <2> QED BY <1>26, <2>1, <2>2, <2>3, <2>4 DEF Crash, TypeOK
<1>27. CASE UNCHANGED vars
  BY <1>27 DEF vars, installed, process, TypeOK
<1> QED
  BY <1>1, <1>2, <1>3, <1>4, <1>5, <1>6, <1>7, <1>8, <1>9, <1>10, <1>11, <1>12, <1>13, <1>14,
     <1>15, <1>16, <1>17, <1>18, <1>19, <1>20, <1>21, <1>22, <1>24, <1>25, <1>26, <1>27
  DEF Next, Boot, Migration, Updater, Unit

\* What the daemon, its units and the migration keep in their fields has its type,
\* and a goroutine works on a job only in a process that is up.
THEOREM Typing == Spec => []TypeOK
BY TypingInit, TypingStep, PTL DEF Spec

-----------------------------------------------------------------------------
(* The invariant of releases, units and what is recorded about them. *)

\* Each row is as it was, or its update has not completed or has landed.
RowsKeep ==
  \A i \in DOMAIN rows' :
    \/ rows'[i].status # "completed" \/ rows'[i].kind # "update"
    \/ release >= rows'[i].target /\ flake >= rows'[i].target
    \/ /\ i \in DOMAIN rows /\ rows'[i].kind = rows[i].kind
       /\ rows'[i].target = rows[i].target /\ rows'[i].status = rows[i].status

\* The updater prepares nothing new, and what it reports as done has landed.
UpdaterKeeps ==
  /\ upd'.at \in {"clone", "launch"} =>
       /\ upd.at \in {"clone", "launch"} /\ upd'.row = upd.row
       /\ rows'[upd.row].target = rows[upd.row].target
  /\ upd'.at = "report" /\ upd'.ok /\ rows'[upd'.row].kind = "update" =>
       release >= rows'[upd'.row].target /\ flake >= rows'[upd'.row].target

LEMMA QuietStep ==
  ASSUME LandInv, RowsKeep, overlap \/ UpdaterKeeps,
         UNCHANGED <<release, flake, unit, overlap>>,
         overlap \/ (mig'.flake <= flake),
         overlap \/ (record'.ran => release >= Threshold /\ flake >= Threshold)
  PROVE  LandInv'
<1> SUFFICES ASSUME ~overlap PROVE (AloneInv /\ AheadInv /\ DoneInv)'
  BY DEF LandInv
<1>1. AloneInv /\ AheadInv /\ DoneInv
  BY DEF LandInv
<1>2. AloneInv'
  BY <1>1 DEF AloneInv, UpdaterKeeps
<1>3. AheadInv'
  BY <1>1 DEF AheadInv, UpdaterKeeps, Target, Job
<1>4. DoneInv'
  <2>1. ASSUME NEW k \in DOMAIN rows', rows'[k].status = "completed", rows'[k].kind = "update"
        PROVE  HasLanded(k)'
    BY <1>1, <2>1 DEF RowsKeep, DoneInv, HasLanded, Target
  <2>2. upd'.at = "report" /\ upd'.ok /\ rows'[upd'.row].kind = "update" => HasLanded(Job)'
    BY DEF UpdaterKeeps, HasLanded, Target, Job
  <2>3. record'.ran => release' >= Threshold /\ flake' >= Threshold
    OBVIOUS
  <2> QED BY <2>1, <2>2, <2>3 DEF DoneInv, Job
<1> QED BY <1>2, <1>3, <1>4

\* Rows that are left alone, are added to, or of which one is settled.
LEMMA SameRows == rows' = rows => RowsKeep
BY DEF RowsKeep

LEMMA SameUpdater ==
  ASSUME LandInv, upd' = upd, rows' = rows
  PROVE  overlap \/ UpdaterKeeps
BY DEF LandInv, DoneInv, HasLanded, UpdaterKeeps, Job, Target

LEMMA MoreRows ==
  ASSUME TypeOK, NEW k \in {"update", "custom"}, NEW v \in 0..Newest,
         NEW b \in {"user", "migration"}, AddJob(k, v, b)
  PROVE  RowsKeep
BY AddedRow DEF RowsKeep

LEMMA SameUpdaterMoreRows ==
  ASSUME TypeOK, LandInv, upd' = upd, NEW k \in {"update", "custom"}, NEW v \in 0..Newest,
         NEW b \in {"user", "migration"}, AddJob(k, v, b)
  PROVE  overlap \/ UpdaterKeeps
<1>1. upd.at # "idle" => rows'[upd.row] = rows[upd.row]
  BY JobIsRow, AddedRow DEF Job
<1> QED BY <1>1 DEF LandInv, DoneInv, HasLanded, UpdaterKeeps, Job, Target

\* The updater goes on to a stage without a release, or fails.
LEMMA GoesOn ==
  ASSUME TypeOK, upd.at # "idle",
         \/ \E at \in Updating \ {"clone", "launch", "report"} : Go(at)
         \/ End(FALSE)
  PROVE  UpdaterKeeps
BY GoType, EndType DEF UpdaterKeeps

LEMMA MigrationKeeps ==
  ASSUME LandInv, mig'.flake = mig.flake \/ mig'.flake = flake, TypeOK
  PROVE  overlap \/ mig'.flake <= flake
BY DEF LandInv, AheadInv, TypeOK

LEMMA RecordKeeps ==
  ASSUME LandInv, record'.ran = record.ran
  PROVE  overlap \/ (record'.ran => release >= Threshold /\ flake >= Threshold)
BY DEF LandInv, DoneInv

LEMMA LandStep == ASSUME IInv, [Next]_vars PROVE LandInv'
<1> USE DEF IInv
<1> DEFINE Quiet == UNCHANGED <<release, flake, unit, overlap>>
<1>1. CASE Publish \/ UNCHANGED vars
  <2>1. /\ Quiet /\ rows' = rows /\ upd' = upd /\ mig' = mig /\ record' = record
    BY <1>1 DEF Publish, vars, installed, process
  <2>2. overlap \/ UpdaterKeeps
    BY <2>1, SameUpdater
  <2> QED BY <2>1, <2>2, SameRows, MigrationKeeps, RecordKeeps, QuietStep
<1>2. ASSUME NEW v \in Versions, RequestUpdate(v) PROVE LandInv'
  <2>1. /\ Quiet /\ upd' = upd /\ mig' = mig /\ record' = record
        /\ AddJob("update", v, "user") /\ v \in 0..Newest
    BY <1>2 DEF RequestUpdate, Requested, installed, Versions
  <2>2. RowsKeep /\ (overlap \/ UpdaterKeeps)
    BY <2>1, MoreRows, SameUpdaterMoreRows
  <2> QED BY <2>1, <2>2, MigrationKeeps, RecordKeeps, QuietStep
<1>3. CASE RequestCustomNix
  <2>1. /\ Quiet /\ upd' = upd /\ mig' = mig /\ record' = record
        /\ AddJob("custom", 0, "user") /\ 0 \in 0..Newest
    BY <1>3, UpgradeAssumption DEF RequestCustomNix, Requested, installed
  <2>2. RowsKeep /\ (overlap \/ UpdaterKeeps)
    BY <2>1, MoreRows, SameUpdaterMoreRows
  <2> QED BY <2>1, <2>2, MigrationKeeps, RecordKeeps, QuietStep
<1>4. CASE Reconcile
  <2>1. /\ Quiet /\ upd' = upd /\ mig' = mig /\ record' = record
        /\ DOMAIN rows' = DOMAIN rows /\ upd.at = "idle"
    BY <1>4, RestingType DEF Reconcile, installed, TypeOK
  <2>2. ASSUME NEW k \in DOMAIN rows
        PROVE  \/ rows'[k] = rows[k]
               \/ /\ rows'[k] = [rows[k] EXCEPT !.status = "completed"]
                  /\ Landed(rows[k].target)
    BY <1>4 DEF Reconcile, Target
  <2>3. RowsKeep
    <3>1. ASSUME NEW k \in DOMAIN rows, rows'[k] = [rows[k] EXCEPT !.status = "completed"],
                 Landed(rows[k].target)
          PROVE  release >= rows'[k].target /\ flake >= rows'[k].target
      <4>1. rows[k] \in Rows /\ release \in 0..Newest /\ flake \in 0..Newest
        BY DEF TypeOK
      <4>2. rows'[k].target = rows[k].target
        BY <3>1, <4>1, RowStatus DEF Statuses
      <4> QED BY <3>1, <4>1, <4>2, UpgradeAssumption DEF Landed
    <3> QED BY <2>1, <2>2, <3>1 DEF RowsKeep
  <2>4. UpdaterKeeps
    BY <2>1 DEF UpdaterKeeps
  <2> QED BY <2>1, <2>3, <2>4, MigrationKeeps, RecordKeeps, QuietStep
<1>5. CASE ClearInterrupted
  <2>1. /\ Quiet /\ upd' = upd /\ record' = record /\ mig'.flake = 0
        /\ DOMAIN rows' = DOMAIN rows /\ upd.at = "idle"
    BY <1>5, RestingType, MigrationType DEF ClearInterrupted, installed, TypeOK
  <2>2. ASSUME NEW k \in DOMAIN rows
        PROVE  rows'[k] = rows[k] \/ rows'[k].status # "completed"
    <3>1. \/ rows'[k] = rows[k]
          \/ rows'[k] = [rows[k] EXCEPT !.status = "failed"]
      BY <1>5 DEF ClearInterrupted
    <3>2. rows[k] \in Rows
      BY DEF TypeOK
    <3> QED BY <3>1, <3>2, RowStatus DEF Statuses
  <2>3. RowsKeep /\ UpdaterKeeps
    BY <2>1, <2>2 DEF RowsKeep, UpdaterKeeps
  <2>4. mig'.flake <= flake
    BY <2>1, UpgradeAssumption DEF TypeOK
  <2> QED BY <2>1, <2>3, <2>4, RecordKeeps, QuietStep
<1>6. CASE EvaluateRunDecision
  <2>1. /\ Quiet /\ rows' = rows /\ upd' = upd /\ record' = record /\ mig'.flake = mig.flake
    BY <1>6 DEF EvaluateRunDecision, Migrate, installed, TypeOK
  <2> QED BY <2>1, SameRows, SameUpdater, MigrationKeeps, RecordKeeps, QuietStep
<1>7. CASE ReadFlake
  <2>1. /\ Quiet /\ rows' = rows /\ upd' = upd /\ record' = record /\ mig'.flake = flake
    BY <1>7 DEF ReadFlake, installed
  <2> QED BY <2>1, SameRows, SameUpdater, MigrationKeeps, RecordKeeps, QuietStep
<1>8. CASE Requirements
  <2>1. /\ Quiet /\ rows' = rows /\ upd' = upd /\ mig'.flake = mig.flake
    BY <1>8 DEF Requirements, Migrate, installed, TypeOK
  <2>2. overlap \/ (record'.ran => release >= Threshold /\ flake >= Threshold)
    <3>1. CASE record' = record
      BY <3>1, RecordKeeps
    <3>2. CASE Complete
      BY <3>2, UpgradeAssumption DEF Complete, LandInv, AheadInv, TypeOK, Versions
    <3> QED BY <1>8, <3>1, <3>2 DEF Requirements
  <2> QED BY <2>1, <2>2, SameRows, SameUpdater, MigrationKeeps, QuietStep
<1>9. CASE RunMigration
  <2>1. /\ Quiet /\ upd' = upd /\ record' = record /\ mig'.flake = mig.flake
    BY <1>9 DEF RunMigration, Migrate, installed, TypeOK
  <2>2. RowsKeep /\ (overlap \/ UpdaterKeeps)
    <3>1. CASE rows' = rows
      BY <2>1, <3>1, SameRows, SameUpdater
    <3>2. CASE release # 0 /\ AddJob("update", MigrationTarget, "migration")
      BY <2>1, <3>2, TargetType, MoreRows, SameUpdaterMoreRows
    <3> QED BY <1>9, <3>1, <3>2 DEF RunMigration
  <2> QED BY <2>1, <2>2, MigrationKeeps, RecordKeeps, QuietStep
<1>10. CASE TakeJob
  <2>1. /\ Quiet /\ rows' = rows /\ record' = record /\ mig' = mig
        /\ upd'.at \in {"legacy", "validate"}
    BY <1>10 DEF TakeJob, installed
  <2>2. UpdaterKeeps
    BY <2>1 DEF UpdaterKeeps
  <2> QED BY <2>1, <2>2, SameRows, MigrationKeeps, RecordKeeps, QuietStep
<1>11. CASE BeginMove \/ FinishMove \/ RemoveLegacy \/ Validate
  <2>1. /\ Quiet /\ rows' = rows /\ record' = record /\ mig' = mig /\ upd.at # "idle"
    BY <1>11 DEF BeginMove, FinishMove, RemoveLegacy, Validate, installed
  <2>2. UpdaterKeeps
    <3>1. \/ \E at \in Updating \ {"clone", "launch", "report"} : Go(at)
          \/ End(FALSE)
      BY <1>11 DEF BeginMove, FinishMove, RemoveLegacy, Validate, Updating
    <3> QED BY <2>1, <3>1, GoesOn
  <2> QED BY <2>1, <2>2, SameRows, MigrationKeeps, RecordKeeps, QuietStep
<1>12. CASE CheckRelease
  <2>1. /\ UNCHANGED <<release, flake, unit>> /\ record' = record /\ mig' = mig
        /\ upd.at = "check"
    BY <1>12 DEF CheckRelease, installed
  <2>2. RowsKeep
    <3>1. CASE rows' = rows
      BY <3>1, SameRows
    <3>2. CASE Settle(Job, "unavailable")
      BY <2>1, <3>2, JobIsRow, SettledRow DEF RowsKeep, Statuses
    <3> QED BY <1>12, <3>1, <3>2 DEF CheckRelease
  <2>3. CASE End(FALSE)
    <3>1. overlap' = overlap
      BY <1>12, <2>1, <2>3, GoType, EndType DEF CheckRelease, Updating
    <3>2. UpdaterKeeps
      BY <2>1, <2>3, GoesOn
    <3> QED BY <2>1, <2>2, <3>1, <3>2, MigrationKeeps, RecordKeeps, QuietStep
  <2>4. CASE Available(Target(Job)) /\ Go("clone") /\ rows' = rows
    <3>1. overlap' = (overlap \/ \E v \in Versions : unit[v] # "none")
      BY <1>12, <2>1, <2>4, GoType, EndType DEF CheckRelease, Updating
    <3> SUFFICES ASSUME ~overlap' PROVE (AloneInv /\ AheadInv /\ DoneInv)'
      BY DEF LandInv
    <3>2. /\ AloneInv /\ AheadInv /\ DoneInv /\ \A v \in Versions : unit[v] = "none"
      BY <3>1 DEF LandInv
    <3>3. upd'.at = "clone" /\ upd'.row = upd.row
      BY <2>1, <2>4, GoType DEF Updating
    <3>4. Target(Job) \in Versions /\ release < Target(Job)
      BY <2>4, UpgradeAssumption DEF Available, Upgradable, Tags, Versions, TypeOK
    <3>5. AloneInv'
      BY <2>1, <3>2 DEF AloneInv
    <3>6. AheadInv'
      BY <2>1, <2>4, <3>2, <3>3, <3>4 DEF AheadInv, Target, Job
    <3>7. DoneInv'
      BY <2>1, <2>4, <3>2, <3>3 DEF DoneInv, HasLanded, Target
    <3> QED BY <3>5, <3>6, <3>7
  <2> QED BY <1>12, <2>3, <2>4 DEF CheckRelease
<1>13. CASE Stage
  <2>1. /\ Quiet /\ rows' = rows /\ record' = record /\ mig' = mig /\ upd.at = "clone"
        /\ Go("launch") \/ End(FALSE)
    BY <1>13 DEF Stage
  <2>2. UpdaterKeeps
    BY <2>1, GoType, EndType DEF UpdaterKeeps, Updating
  <2> QED BY <2>1, <2>2, SameRows, MigrationKeeps, RecordKeeps, QuietStep
<1>14. CASE Launch
  <2>1. /\ UNCHANGED <<release, flake, rows, record, mig, overlap>> /\ upd.at = "launch"
    BY <1>14 DEF Launch
  <2>2. CASE End(FALSE) /\ unit' = unit
    <3>1. UpdaterKeeps
      BY <2>1, <2>2, GoesOn
    <3> QED BY <2>1, <2>2, <3>1, SameRows, MigrationKeeps, RecordKeeps, QuietStep
  <2>3. CASE unit' = [unit EXCEPT ![Target(Job)] = "build"] /\ Go("wait")
    <3> SUFFICES ASSUME ~overlap PROVE (AloneInv /\ AheadInv /\ DoneInv)'
      BY <2>1 DEF LandInv
    <3>1. AloneInv /\ AheadInv /\ DoneInv
      BY DEF LandInv
    <3>2. upd'.at = "wait"
      BY <2>1, <2>3, GoType DEF Updating
    <3>3. /\ Target(Job) \in Versions /\ release < Target(Job)
          /\ \A v \in Versions : unit[v] = "none"
      BY <2>1, <3>1 DEF AloneInv, AheadInv
    <3>4. \A v \in Versions : unit'[v] = IF v = Target(Job) THEN "build" ELSE "none"
      BY <2>3, <3>3 DEF TypeOK
    <3>5. AloneInv'
      BY <3>2, <3>4 DEF AloneInv
    <3>6. AheadInv'
      BY <2>1, <3>1, <3>2, <3>3, <3>4 DEF AheadInv
    <3>7. DoneInv'
      BY <2>1, <3>1, <3>2 DEF DoneInv, HasLanded, Target
    <3> QED BY <3>5, <3>6, <3>7
  <2> QED BY <1>14, <2>2, <2>3 DEF Launch
<1>15. CASE WriteCustom
  <2>1. /\ Quiet /\ rows' = rows /\ record' = record /\ mig' = mig /\ upd.at = "writing"
        /\ \E ok \in BOOLEAN : End(ok)
    BY <1>15 DEF WriteCustom, installed
  <2>2. UpdaterKeeps
    BY <2>1, EndType DEF UpdaterKeeps, CustomInv, Job
  <2> QED BY <2>1, <2>2, SameRows, MigrationKeeps, RecordKeeps, QuietStep
<1>16. CASE Report
  <2>1. /\ Quiet /\ record' = record /\ mig' = mig /\ upd.at = "report" /\ upd'.at = "idle"
    BY <1>16, RestingType DEF Report, installed
  <2>2. UpdaterKeeps
    BY <2>1 DEF UpdaterKeeps
  <2>3. CASE rows' = rows \/ overlap
    <3>1. CASE rows' = rows
      BY <2>1, <2>2, <3>1, SameRows, MigrationKeeps, RecordKeeps, QuietStep
    <3>2. CASE overlap
      BY <2>1, <3>2 DEF LandInv
    <3> QED BY <2>3, <3>1, <3>2
  <2>4. CASE ~overlap /\ Settle(Job, IF upd.ok THEN "completed" ELSE "failed")
    <3> DEFINE status == IF upd.ok THEN "completed" ELSE "failed"
    <3>1. Job \in DOMAIN rows /\ status \in Statuses /\ Settle(Job, status)
      BY <2>1, <2>4, JobIsRow DEF Statuses
    <3>2. status = "completed" => upd.ok
      OBVIOUS
    <3> HIDE DEF status
    <3>3. /\ DOMAIN rows' = DOMAIN rows
          /\ \A k \in DOMAIN rows :
               /\ rows'[k].kind = rows[k].kind /\ rows'[k].target = rows[k].target
               /\ rows'[k].status = IF k = Job THEN status ELSE rows[k].status
      BY <3>1, SettledRow
    <3>4. upd.ok /\ rows[Job].kind = "update" =>
            release >= rows[Job].target /\ flake >= rows[Job].target
      BY <2>1, <2>4 DEF LandInv, DoneInv, HasLanded, Target
    <3>5. RowsKeep
      BY <3>2, <3>3, <3>4 DEF RowsKeep
    <3> QED BY <2>1, <2>2, <3>5, MigrationKeeps, RecordKeeps, QuietStep
  <2> QED BY <1>16, <2>3, <2>4 DEF Report
<1>17. ASSUME NEW v \in Versions, Build(v) PROVE LandInv'
  <2> SUFFICES ASSUME ~overlap PROVE (AloneInv /\ AheadInv /\ DoneInv)'
    BY <1>17 DEF LandInv, Build
  <2>1. AloneInv /\ AheadInv /\ DoneInv
    BY DEF LandInv
  <2>2. /\ UNCHANGED <<release, flake, rows, upd, mig, record>> /\ unit[v] = "build"
        /\ \A w \in Versions : unit'[w] = IF w = v THEN "switch" ELSE unit[w]
    BY <1>17 DEF Build, process, TypeOK
  <2>3. AloneInv'
    BY <2>1, <2>2 DEF AloneInv
  <2>4. AheadInv'
    BY <2>1, <2>2 DEF AheadInv, Target, Job
  <2>5. DoneInv'
    BY <2>1, <2>2 DEF DoneInv, HasLanded, Target, Job
  <2> QED BY <2>3, <2>4, <2>5
<1>18. ASSUME NEW v \in Versions, Switch(v) PROVE LandInv'
  <2> SUFFICES ASSUME ~overlap PROVE (AloneInv /\ AheadInv /\ DoneInv)'
    BY <1>18 DEF LandInv, Switch
  <2>1. AloneInv /\ AheadInv /\ DoneInv
    BY DEF LandInv
  <2>2. /\ UNCHANGED <<flake, rows, record>> /\ unit[v] = "switch" /\ release' = v
        /\ \A w \in Versions : unit'[w] = IF w = v THEN "copy" ELSE unit[w]
    BY <1>18 DEF Switch, TypeOK
  <2>3. UNCHANGED <<upd, mig>> \/ (upd'.at = "idle" /\ mig'.flake = 0)
    BY <1>18, RestingType, MigrationType DEF Switch, Dies, process
  <2>4. /\ release \in Nat /\ flake \in Nat /\ v \in Nat /\ release < v /\ flake <= v
        /\ mig.flake \in Nat
    BY <2>1, <2>2, UpgradeAssumption DEF AheadInv, TypeOK, Versions
  <2>5. /\ upd.at \notin {"clone", "launch"}
        /\ \A w \in Versions : w # v => unit[w] = "none"
    BY <2>1, <2>2 DEF AloneInv
  <2>6. AloneInv'
    BY <2>1, <2>2, <2>3, <2>5 DEF AloneInv
  <2>7. AheadInv'
    BY <2>1, <2>2, <2>3, <2>4, <2>5 DEF AheadInv
  <2>8. DoneInv'
    <3>1. ASSUME NEW k \in DOMAIN rows, HasLanded(k)
          PROVE  release' >= rows[k].target /\ flake' >= rows[k].target
      <4>1. rows[k] \in Rows
        BY DEF TypeOK
      <4>2. rows[k].target \in Nat
        BY <4>1, UpgradeAssumption DEF Rows
      <4> QED BY <2>2, <2>4, <3>1, <4>2 DEF HasLanded, Target
    <3>2. upd'.at = "report" => upd' = upd /\ Job \in DOMAIN rows
      BY <2>3, JobIsRow
    <3>3. record'.ran => release' >= Threshold /\ flake' >= Threshold
      BY <2>1, <2>2, <2>4, UpgradeAssumption DEF DoneInv, Versions
    <3> QED BY <2>1, <2>2, <3>1, <3>2, <3>3 DEF DoneInv, HasLanded, Target, Job
  <2> QED BY <2>6, <2>7, <2>8
<1>19. ASSUME NEW v \in Versions, CopyFlake(v) PROVE LandInv'
  <2> SUFFICES ASSUME ~overlap PROVE (AloneInv /\ AheadInv /\ DoneInv)'
    BY <1>19 DEF LandInv, CopyFlake
  <2>1. AloneInv /\ AheadInv /\ DoneInv
    BY DEF LandInv
  <2>2. /\ UNCHANGED <<release, rows, upd, mig, record>> /\ unit[v] = "copy" /\ flake' = v
        /\ \A w \in Versions : unit'[w] = IF w = v THEN "activate" ELSE unit[w]
    BY <1>19 DEF CopyFlake, process, TypeOK
  <2>3. /\ flake \in Nat /\ v \in Nat /\ release = v /\ flake <= v /\ mig.flake \in Nat
    BY <2>1, <2>2, UpgradeAssumption DEF AheadInv, TypeOK, Versions
  <2>4. /\ upd.at \notin {"clone", "launch"}
        /\ \A w \in Versions : w # v => unit[w] = "none"
    BY <2>1, <2>2 DEF AloneInv
  <2>5. AloneInv'
    BY <2>1, <2>2, <2>4 DEF AloneInv
  <2>6. AheadInv'
    BY <2>1, <2>2, <2>3, <2>4 DEF AheadInv
  <2>7. DoneInv'
    <3>1. ASSUME NEW k \in DOMAIN rows, HasLanded(k)
          PROVE  release' >= rows[k].target /\ flake' >= rows[k].target
      <4>1. rows[k] \in Rows
        BY DEF TypeOK
      <4>2. rows[k].target \in Nat
        BY <4>1, UpgradeAssumption DEF Rows
      <4> QED BY <2>2, <2>3, <3>1, <4>2 DEF HasLanded, Target
    <3>2. upd.at = "report" => Job \in DOMAIN rows
      BY JobIsRow
    <3>3. record'.ran => release' >= Threshold /\ flake' >= Threshold
      BY <2>1, <2>2, <2>3, UpgradeAssumption DEF DoneInv, Versions
    <3> QED BY <2>1, <2>2, <3>1, <3>2, <3>3 DEF DoneInv, HasLanded, Target, Job
  <2> QED BY <2>5, <2>6, <2>7
<1>20. ASSUME NEW v \in Versions, NEW ok \in BOOLEAN, UnitEnds(v, ok),
              UNCHANGED <<release, flake, rows, mig, record, overlap>>,
              ok => unit[v] = "activate"
       PROVE  LandInv'
  <2> SUFFICES ASSUME ~overlap PROVE (AloneInv /\ AheadInv /\ DoneInv)'
    BY <1>20 DEF LandInv
  <2>1. AloneInv /\ AheadInv /\ DoneInv
    BY DEF LandInv
  <2>2. \A w \in Versions : unit'[w] = IF w = v THEN "none" ELSE unit[w]
    BY <1>20 DEF UnitEnds, TypeOK
  <2>3. \/ upd' = upd
        \/ /\ upd'.at = "report" /\ upd'.ok = ok /\ upd'.row = upd.row /\ Target(Job) = v
    BY <1>20, EndType DEF UnitEnds, Waited
  <2>4. AloneInv'
    BY <2>1, <2>2, <2>3 DEF AloneInv
  <2>5. AheadInv'
    BY <1>20, <2>1, <2>2, <2>3 DEF AheadInv, Target, Job
  <2>6. ok => release = v /\ flake = v
    BY <1>20, <2>1 DEF AheadInv
  <2>7. DoneInv'
    BY <1>20, <2>1, <2>3, <2>6, UpgradeAssumption DEF DoneInv, HasLanded, Target, Job, Versions
  <2> QED BY <2>4, <2>5, <2>7
<1>21. ASSUME NEW v \in Versions, Activate(v) PROVE LandInv'
  BY <1>20, <1>21 DEF Activate
<1>22. ASSUME NEW v \in Versions, UnitFails(v) PROVE LandInv'
  BY <1>20, <1>22 DEF UnitFails
<1>23. CASE Crash
  <2> SUFFICES ASSUME ~overlap PROVE (AloneInv /\ AheadInv /\ DoneInv)'
    BY <1>23 DEF LandInv, Crash
  <2>1. AloneInv /\ AheadInv /\ DoneInv
    BY DEF LandInv
  <2>2. /\ UNCHANGED <<release, flake, rows, record>> /\ upd'.at = "idle" /\ mig'.flake = 0
        /\ \A w \in Versions : unit'[w] \in {unit[w], "none"}
    BY <1>23, RestingType, MigrationType DEF Crash, Dies, TypeOK
  <2>3. AloneInv'
    BY <2>1, <2>2 DEF AloneInv
  <2>4. AheadInv'
    BY <2>1, <2>2, UpgradeAssumption DEF AheadInv, TypeOK
  <2>5. DoneInv'
    BY <2>1, <2>2 DEF DoneInv, HasLanded, Target
  <2> QED BY <2>3, <2>4, <2>5
<1> QED
  BY <1>1, <1>2, <1>3, <1>4, <1>5, <1>6, <1>7, <1>8, <1>9, <1>10, <1>11, <1>12, <1>13, <1>14,
     <1>15, <1>16, <1>17, <1>18, <1>19, <1>21, <1>22, <1>23
  DEF Next, Boot, Migration, Updater, Unit

-----------------------------------------------------------------------------
(* custom.nix. *)

LEMMA CustomStep == ASSUME IInv, [Next]_vars PROVE CustomInv'
<1> USE DEF IInv, CustomInv
<1>1. CASE UNCHANGED <<custom, upd>> /\ \A i \in DOMAIN rows : rows'[i].kind = rows[i].kind
  BY <1>1, JobIsRow DEF Job
<1>2. CASE upd'.at \in {"idle", "report", "legacy", "check", "clone", "launch", "wait"}
  BY <1>2
<1>3. CASE TakeJob
  <2>1. /\ upd'.row = Head(queue) /\ UNCHANGED rows
        /\ upd'.at = IF rows[Head(queue)].kind = "update" THEN "legacy" ELSE "validate"
    BY <1>3 DEF TakeJob
  <2>2. rows[Head(queue)].kind \in {"update", "custom"}
    <3>1. Head(queue) \in DOMAIN rows /\ rows \in Seq(Rows)
      BY <1>3 DEF TakeJob, TypeOK
    <3>2. rows[Head(queue)] \in Rows
      BY <3>1
    <3> QED BY <3>2 DEF Rows
  <2> QED BY <2>1, <2>2 DEF Job
<1>4. CASE BeginMove
  <2>1. \/ custom' = [custom EXCEPT !.kept = "torn"] /\ upd'.at = "copying"
        \/ upd'.at = "check"
    BY <1>4, GoType DEF BeginMove, Updating
  <2> QED BY <1>2, <2>1 DEF TypeOK
<1>5. CASE FinishMove
  <2>1. \/ custom' = [custom EXCEPT !.kept = custom.legacy] /\ upd'.at = "verified"
        \/ upd'.at = "report"
    BY <1>5, GoType, EndType DEF FinishMove, Updating
  <2> QED BY <1>2, <2>1 DEF TypeOK
<1>6. CASE Validate
  <2>1. \/ upd'.at = "writing" /\ upd'.row = upd.row /\ UNCHANGED rows
        \/ upd'.at = "report"
    BY <1>6, GoType, EndType DEF Validate, Updating
  <2> QED BY <1>2, <1>6, <2>1 DEF Validate, Job
<1>7. ASSUME NEW v \in Versions, NEW ok \in BOOLEAN, UnitEnds(v, ok), UNCHANGED <<custom, rows>>
      PROVE  CustomInv'
  <2>1. UNCHANGED upd \/ upd'.at = "report"
    BY <1>7, EndType DEF UnitEnds, Waited
  <2> QED BY <1>1, <1>2, <1>7, <2>1
<1>8. ASSUME NEW v \in Versions, Unit(v) PROVE CustomInv'
  <2>1. CASE Switch(v)
    <3>1. /\ UNCHANGED <<custom, rows>>
          /\ UNCHANGED upd \/ upd'.at = "idle"
      BY <2>1, RestingType DEF Switch, Dies, process
    <3> QED BY <1>1, <1>2, <3>1
  <2>2. CASE Build(v) \/ CopyFlake(v)
    BY <1>1, <2>2 DEF Build, CopyFlake, process
  <2>3. CASE Activate(v) \/ UnitFails(v)
    BY <1>7, <2>3 DEF Activate, UnitFails
  <2> QED BY <1>8, <2>1, <2>2, <2>3 DEF Unit
<1>9. CASE RemoveLegacy \/ CheckRelease \/ Stage \/ Launch \/ WriteCustom \/ Report \/ Crash
  <2>1. upd'.at \in {"idle", "report", "check", "clone", "launch", "wait"}
    BY <1>9, GoType, EndType, RestingType
    DEF RemoveLegacy, CheckRelease, Stage, Launch, WriteCustom, Report, Crash, Dies, Updating
  <2> QED BY <1>2, <2>1
<1>10. CASE Reconcile \/ ClearInterrupted
  <2>1. upd' = upd /\ upd.at = "idle"
    BY <1>10, RestingType DEF Reconcile, ClearInterrupted, TypeOK
  <2> QED BY <1>2, <2>1
<1>11. ASSUME NEW v \in Versions, RequestUpdate(v) PROVE CustomInv'
  <2>1. AddJob("update", v, "user") /\ v \in 0..Newest /\ UNCHANGED <<custom, upd>>
    BY <1>11, UpgradeAssumption DEF RequestUpdate, Requested, Versions
  <2> QED BY <1>1, <2>1, AddedRow
<1>12. CASE RequestCustomNix
  <2>1. AddJob("custom", 0, "user") /\ 0 \in 0..Newest /\ UNCHANGED <<custom, upd>>
    BY <1>12, UpgradeAssumption DEF RequestCustomNix, Requested
  <2> QED BY <1>1, <2>1, AddedRow
<1>13. CASE RunMigration
  <2>1. /\ UNCHANGED <<custom, upd>>
        /\ UNCHANGED rows \/ AddJob("update", MigrationTarget, "migration")
    BY <1>13 DEF RunMigration
  <2> QED BY <1>1, <2>1, TargetType, AddedRow
<1>14. CASE Publish \/ EvaluateRunDecision \/ ReadFlake \/ Requirements \/ UNCHANGED vars
  BY <1>1, <1>14
  DEF Publish, EvaluateRunDecision, ReadFlake, Requirements, vars, process, installed
<1> QED
  BY <1>3, <1>4, <1>5, <1>6, <1>8, <1>9, <1>10, <1>11, <1>12, <1>13, <1>14
  DEF Next, Boot, Migration, Updater

-----------------------------------------------------------------------------
(* The theorems. *)

\* The inductive invariant: units and the updater stay one behind the other, and
\* what is reported, settled or recorded has landed.
THEOREM Invariance == Spec => []IInv
<1>1. Init => IInv
  <2> SUFFICES ASSUME Init PROVE IInv
    OBVIOUS
  <2>1. TypeOK
    BY TypingInit
  <2>2. /\ upd.at = "idle" /\ mig.flake = 0 /\ rows = <<>> /\ ~record.ran
        /\ unit = [v \in Versions |-> "none"]
    BY RestingType, MigrationType DEF Init
  <2>3. flake <= release + 1
    BY UpgradeAssumption DEF Init
  <2>4. AloneInv
    BY <2>2 DEF AloneInv
  <2>5. AheadInv
    BY <2>1, <2>2, <2>3, UpgradeAssumption DEF AheadInv, TypeOK
  <2>6. DoneInv
    BY <2>2 DEF DoneInv
  <2>7. CustomInv
    BY <2>2 DEF CustomInv
  <2> QED BY <2>1, <2>4, <2>5, <2>6, <2>7 DEF IInv, LandInv
<1>2. IInv /\ [Next]_vars => IInv'
  BY TypingStep, LandStep, CustomStep DEF IInv
<1> QED BY <1>1, <1>2, PTL DEF Spec

\* An update whose row says completed has landed, release and flake, although the
\* process that ran it may have died, and been settled by another
\* (ReconcileCompletedSystemUpdateJobs).
THEOREM Completion == Spec => []CompletedHasLanded
<1>1. IInv => CompletedHasLanded
  BY DEF IInv, LandInv, DoneInv, HasLanded, CompletedHasLanded
<1> QED BY <1>1, Invariance, PTL

\* A migration is recorded as run only when release and flake are at the threshold
\* (osFlakeMigrationRequirements).
THEOREM Recording == Spec => []RecordedHasLanded
<1>1. IInv => RecordedHasLanded
  BY DEF IInv, LandInv, DoneInv, RecordedHasLanded
<1> QED BY <1>1, Invariance, PTL

\* An update never takes the box back to an older release or flake
\* (GetUpgradableReleases at the time the job is done).
THEOREM Progress == Spec => NoStepBack
<1>1. IInv /\ [Next]_vars => [overlap \/ (release' >= release /\ flake' >= flake)]_vars
  <2> SUFFICES ASSUME IInv, [Next]_vars, ~overlap PROVE release' >= release /\ flake' >= flake
    OBVIOUS
  <2>1. release \in Nat /\ flake \in Nat /\ AheadInv
    BY UpgradeAssumption DEF IInv, LandInv, TypeOK
  <2>2. CASE UNCHANGED <<release, flake>>
    BY <2>1, <2>2
  <2>3. ASSUME NEW v \in Versions, Switch(v) PROVE release' >= release /\ flake' >= flake
    BY <2>1, <2>3, UpgradeAssumption DEF Switch, AheadInv, Versions
  <2>4. ASSUME NEW v \in Versions, CopyFlake(v) PROVE release' >= release /\ flake' >= flake
    BY <2>1, <2>4, UpgradeAssumption DEF CopyFlake, AheadInv, Versions
  <2>5. UNCHANGED <<release, flake>> \/ \E v \in Versions : Switch(v) \/ CopyFlake(v)
    BY DEF Next, Boot, Migration, Updater, Unit, Reconcile, ClearInterrupted, RequestUpdate,
           RequestCustomNix, Requested, Publish, Crash, EvaluateRunDecision, ReadFlake,
           Requirements, RunMigration, TakeJob, BeginMove, FinishMove, RemoveLegacy,
           CheckRelease, Stage, Launch, Validate, WriteCustom, Report, Build, Activate,
           UnitFails, vars, installed
  <2> QED BY <2>2, <2>3, <2>4, <2>5
<1> QED BY <1>1, Invariance, PTL DEF Spec, NoStepBack

\* The user's custom.nix is in one of its two places until another is saved
\* (moveFileWithVerification).
THEOREM CustomKept == Spec => UserNixKept
<1> DEFINE Kept == "user" \in {custom.legacy, custom.kept} =>
                    "user" \in {custom.legacy', custom.kept'} \/ Overwritten
<1>1. IInv /\ [Next]_vars => [Kept]_vars
  <2> SUFFICES ASSUME IInv, [Next]_vars PROVE Kept
    OBVIOUS
  <2>1. custom \in [legacy : {"none", "user"}, kept : {"none", "torn", "user", "new"}]
    BY DEF IInv, TypeOK
  <2>2. CASE UNCHANGED custom
    BY <2>2
  <2>3. CASE BeginMove \/ FinishMove \/ RemoveLegacy
    BY <2>1, <2>3 DEF BeginMove, FinishMove, RemoveLegacy, IInv, CustomInv
  <2>4. CASE Validate \/ WriteCustom
    <3>1. Job \in DOMAIN rows /\ rows[Job].kind = "custom"
      BY <2>4, JobIsRow DEF Validate, WriteCustom, IInv, CustomInv
    <3> QED BY <3>1 DEF Overwritten
  <2>5. UNCHANGED custom \/ BeginMove \/ FinishMove \/ RemoveLegacy \/ Validate \/ WriteCustom
    BY DEF Next, Boot, Migration, Updater, Unit, Reconcile, ClearInterrupted, RequestUpdate,
           RequestCustomNix, Requested, Publish, Crash, EvaluateRunDecision, ReadFlake,
           Requirements, RunMigration, TakeJob, CheckRelease, Stage, Launch, Report, Build,
           Switch, CopyFlake, Activate, UnitFails, vars
  <2> QED BY <2>2, <2>3, <2>4, <2>5
<1> QED BY <1>1, Invariance, PTL DEF Spec, UserNixKept
================================================================================
