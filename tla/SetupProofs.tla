---------------------------- MODULE SetupProofs ----------------------------
(***************************************************************************)
(* Proofs about setting up a box: the daemon's read-modify-writes of the   *)
(* Dogebox section, its bootstrap, boots and recovery mode (Setup), and    *)
(* the wizard beside a second client (SetupWizard).  The invariants are    *)
(* layered: Types; BaseInv (who does what, where the data is, what the     *)
(* mode means), which ModeAgrees follows from; ConfiguredInv and           *)
(* DurableInv, for ConfiguredIsComplete and AckedDurable; then those of    *)
(* the wizard: FormInv (its own fields), AskInv (its requests), SeedInv    *)
(* (the key, and storage only if confirmed), and for a setup without       *)
(* trouble AloneInv and AcceptedInv.  Each rests on the ones before it.    *)
(***************************************************************************)
EXTENDS SetupWizard, TLAPS

(* What the variables range over: requests and jobs, steps, modes and        *)
(* screens.                                                                  *)
Kinds == {"none", "noKey", "configured", "pending"} \cup RecoveryKinds \cup NormalKinds
JobNames == JobKinds \cup {"bootstrap", "pending", "keymap"}
Written == {"hostname", "keymap", "network", "pin", "unpin", "storage", "key", "noKey"}
Connected == {"init", "close", "format", "copy", "overlay", "copyBack", "reoverlay",
              "source", "extras", "extra", "finish"}
Bootstrapping == Connected \cup {"bootstrap", "connect", "reboot"}
JobSteps == Bootstrapping \cup {"none", "change", "pending", "pend"}
Modes == {"recovery", "normal", "down", "entering", "leaving"}
CallSteps == {"idle", "get", "assign", "store", "connect", "done"}
WizSteps == {Path[i] : i \in 1..5} \cup {"off", "checking", "configured", "generate", "seed",
             "network", "finalizing", "complete"}
Lists == {"timezones", "disks"}
Selections == {"none", "boot", "device"}
Confirmations == Selections \cup {"defaulted"}

(* What the memory, a disk, a request, a job and the wizard are.             *)
RowsSet == [box : Box, net : Net, src : BOOLEAN]
Contents == [rows : RowsSet, tables : BOOLEAN, force : BOOLEAN, booted : BOOLEAN]
Calls == [at : CallSteps, kind : Kinds, got : Box, ans : {"none", "ok", "refused"}]
Works == [kind : JobNames \cup {"none"}, at : JobSteps, storage : BOOLEAN, net : Net]
Wizards == [step : WizSteps, have : SUBSET Lists, fetching : SUBSET Lists, disks : SUBSET Media,
            storage : Selections, chosen : Confirmations, confirmed : Confirmations,
            net : BOOLEAN, busy : BOOLEAN, sent : BOOLEAN,
            plan : Seq(RecoveryKinds), accepted : BOOLEAN]

(* The types, finer than TypeOK, that the proofs need.                       *)
DaemonTypes ==
  /\ mem \in RowsSet /\ data \in [{"base", "device"} -> Contents] /\ temp \in Contents
  /\ mounted \in {"base", "device"} /\ overlay \in BOOLEAN /\ db \in BOOLEAN /\ dkm \in BOOLEAN
  /\ call \in [Parties -> Calls] /\ queue \in Seq(JobNames) /\ job \in Works /\ mode \in Modes
  /\ faults \in Nat /\ crashes \in Nat
  /\ acked \subseteq Facts /\ lost \in BOOLEAN /\ interrupted \in BOOLEAN
  /\ forgotten \in BOOLEAN /\ unmarked \in BOOLEAN
WizardTypes == wiz \in Wizards /\ calls \in Nat /\ wizards \in Nat
Shape == wiz.busy => wiz.step = "finalizing" /\ (wiz.sent => wiz.plan # <<>>)
Types == DaemonTypes /\ WizardTypes /\ Shape

(* A job of this kind is queued; a party is within a read-modify-write.      *)
Queued(k) == \E i \in DOMAIN queue : queue[i] = k
InFlight(c) == call[c].at \in {"get", "assign", "store"}

(* What the parties are doing: which steps go with which job, and that       *)
(* nobody does anything while the process is down.                           *)
CallInv ==
  /\ \A c \in Clients : /\ InFlight(c) => call[c].kind \in Written
                        /\ call[c].at # "done"
  /\ call[Updater].at # "connect"
  /\ call[Updater].at # "idle" =>
       \/ job.at = "change" /\ call[Updater].kind = job.kind
       \/ job.at = "extra" /\ call[Updater].kind = "extra"
       \/ job.at = "finish" /\ call[Updater].kind = "configured"
  /\ job.at = "change" => job.kind \in {"extra", "noExtra", "keymap"}
  /\ job.at \in {"close", "format"} => job.storage
  /\ ~Running => queue = <<>> /\ job = NoJob /\ \A c \in Parties : call[c] = Idle

(* How far the data directory has moved, and that the database is closed     *)
(* meanwhile.                                                                *)
MoveInv ==
  /\ mounted = IF overlay THEN "device" ELSE "base"
  /\ job.at \in {"format", "copy", "overlay", "copyBack", "reoverlay"} => ~db
  /\ job.at \in {"copy", "overlay"} => mounted = "base"
  /\ job.at \in {"copy", "overlay", "copyBack"} => data["device"] = Empty
  /\ job.at = "copyBack" => mounted = "device"

(* A data directory says that the box is configured; one that no boot has    *)
(* written yet.                                                              *)
Recorded(disk) == "configured" \in disk.rows.box.facts
Unwritten(disk) == ~disk.tables /\ ~Recorded(disk)

(* What the mode says of the rows, the files and everybody's copies: in      *)
(* recovery the booted file is there, and outside of it every copy of the    *)
(* section has the configured flag.                                          *)
ModeInv ==
  /\ mode = "recovery" /\ ~unmarked =>
       /\ data[mounted].booted \/ Unwritten(data[mounted])
       /\ job.at \in {"overlay", "copyBack"} => temp.booted \/ Unwritten(temp)
  /\ job.at \in Bootstrapping \/ Queued("bootstrap") => mode = "recovery"
  /\ mode \in {"leaving", "normal"} =>
       /\ "configured" \in mem.box.facts /\ Recorded(data[mounted]) /\ ~data[mounted].force
       /\ \A c \in Parties : call[c].at \in {"assign", "store"} => "configured" \in call[c].got.facts
  /\ mode = "normal" => ~data[mounted].booted \/ unmarked

(* Who knows that the box is configured: a party about to write it, the      *)
(* memory, the disk, the copy of the move.                                   *)
Holding(c) == call[c].at \in {"assign", "store"} /\ "configured" \in Changed(call[c].kind, call[c].got).facts
Moving == job.at \in {"overlay", "copyBack"}
Known == \/ "configured" \in mem.box.facts
         \/ Recorded(data[mounted])
         \/ Moving /\ Recorded(temp)
         \/ \E c \in Parties : Holding(c)
Wired(rows) == rows.src /\ (rows.net.current \/ (forgotten /\ rows.net.pending))
Entire(rows) == Wired(rows) /\ (lost \/ {"key", "net"} \subseteq rows.box.facts)

(* The parts of ConfiguredInv: what a record of "configured" lies beside, on *)
(* each disk, in the copy, in memory, and how far the bootstrap must have    *)
(* come.                                                                     *)
DisksEntire == \A d \in {"base", "device"} : Recorded(data[d]) => Entire(data[d].rows)
TempEntire == Moving /\ Recorded(temp) => Entire(temp.rows)
KnownWired ==
  Known /\ mode # "down" =>
    /\ forgotten \/ (mem.net.current /\ (job.at = "pend" => job.net.current))
    /\ data[mounted].tables => Wired(data[mounted].rows)
    /\ Moving /\ temp.tables => Wired(temp.rows)
NetSaved ==
  job.at \in Connected =>
    /\ mem.net.current /\ (job.at # "copyBack" => data[mounted].rows.net.current)
    /\ Moving => temp.rows.net.current
SourceSaved == job.at \in {"extras", "extra", "finish"} => data[mounted].rows.src
FlagsKept ==
  ~lost /\ (job.at \in Connected \cup {"connect"} \/ "configured" \in mem.box.facts) =>
    {"key", "net"} \subseteq mem.box.facts
ConfiguredInv == DisksEntire /\ TempEntire /\ KnownWired /\ NetSaved /\ SourceSaved /\ FlagsKept

(* Where a confirmed fact is, by what the process is doing.                  *)
DurableInv ==
  lost \/ interrupted \/
    /\ mode # "down" => acked \subseteq mem.box.facts
    /\ Moving => acked \subseteq temp.rows.box.facts
    /\ job.at # "copyBack" => acked \subseteq data[mounted].rows.box.facts

-----------------------------------------------------------------------------
(* The two tables of facts, entry by entry: which assignments add a fact to  *)
(* the Dogebox section and which remove one.                                 *)
LEMMA Tables ==
  /\ DOMAIN Adds = {"hostname", "keymap", "key", "noKey", "network", "extra", "pin", "configured"}
  /\ \A k \in DOMAIN Adds : Adds[k] \in Facts
  /\ Adds["hostname"] = "named" /\ Adds["keymap"] = "named" /\ Adds["key"] = "key" /\ Adds["noKey"] = "key"
  /\ Adds["network"] = "net" /\ Adds["extra"] = "extra" /\ Adds["pin"] = "pin" /\ Adds["configured"] = "configured"
  /\ DOMAIN Removes = {"noExtra", "unpin"}
  /\ Removes["noExtra"] = "extra" /\ Removes["unpin"] = "pin"
BY DEF Adds, Removes, Facts

(* Every assignment a handler or a job makes yields a Dogebox section.       *)
LEMMA ChangedType ==
  ASSUME NEW kind, NEW box \in Box
  PROVE  Changed(kind, box) \in Box
<1>1. [box EXCEPT !.storage = TRUE] \in Box
  BY DEF Box
<1>2. ASSUME kind \in DOMAIN Adds PROVE [box EXCEPT !.facts = @ \cup {Adds[kind]}] \in Box
  <2>1. Adds[kind] \in Facts
    BY <1>2, Tables
  <2> QED BY <2>1 DEF Box
<1>3. [box EXCEPT !.facts = @ \ {Removes[kind]}] \in Box
  BY DEF Box
<1> QED BY <1>1, <1>2, <1>3 DEF Changed

(* The empty section, the fresh state, an empty data directory, an idle      *)
(* party and the absence of a job have the types they stand for.             *)
LEMMA BasicTypes ==
  /\ NoBox \in Box /\ Fresh \in RowsSet /\ Fresh.net \in Net /\ Empty \in Contents
  /\ Idle \in Calls /\ NoJob \in Works
BY DEF NoBox, Box, Fresh, RowsSet, Net, Empty, Contents, Idle, Calls, CallSteps, Kinds, NoJob, Works, JobSteps

(* A copy of the section, even one torn by another goroutine's assignment,   *)
(* is a section.                                                             *)
LEMMA ReadsType ==
  ASSUME Types
  PROVE  Reads \subseteq Box
<1> SUFFICES ASSUME NEW b \in Reads PROVE b \in Box
  OBVIOUS
<1>1. mem.box \in Box
  BY DEF Types, DaemonTypes, RowsSet
<1>2. ASSUME b # mem.box PROVE b \in Box
  <2>1. PICK o \in Parties : \E f \in SUBSET (mem.box.facts \cup Changed(call[o].kind, call[o].got).facts),
               s \in {mem.box.storage, Changed(call[o].kind, call[o].got).storage} :
               b = [facts |-> f, storage |-> s]
    BY <1>2 DEF Reads
  <2>2. Changed(call[o].kind, call[o].got) \in Box
    BY ChangedType DEF Types, DaemonTypes, Calls
  <2> DEFINE ch == Changed(call[o].kind, call[o].got)
  <2> HIDE DEF ch
  <2>3. ch \in Box
    BY <2>2 DEF ch
  <2>4. PICK f \in SUBSET (mem.box.facts \cup ch.facts), s \in {mem.box.storage, ch.storage} :
          b = [facts |-> f, storage |-> s]
    BY <2>1 DEF ch
  <2> QED BY <1>1, <2>3, <2>4 DEF Box
<1> QED BY <1>1, <1>2

(* An answered party is idle again and holds nothing; only a client that     *)
(* looks at its answers keeps one, and nobody else's request changes.        *)
LEMMA Replied ==
  ASSUME DaemonTypes, NEW c \in Parties, NEW ans \in {"none", "ok", "refused"}, Reply(c, ans)
  PROVE  /\ call' \in [Parties -> Calls]
         /\ call'[c].at = "idle" /\ call'[c].kind = "none" /\ call'[c].got = NoBox
         /\ c \in Watching => call'[c].ans = ans
         /\ c \notin Watching => call'[c] = Idle
         /\ \A d \in Parties : d # c => call'[d] = call[d]
<1>1. [Idle EXCEPT !.ans = ans] \in Calls
  BY BasicTypes DEF Calls
<1>2. PICK r \in Calls : call' = [call EXCEPT ![c] = r] /\ r.at = "idle" /\ r.kind = "none" /\ r.got = NoBox
         /\ (c \in Watching => r.ans = ans) /\ (c \notin Watching => r = Idle)
  BY <1>1, BasicTypes DEF Reply, Idle
<1> QED BY <1>2 DEF DaemonTypes

(* Replacing one party's request leaves the others as they are.              *)
LEMMA CallSet ==
  ASSUME DaemonTypes, NEW c \in Parties, NEW r \in Calls, call' = [call EXCEPT ![c] = r]
  PROVE  call' \in [Parties -> Calls] /\ call'[c] = r /\ \A d \in Parties : d # c => call'[d] = call[d]
BY DEF DaemonTypes

(* A request that its checks let through begins with the read of the         *)
(* section, holding nothing yet.                                             *)
LEMMA Proceeded ==
  ASSUME DaemonTypes, NEW c \in Parties, NEW kind \in Kinds, Proceed(c, kind)
  PROVE  /\ call' \in [Parties -> Calls]
         /\ call'[c].at = "get" /\ call'[c].kind = kind /\ call'[c].got = NoBox /\ call'[c].ans = "none"
         /\ \A d \in Parties : d # c => call'[d] = call[d]
<1>1. [Idle EXCEPT !.at = "get", !.kind = kind] \in Calls
  BY BasicTypes DEF Calls, CallSteps
<1>2. PICK r \in Calls : call' = [call EXCEPT ![c] = r] /\ r.at = "get" /\ r.kind = kind /\ r.got = NoBox
                         /\ r.ans = "none"
  BY <1>1 DEF Idle, Proceed
<1> QED BY <1>2, CallSet

(* connectNetwork is refused or begins to connect, and touches nobody else's *)
(* request.                                                                  *)
LEMMA Connecting ==
  ASSUME DaemonTypes, NEW c \in Parties, StartConnect(c)
  PROVE  \/ Reply(c, "refused")
         \/ /\ call' \in [Parties -> Calls]
            /\ call'[c].at = "connect" /\ call'[c].kind = "connect" /\ call'[c].got = NoBox
            /\ \A d \in Parties : d # c => call'[d] = call[d]
<1> DEFINE Starts(r) == call' = [call EXCEPT ![c] = r] /\ r.at = "connect" /\ r.kind = "connect" /\ r.got = NoBox
<1>1. [Idle EXCEPT !.at = "connect", !.kind = "connect"] \in Calls
  BY BasicTypes DEF Calls, CallSteps, Kinds, RecoveryKinds
<1>2. Reply(c, "refused") \/ \E r \in Calls : Starts(r)
  BY <1>1 DEF StartConnect, Idle
<1>3. ASSUME NEW r \in Calls, Starts(r)
      PROVE  /\ call' \in [Parties -> Calls]
             /\ call'[c].at = "connect" /\ call'[c].kind = "connect" /\ call'[c].got = NoBox
             /\ \A d \in Parties : d # c => call'[d] = call[d]
  BY <1>3, CallSet
<1> QED BY <1>2, <1>3

(* A counted failure leaves a count.                                         *)
LEMMA FaultType ==
  ASSUME DaemonTypes, Fault \/ UNCHANGED faults
  PROVE  faults' \in Nat
BY DEF DaemonTypes, Fault

(* Whatever stops the process keeps the daemon's variables within their      *)
(* types.                                                                    *)
LEMMA StopType ==
  ASSUME DaemonTypes, Stop, data' \in [{"base", "device"} -> Contents],
         UNCHANGED <<mounted, overlay, temp, db>>, crashes' \in Nat
  PROVE  DaemonTypes'
<1>1. call' \in [Parties -> Calls] /\ queue' \in Seq(JobNames)
  BY BasicTypes DEF Stop
<1>2. mem' \in RowsSet /\ job' \in Works /\ mode' \in Modes
  BY BasicTypes DEF Stop, Modes
<1>3. interrupted' \in BOOLEAN /\ lost' \in BOOLEAN /\ dkm' \in BOOLEAN /\ faults' \in Nat /\ acked' \subseteq Facts
  BY DEF Stop, DaemonTypes
<1>4. forgotten' \in BOOLEAN /\ unmarked' \in BOOLEAN
  BY DEF Stop, DaemonTypes
<1> QED BY <1>1, <1>2, <1>3, <1>4 DEF DaemonTypes

(* Every request a client can send keeps the daemon's variables within their *)
(* types.                                                                    *)
LEMMA RequestType ==
  ASSUME Types, NEW c \in Clients, NEW kind \in Kinds, Request(c, kind)
  PROVE  DaemonTypes'
<1> USE DEF Types
<1>0. c \in Parties /\ queue \in Seq(JobNames)
  BY DEF Parties, DaemonTypes
<1>1. CASE StartWrite(c, kind)
  <2>1. Reply(c, "refused") \/ Proceed(c, kind)
    BY <1>1 DEF StartWrite
  <2>2. call' \in [Parties -> Calls]
    BY <1>0, <2>1, Replied, Proceeded
  <2> QED BY <2>2, <1>1 DEF StartWrite, disks, jobs, history, DaemonTypes
<1>2. CASE createMasterKey(c)
  <2>0. "key" \in Kinds /\ "noKey" \in Kinds
    BY DEF Kinds, RecoveryKinds
  <2>1. Reply(c, "refused") \/ Proceed(c, "key") \/ Proceed(c, "noKey")
    BY <1>2 DEF createMasterKey
  <2>2. call' \in [Parties -> Calls]
    BY <1>0, <2>0, <2>1, Replied, Proceeded
  <2>3. (dkm' = TRUE \/ dkm' = dkm) /\ (Fault \/ UNCHANGED faults)
    BY <1>2 DEF createMasterKey
  <2>4. dkm' \in BOOLEAN /\ faults' \in Nat
    BY <2>3, FaultType DEF DaemonTypes
  <2> QED BY <2>2, <2>4, <1>2 DEF createMasterKey, disks, jobs, history, DaemonTypes
<1>3. CASE StartJob(c, kind)
  <2>1. Reply(c, "refused") \/ Reply(c, "ok")
    BY <1>3 DEF StartJob
  <2>2. call' \in [Parties -> Calls]
    BY <1>0, <2>1, Replied
  <2>3. UNCHANGED queue \/ (queue' = Append(queue, kind) /\ kind \in JobNames)
    BY <1>3 DEF StartJob, JobNames
  <2>4. queue' \in Seq(JobNames)
    BY <1>0, <2>3
  <2> QED BY <2>2, <2>4, <1>3 DEF StartJob, disks, history, DaemonTypes
<1>4. CASE kind = "connect" /\ StartConnect(c)
  <2>1. call' \in [Parties -> Calls]
    BY <1>0, <1>4, Replied, Connecting
  <2> QED BY <2>1, <1>4 DEF StartConnect, disks, jobs, history, DaemonTypes
<1>5. CASE HostReboot(c)
  BY <1>5, StopType DEF HostReboot, disks, DaemonTypes
<1> QED BY <1>1, <1>2, <1>3, <1>4, <1>5 DEF Request

(* Putting a network section into the memory or into the mounted rows keeps  *)
(* their shape.                                                              *)
LEMMA NetTypes ==
  ASSUME DaemonTypes, NEW n \in Net
  PROVE  /\ [mem EXCEPT !.net = n] \in RowsSet
         /\ [data EXCEPT ![mounted].rows.net = n] \in [{"base", "device"} -> Contents]
<1>1. [mem EXCEPT !.net = n] \in RowsSet
  BY DEF DaemonTypes, RowsSet
<1>2. data[mounted] \in Contents
  BY DEF DaemonTypes
<1>3. [data[mounted].rows EXCEPT !.net = n] \in RowsSet
  BY <1>2 DEF Contents, RowsSet
<1>4. [data[mounted] EXCEPT !.rows.net = n] \in Contents
  BY <1>2, <1>3 DEF Contents
<1> QED BY <1>1, <1>4 DEF DaemonTypes

(* The section TryConnect leaves behind is a network section.                *)
LEMMA NewNet ==
  [pending |-> FALSE, current |-> TRUE] \in Net
BY DEF Net

(* TryConnect, successful or not, keeps the types of the memory and of the   *)
(* disks.                                                                    *)
LEMMA SwapTypes ==
  ASSUME DaemonTypes, SwapNetwork \/ ConnectFails
  PROVE  mem' \in RowsSet /\ data' \in [{"base", "device"} -> Contents]
<1> DEFINE n == [pending |-> FALSE, current |-> TRUE]
<1>1. [mem EXCEPT !.net = n] \in RowsSet /\ [data EXCEPT ![mounted].rows.net = n] \in [{"base", "device"} -> Contents]
  BY NetTypes, NewNet
<1>2. CASE SwapNetwork
  <2>1. mem' = [mem EXCEPT !.net = n] /\ mem'.net = n
    BY <1>2 DEF SwapNetwork, DaemonTypes, RowsSet
  <2>2. data' = [data EXCEPT ![mounted].rows.net = n] \/ data' = data
    BY <1>2, <2>1 DEF SwapNetwork
  <2> QED BY <1>1, <2>1, <2>2 DEF DaemonTypes
<1>3. CASE ConnectFails
  BY <1>1, <1>3 DEF ConnectFails, DaemonTypes
<1> QED BY <1>2, <1>3

(* Putting a Dogebox section into the memory or into the mounted rows keeps  *)
(* their shape.                                                              *)
LEMMA BoxTypes ==
  ASSUME DaemonTypes, NEW b \in Box
  PROVE  /\ [mem EXCEPT !.box = b] \in RowsSet
         /\ [data EXCEPT ![mounted].rows.box = b] \in [{"base", "device"} -> Contents]
<1>1. [mem EXCEPT !.box = b] \in RowsSet
  BY DEF DaemonTypes, RowsSet
<1>2. data[mounted] \in Contents
  BY DEF DaemonTypes
<1>3. [data[mounted].rows EXCEPT !.box = b] \in RowsSet
  BY <1>2 DEF Contents, RowsSet
<1>4. [data[mounted] EXCEPT !.rows.box = b] \in Contents
  BY <1>2, <1>3 DEF Contents
<1> QED BY <1>1, <1>4 DEF DaemonTypes

(* Each of the three steps of a read-modify-write keeps the daemon's         *)
(* variables within their types.                                             *)
LEMMA HandlerType ==
  ASSUME Types, NEW c \in Parties, Handler(c)
  PROVE  DaemonTypes'
<1> USE DEF Types
<1>0. c \in Parties /\ queue \in Seq(JobNames) /\ call[c] \in Calls /\ call[c].got \in Box
  BY DEF DaemonTypes, Calls
<1> DEFINE new == Changed(call[c].kind, call[c].got)
<1>00. new \in Box
  BY <1>0, ChangedType
<1> HIDE DEF new
<1>1. CASE GetState(c)
  <2>1. PICK b \in Reads : call' = [call EXCEPT ![c].got = b, ![c].at = "assign"]
    BY <1>1 DEF GetState
  <2>2. b \in Box
    BY ReadsType
  <2>3. [call[c] EXCEPT !.got = b] \in Calls
    BY <2>2, <1>0 DEF Calls
  <2>4. [[call[c] EXCEPT !.got = b] EXCEPT !.at = "assign"] \in Calls
    BY <2>3 DEF Calls, CallSteps
  <2>5. call' \in [Parties -> Calls]
    BY <2>1, <2>3, <2>4, <1>0 DEF DaemonTypes
  <2> QED BY <2>5, <1>1 DEF GetState, disks, jobs, history, DaemonTypes
<1>a. ASSUME NEW at \in {"done", "store"}, call' = [call EXCEPT ![c].at = at] PROVE call' \in [Parties -> Calls]
  <2>1. [call[c] EXCEPT !.at = at] \in Calls
    BY <1>0 DEF Calls, CallSteps
  <2> QED BY <2>1, <1>a, <1>0 DEF DaemonTypes
<1>b. Answer(c) \in {"none", "ok", "refused"}
  BY DEF Answer
<1>c. After(c) => queue' \in Seq(JobNames)
  BY <1>0 DEF After, JobNames
<1>2. CASE Assign(c)
  <2>1. call' \in [Parties -> Calls]
    BY <1>0, <1>2, <1>a, <1>b, Replied DEF Assign
  <2>2. mem' \in RowsSet
    BY <1>2, <1>00, BoxTypes DEF Assign, DaemonTypes, new
  <2>3. queue' \in Seq(JobNames) /\ lost' \in BOOLEAN
    BY <1>2, <1>c DEF Assign, DaemonTypes
  <2>4. acked' \subseteq Facts
    BY <1>2 DEF Assign, Withdrawn, DaemonTypes
  <2> QED BY <2>1, <2>2, <2>3, <2>4, <1>2 DEF Assign, disks, DaemonTypes
<1>3. CASE StoreRow(c)
  <2>1. call' \in [Parties -> Calls]
    BY <1>0, <1>3, <1>a, <1>b, Replied, BasicTypes DEF StoreRow, DaemonTypes
  <2>2. data' \in [{"base", "device"} -> Contents]
    BY <1>3, <1>00, BoxTypes DEF StoreRow, DaemonTypes, new
  <2>3. queue' \in Seq(JobNames) /\ lost' \in BOOLEAN
    BY <1>3, <1>c DEF StoreRow, DaemonTypes
  <2>6. Fault \/ UNCHANGED faults
    BY <1>3 DEF StoreRow
  <2>7. faults' \in Nat
    BY <2>6, FaultType
  <2>4. acked' \subseteq Facts
    BY <1>3, Tables DEF StoreRow, Confirmed, DaemonTypes
  <2>5. job' \in Works
    BY <1>3, BasicTypes DEF StoreRow, DaemonTypes
  <2> QED BY <2>1, <2>2, <2>3, <2>4, <2>5, <2>7, <1>3 DEF StoreRow, DaemonTypes
<1> QED BY <1>1, <1>2, <1>3 DEF Handler

(* The end of a connect request keeps the daemon's variables within their    *)
(* types.                                                                    *)
LEMMA ConnectType ==
  ASSUME Types, NEW c \in Clients, Connect(c)
  PROVE  DaemonTypes'
<1>0. c \in Parties
  BY DEF Parties
<1>1. mem' \in RowsSet /\ data' \in [{"base", "device"} -> Contents]
  BY SwapTypes DEF Connect, Types
<1>2. call' \in [Parties -> Calls]
  BY <1>0, Replied DEF Connect, Types
<1>3. faults' \in Nat
  BY DEF Connect, ConnectFails, Fault, Types, DaemonTypes
<1> QED BY <1>1, <1>2, <1>3 DEF Connect, jobs, history, Types, DaemonTypes

(* Moving a job to its next step yields a job.                               *)
LEMMA GoType ==
  ASSUME DaemonTypes, NEW step \in JobSteps, Go(step)
  PROVE  job' \in Works
<1>1. job' = [job EXCEPT !.at = step]
  BY DEF Go
<1> QED BY <1>1 DEF DaemonTypes, Works

(* Taking a job from the queue keeps the daemon's variables within their     *)
(* types.                                                                    *)
LEMMA TakeJobType ==
  ASSUME Types, TakeJob
  PROVE  DaemonTypes'
<1> USE DEF Types
<1>1. PICK k \in JobNames : k = Head(queue)
  BY DEF TakeJob, DaemonTypes
<1>2. FirstStep(k) \in JobSteps
  BY DEF FirstStep, JobSteps, Bootstrapping
<1>3. [NoJob EXCEPT !.kind = k] \in Works
  BY BasicTypes DEF Works
<1>4. [NoJob EXCEPT !.kind = k, !.at = FirstStep(k)] \in Works
  BY <1>2, <1>3 DEF Works
<1>5. job' \in Works /\ queue' \in Seq(JobNames)
  BY <1>1, <1>4 DEF TakeJob, DaemonTypes
<1> QED BY <1>5 DEF TakeJob, disks, history, DaemonTypes

(* The job of set-pending keeps the daemon's variables within their types.   *)
LEMMA SetPendingType ==
  ASSUME Types, SetPendingNetwork
  PROVE  DaemonTypes'
<1> USE DEF Types
<1>0. mem.net \in Net /\ job.net \in Net /\ job \in Works /\ "pend" \in JobSteps
  BY DEF DaemonTypes, RowsSet, Works, JobSteps
<1>1. CASE At("pending")
  <2>1. job' = [job EXCEPT !.at = "pend", !.net = mem.net] \/ job' = NoJob
    BY <1>1 DEF SetPendingNetwork, At
  <2>2. job' \in Works
    <3>1. [job EXCEPT !.at = "pend"] \in Works
      BY <1>0 DEF Works
    <3>2. [job EXCEPT !.at = "pend", !.net = mem.net] \in Works
      BY <1>0, <3>1 DEF Works
    <3> QED BY <2>1, <3>2, BasicTypes
  <2>3. UNCHANGED <<mem, data>> /\ (Fault \/ UNCHANGED faults)
    BY <1>1 DEF SetPendingNetwork, At
  <2>4. faults' \in Nat
    BY <2>3, FaultType
  <2> QED BY <2>2, <2>3, <2>4 DEF SetPendingNetwork, history, DaemonTypes
<1>2. CASE At("pend")
  <2>1. [job.net EXCEPT !.pending = TRUE] \in Net
    BY <1>0 DEF Net
  <2>2. job' = NoJob /\ UNCHANGED faults /\ mem' = [mem EXCEPT !.net = [job.net EXCEPT !.pending = TRUE]]
        /\ data' = IF CanWrite THEN [data EXCEPT ![mounted].rows.net = mem'.net] ELSE data
    BY <1>2 DEF SetPendingNetwork, At
  <2>3. mem' \in RowsSet /\ mem'.net = [job.net EXCEPT !.pending = TRUE]
    BY <2>1, <2>2, NetTypes DEF DaemonTypes, RowsSet
  <2>4. data' \in [{"base", "device"} -> Contents]
    BY <2>1, <2>2, <2>3, NetTypes DEF DaemonTypes
  <2> QED BY <2>2, <2>3, <2>4, BasicTypes DEF SetPendingNetwork, history, DaemonTypes
<1> QED BY <1>1, <1>2 DEF SetPendingNetwork

(* A job's own read-modify-write keeps the daemon's variables within their   *)
(* types.                                                                    *)
LEMMA ChangeType ==
  ASSUME Types, NEW step, NEW kind \in Kinds, NEW next \in JobSteps \cup {"end"}, Change(step, kind, next)
  PROVE  DaemonTypes'
<1> USE DEF Types
<1>1. PICK r \in Calls : call' = [call EXCEPT ![Updater] = r]
  <2>1. [Idle EXCEPT !.at = "get", !.kind = kind] \in Calls
    BY BasicTypes DEF Calls, CallSteps
  <2> QED BY <2>1, BasicTypes DEF Change
<1>2. call' \in [Parties -> Calls]
  BY <1>1, CallSet DEF Parties
<1>3. job' = job \/ job' = NoJob \/ (next \in JobSteps /\ Go(next))
  BY DEF Change
<1>4. job' \in Works
  BY <1>3, GoType, BasicTypes DEF DaemonTypes
<1>5. Fault \/ UNCHANGED faults
  BY DEF Change
<1>6. faults' \in Nat
  BY <1>5, FaultType
<1> QED BY <1>2, <1>4, <1>6 DEF Change, disks, history, DaemonTypes

(* The steps and kinds the updater's actions name are steps and kinds.       *)
LEMMA StepNames ==
  /\ {"none", "pending", "pend", "change", "bootstrap", "connect", "init", "close", "format", "copy",
      "overlay", "copyBack", "reoverlay", "source", "extras", "extra", "finish", "reboot"} \subseteq JobSteps
  /\ {"extra", "configured", "keymap", "noExtra"} \subseteq Kinds
  /\ JobNames \cup {"none"} \subseteq Kinds
BY DEF JobSteps, Bootstrapping, Connected, Kinds, RecoveryKinds, JobNames, JobKinds

(* The bootstrap's steps before the move keep the daemon's variables within  *)
(* their types.                                                              *)
LEMMA BootstrapType ==
  ASSUME Types, Bootstrap \/ TryConnect \/ InitSystem \/ CloseDB
  PROVE  DaemonTypes'
<1> USE DEF Types
<1>1. CASE Bootstrap
  <2>1. "connect" \in JobSteps /\ mem.box.storage \in BOOLEAN
    BY StepNames DEF DaemonTypes, RowsSet, Box
  <2>2. job' = NoJob \/ job' = [job EXCEPT !.at = "connect", !.storage = mem.box.storage]
    BY <1>1 DEF Bootstrap
  <2>3. job' \in Works
    <3>1. [job EXCEPT !.at = "connect", !.storage = mem.box.storage] \in Works
      <4>1. [job EXCEPT !.at = "connect"] \in Works
        BY <2>1 DEF DaemonTypes, Works
      <4> QED BY <2>1, <4>1 DEF Works
    <3> QED BY <2>2, <3>1, BasicTypes
  <2> QED BY <2>3, <1>1 DEF Bootstrap, disks, history, DaemonTypes
<1>2. CASE TryConnect
  <2>1. mem' \in RowsSet /\ data' \in [{"base", "device"} -> Contents]
    BY <1>2, SwapTypes DEF TryConnect
  <2>2. job' = NoJob \/ Go("init")
    BY <1>2 DEF TryConnect
  <2>3. job' \in Works
    BY <2>2, GoType, BasicTypes, StepNames
  <2>4. Fault \/ UNCHANGED faults
    BY <1>2 DEF TryConnect, ConnectFails
  <2>5. faults' \in Nat
    BY <2>4, FaultType
  <2> QED BY <2>1, <2>3, <2>5, <1>2 DEF TryConnect, history, DaemonTypes
<1>3. CASE InitSystem
  <2>2. job' = NoJob \/ Go("close") \/ Go("source")
    BY <1>3 DEF InitSystem
  <2>3. job' \in Works
    BY <2>2, GoType, BasicTypes, StepNames
  <2>4. Fault \/ UNCHANGED faults
    BY <1>3 DEF InitSystem
  <2>5. faults' \in Nat
    BY <2>4, FaultType
  <2> QED BY <2>3, <2>5, <1>3 DEF InitSystem, disks, history, DaemonTypes
<1>4. CASE CloseDB
  <2>1. job' \in Works
    BY <1>4, GoType, StepNames DEF CloseDB
  <2> QED BY <2>1, <1>4 DEF CloseDB, history, DaemonTypes
<1> QED BY <1>1, <1>2, <1>3, <1>4

(* The move of the data directory keeps the daemon's variables within their  *)
(* types.                                                                    *)
LEMMA MoveType ==
  ASSUME Types, InitStorageDevice \/ CopyOut \/ ApplyOverlay \/ CopyBack \/ Reoverlay
  PROVE  DaemonTypes'
<1> USE DEF Types
<1>0. data["device"] \in Contents /\ data[mounted] \in Contents
  BY DEF DaemonTypes
<1>1. (job' = NoJob \/ Go("copy") \/ Go("overlay") \/ Go("copyBack") \/ Go("reoverlay") \/ Go("source"))
      /\ (Fault \/ UNCHANGED faults) /\ db' \in BOOLEAN
  BY DEF InitStorageDevice, CopyOut, ApplyOverlay, CopyBack, Reoverlay, Failed, DaemonTypes
<1>2. job' \in Works /\ faults' \in Nat
  BY <1>1, GoType, BasicTypes, StepNames, FaultType
<1>3. CASE InitStorageDevice
  <2>1. data' = data \/ data' = [data EXCEPT !["device"] = Empty]
    BY <1>3 DEF InitStorageDevice, DaemonTypes
  <2>2. data' \in [{"base", "device"} -> Contents]
    BY <2>1, BasicTypes DEF DaemonTypes
  <2> QED BY <1>1, <1>2, <2>2, <1>3 DEF InitStorageDevice, history, DaemonTypes
<1>4. CASE CopyOut
  <2>1. temp' \in Contents
    BY <1>4, <1>0 DEF CopyOut, DaemonTypes
  <2> QED BY <1>1, <1>2, <2>1, <1>4 DEF CopyOut, history, DaemonTypes
<1>5. CASE ApplyOverlay
  <2>1. overlay' \in BOOLEAN /\ mounted' \in {"base", "device"}
    BY <1>5 DEF ApplyOverlay, DaemonTypes
  <2> QED BY <1>1, <1>2, <2>1, <1>5 DEF ApplyOverlay, history, DaemonTypes
<1>6. CASE CopyBack
  <2>1. [temp EXCEPT !.force = @ \/ data.device.force] \in Contents
    BY <1>0 DEF Contents, DaemonTypes
  <2>2. data' \in [{"base", "device"} -> Contents] /\ interrupted' \in BOOLEAN
    BY <2>1, <1>6 DEF CopyBack, DaemonTypes
  <2>3. temp' \in Contents
    BY <1>6, BasicTypes DEF CopyBack
  <2> QED BY <1>1, <1>2, <2>2, <2>3, <1>6 DEF CopyBack, DaemonTypes
<1>7. CASE Reoverlay
  BY <1>1, <1>2, <1>7 DEF Reoverlay, history, DaemonTypes
<1> QED BY <1>3, <1>4, <1>5, <1>6, <1>7

(* Adding the default source keeps the daemon's variables within their       *)
(* types.                                                                    *)
LEMMA AddSourceType ==
  ASSUME Types, AddSource
  PROVE  DaemonTypes'
<1> USE DEF Types
<1>1. (job' = NoJob \/ Go("extras")) /\ (Fault \/ UNCHANGED faults)
  BY DEF AddSource
<1>2. job' \in Works /\ faults' \in Nat
  BY <1>1, GoType, BasicTypes, StepNames, FaultType
<1>3. data[mounted] \in Contents /\ data[mounted].rows \in RowsSet
  BY DEF DaemonTypes, Contents
<1>4. [data[mounted].rows EXCEPT !.src = TRUE] \in RowsSet
  BY <1>3 DEF RowsSet
<1>5. [data[mounted] EXCEPT !.rows.src = TRUE] \in Contents
  BY <1>3, <1>4 DEF Contents
<1>6. [data EXCEPT ![mounted].rows.src = TRUE] \in [{"base", "device"} -> Contents]
  BY <1>5 DEF DaemonTypes
<1>7. [mem EXCEPT !.src = TRUE] \in RowsSet
  BY DEF DaemonTypes, RowsSet
<1>8. mem' \in RowsSet /\ data' \in [{"base", "device"} -> Contents]
  BY <1>6, <1>7 DEF AddSource, DaemonTypes
<1> QED BY <1>2, <1>8 DEF AddSource, history, DaemonTypes

(* The jobs that change the section and the bootstrap's last steps keep the  *)
(* daemon's variables within their types.                                    *)
LEMMA ExtrasType ==
  ASSUME Types, SmallJob \/ Extras \/ Finish
  PROVE  DaemonTypes'
<1> USE DEF Types
<1>1. CASE SmallJob
  <2>1. job.kind \in Kinds
    BY StepNames DEF DaemonTypes, Works
  <2>2. "end" \in JobSteps \cup {"end"}
    OBVIOUS
  <2> QED BY <1>1, <2>1, <2>2, ChangeType DEF SmallJob
<1>2. CASE Extras
  <2>1. CASE Choose("extras", {"extra", "finish"})
    <3>1. Go("extra") \/ Go("finish")
      BY <2>1 DEF Choose
    <3>2. job' \in Works
      BY <3>1, GoType, StepNames
    <3> QED BY <3>2, <2>1 DEF Choose, disks, history, DaemonTypes
  <2>2. CASE Change("extra", "extra", "finish")
    BY <2>2, ChangeType, StepNames
  <2> QED BY <1>2, <2>1, <2>2 DEF Extras
<1>3. CASE Finish
  BY <1>3, ChangeType, StepNames DEF Finish
<1> QED BY <1>1, <1>2, <1>3

(* Starting the process keeps the daemon's variables within their types.     *)
LEMMA BootType ==
  ASSUME Types, Boot
  PROVE  DaemonTypes'
<1> USE DEF Types
<1>1. CASE Start
  <2> DEFINE m == IF overlay THEN "device" ELSE "base"
  <2>1. m \in {"base", "device"} /\ data[m] \in Contents
    BY DEF DaemonTypes
  <2>2. /\ mounted' = m /\ db' = TRUE /\ mem' = Loaded(data[m].rows) /\ mode' \in Modes
        /\ forgotten' \in BOOLEAN /\ unmarked' \in BOOLEAN /\ (Fault \/ UNCHANGED faults)
        /\ \/ data' = [data EXCEPT ![m].tables = TRUE, ![m].force = FALSE]
           \/ data' = [data EXCEPT ![m].tables = TRUE]
    BY <1>1 DEF Start, Modes
  <2> HIDE DEF m
  <2>3. [data[m] EXCEPT !.tables = TRUE] \in Contents
    BY <2>1 DEF Contents
  <2>4. [[data[m] EXCEPT !.tables = TRUE] EXCEPT !.force = FALSE] \in Contents
    BY <2>3 DEF Contents
  <2>5. data' \in [{"base", "device"} -> Contents]
    BY <2>1, <2>2, <2>3, <2>4 DEF DaemonTypes
  <2>6. mem' \in RowsSet
    <3>1. data[m].rows \in RowsSet /\ Fresh.net \in Net
      BY <2>1, BasicTypes DEF Contents
    <3> QED BY <3>1, <2>2 DEF Loaded, RowsSet
  <2>7. faults' \in Nat
    BY <2>2, FaultType
  <2> QED BY <2>1, <2>2, <2>5, <2>6, <2>7, <1>1 DEF Start, jobs, DaemonTypes
<1>2. CASE DidEnterRecovery \/ UnforceRecovery
  <2>1. PICK b \in BOOLEAN : data' = [data EXCEPT ![mounted].booted = b] \/ data' = data
    BY <1>2 DEF DidEnterRecovery, UnforceRecovery
  <2>2. [data[mounted] EXCEPT !.booted = b] \in Contents
    BY DEF DaemonTypes, Contents
  <2>3. data' \in [{"base", "device"} -> Contents]
    BY <2>1, <2>2 DEF DaemonTypes
  <2>4. (Fault \/ UNCHANGED faults) /\ (unmarked' = TRUE \/ UNCHANGED unmarked)
    BY <1>2 DEF DidEnterRecovery, UnforceRecovery
  <2>5. faults' \in Nat /\ unmarked' \in BOOLEAN
    BY <2>4, FaultType DEF DaemonTypes
  <2> QED BY <2>3, <2>5, <1>2 DEF DidEnterRecovery, UnforceRecovery, Modes, jobs, DaemonTypes
<1> QED BY <1>1, <1>2 DEF Boot

(* A reboot, a crash and a forced recovery keep the daemon's variables       *)
(* within their types.                                                       *)
LEMMA StoppedType ==
  ASSUME Types, Reboot \/ Crash \/ EnterRecovery
  PROVE  DaemonTypes'
<1> USE DEF Types
<1>1. crashes' \in Nat
  BY DEF Reboot, Crash, EnterRecovery, DaemonTypes
<1>2. CASE Reboot \/ Crash
  <2>1. data' \in [{"base", "device"} -> Contents] /\ UNCHANGED <<mounted, overlay, temp, db>> /\ Stop
    BY <1>2 DEF Reboot, Crash, disks, DaemonTypes
  <2> QED BY <1>1, <2>1, StopType
<1>3. CASE EnterRecovery
  <2>1. data' = [data EXCEPT ![mounted].force = TRUE] /\ Stop /\ UNCHANGED <<mounted, overlay, temp, db>>
    BY <1>3 DEF EnterRecovery
  <2>2. [data[mounted] EXCEPT !.force = TRUE] \in Contents
    BY DEF DaemonTypes, Contents
  <2>3. data' \in [{"base", "device"} -> Contents]
    BY <2>1, <2>2 DEF DaemonTypes
  <2> QED BY <1>1, <2>1, <2>3, StopType
<1> QED BY <1>2, <1>3

(* Every step of the daemon keeps its variables within their types.          *)
LEMMA SystemType ==
  ASSUME Types, System
  PROVE  DaemonTypes'
<1>1. CASE \E c \in Parties : Handler(c)
  BY <1>1, HandlerType
<1>2. CASE \E c \in Clients : Connect(c)
  BY <1>2, ConnectType
<1>3. CASE UpdaterStep
  BY <1>3, TakeJobType, ExtrasType, SetPendingType, BootstrapType, MoveType, AddSourceType, StoppedType
     DEF UpdaterStep
<1>4. CASE Boot \/ Crash \/ EnterRecovery
  BY <1>4, BootType, StoppedType
<1> QED BY <1>1, <1>2, <1>3, <1>4 DEF System

(* Setting one field of the wizard's model yields a wizard's model.          *)
LEMMA WizSet ==
  ASSUME NEW w \in Wizards
  PROVE  /\ \A s \in WizSteps : [w EXCEPT !.step = s] \in Wizards
         /\ \A b \in BOOLEAN : [w EXCEPT !.sent = b] \in Wizards /\ [w EXCEPT !.busy = b] \in Wizards
                               /\ [w EXCEPT !.accepted = b] \in Wizards /\ [w EXCEPT !.net = b] \in Wizards
         /\ \A l \in SUBSET Lists : [w EXCEPT !.fetching = l] \in Wizards /\ [w EXCEPT !.have = l] \in Wizards
         /\ \A m \in Selections : [w EXCEPT !.storage = m] \in Wizards
         /\ \A m \in Confirmations : [w EXCEPT !.chosen = m] \in Wizards /\ [w EXCEPT !.confirmed = m] \in Wizards
         /\ \A p \in Seq(RecoveryKinds) : [w EXCEPT !.plan = p] \in Wizards
BY DEF Wizards

(* What the wizard's last command may send.                                  *)
Sent == {"keymap", "storage", "bootMedia", "network", "bootstrap"}

(* Length and elements of a concatenation, for sequences over any set.       *)
LEMMA Concatenated ==
  ASSUME NEW S, NEW s \in Seq(S), NEW t \in Seq(S)
  PROVE  /\ s \o t \in Seq(S) /\ Len(s \o t) = Len(s) + Len(t)
         /\ \A i \in 1..Len(s) : (s \o t)[i] = s[i]
         /\ \A i \in 1..Len(t) : (s \o t)[Len(s) + i] = t[i]
<1>1. s \o t \in Seq(S)
  OBVIOUS
<1>2. Len(s \o t) = Len(s) + Len(t)
  OBVIOUS
<1>3. ASSUME NEW i \in 1..Len(s) PROVE (s \o t)[i] = s[i]
  OBVIOUS
<1>4. ASSUME NEW i \in 1..Len(t) PROVE (s \o t)[Len(s) + i] = t[i]
  OBVIOUS
<1> QED BY <1>1, <1>2, <1>3, <1>4

(* What the wizard's last command sends, in order: the settings, the         *)
(* storage, the network if one was chosen, and last the bootstrap.           *)
LEMMA PlanIs ==
  ASSUME NEW net \in BOOLEAN
  PROVE  /\ Plan(net) \in Seq(Sent)
         /\ Len(Plan(net)) = IF net THEN 4 ELSE 3
         /\ Plan(net)[1] = "keymap"
         /\ Plan(net)[2] = IF wiz.storage = "boot" THEN "bootMedia" ELSE "storage"
         /\ net => Plan(net)[3] = "network"
         /\ Plan(net)[Len(Plan(net))] = "bootstrap"
<1>1. PICK x \in Sent : x = IF wiz.storage = "boot" THEN "bootMedia" ELSE "storage"
  BY DEF Sent
<1>2. Plan(net) = <<"keymap">> \o <<x>> \o (IF net THEN <<"network">> ELSE <<>>) \o <<"bootstrap">>
  BY <1>1 DEF Plan
<1> DEFINE a == <<"keymap">> \o <<x>>
           b == IF net THEN <<"network">> ELSE <<>>
           c == a \o b
<1>3. a \in Seq(Sent) /\ Len(a) = 2 /\ a[1] = "keymap" /\ a[2] = x
  BY DEF Sent
<1>4. b \in Seq(Sent) /\ Len(b) = (IF net THEN 1 ELSE 0) /\ (net => b[1] = "network")
  BY DEF Sent
<1> HIDE DEF a, b
<1>5. c \in Seq(Sent) /\ Len(c) = (IF net THEN 3 ELSE 2) /\ c[1] = "keymap" /\ c[2] = x /\ (net => c[3] = "network")
  <2>1. c \in Seq(Sent) /\ Len(c) = Len(a) + Len(b) /\ (\A i \in 1..Len(a) : c[i] = a[i])
        /\ \A i \in 1..Len(b) : c[Len(a) + i] = b[i]
    <3>1. a \in Seq(Sent) /\ b \in Seq(Sent)
      BY <1>3, <1>4
    <3> QED BY <3>1, Concatenated
  <2> HIDE DEF c
  <2>2. net => 1 \in 1..Len(b) /\ c[2 + 1] = b[1]
    BY <2>1, <1>3, <1>4
  <2> QED BY <2>1, <2>2, <1>3, <1>4
<1> HIDE DEF c
<1>6. Plan(net) = c \o <<"bootstrap">>
  BY <1>2 DEF a, b, c
<1>7. <<"bootstrap">> \in Seq(Sent) /\ Len(<<"bootstrap">>) = 1
  BY DEF Sent
<1>8. /\ Plan(net) \in Seq(Sent) /\ Len(Plan(net)) = Len(c) + 1 /\ (\A i \in 1..Len(c) : Plan(net)[i] = c[i])
      /\ \A i \in 1..1 : Plan(net)[Len(c) + i] = <<"bootstrap">>[i]
  BY <1>5, <1>6, <1>7, Concatenated
<1>9. Plan(net)[Len(c) + 1] = "bootstrap"
  BY <1>8
<1> QED BY <1>1, <1>5, <1>8, <1>9

(* Reading an answer makes the wizard idle and touches nobody else's         *)
(* request.                                                                  *)
LEMMA CollectedCall ==
  ASSUME DaemonTypes, Collect
  PROVE  call' \in [Parties -> Calls] /\ call'[Wizard] = Idle /\ \A d \in Parties : d # Wizard => call'[d] = call[d]
<1>1. Wizard \in Parties
  BY WizardAndPanel DEF Parties
<1> QED BY <1>1, CallSet, BasicTypes DEF Collect

(* Reading an answer keeps the daemon's variables within their types.        *)
LEMMA CollectType ==
  ASSUME DaemonTypes, Collect, OnlyCall
  PROVE  DaemonTypes'
<1>1. call' \in [Parties -> Calls]
  BY CollectedCall
<1> QED BY <1>1 DEF OnlyCall, disks, jobs, history, DaemonTypes

(* A wizard that has given up the rest of its plan is still a wizard.        *)
LEMMA NoPlan ==
  ASSUME NEW w \in Wizards
  PROVE  [w EXCEPT !.plan = <<>>] \in Wizards
<1>0. <<>> \in Seq(RecoveryKinds)
  OBVIOUS
<1> DEFINE e == <<>>
<1> HIDE DEF e
<1>1. PICK p \in Seq(RecoveryKinds) : p = e
  BY <1>0 DEF e
<1>2. [w EXCEPT !.plan = p] \in Wizards
  BY DEF Wizards
<1>3. [w EXCEPT !.plan = e] \in Wizards
  BY <1>1, <1>2
<1> QED BY <1>3 DEF e

(* Every step of the wizard keeps all variables within their types.          *)
LEMMA WizardStepType ==
  ASSUME Types, WizardStep
  PROVE  DaemonTypes' /\ WizardTypes'
<1> USE DEF Types
<1>0. /\ wiz \in Wizards /\ wiz.plan \in Seq(RecoveryKinds) /\ Wizard \in Clients
      /\ wiz.confirmed \in Confirmations /\ wiz.storage \in Selections /\ wiz.chosen \in Confirmations
      /\ wiz.disks \in SUBSET Media
      /\ wiz.have \in SUBSET Lists /\ wiz.fetching \in SUBSET Lists
  BY WizardAndPanel DEF WizardTypes, Wizards
<1>w. ASSUME NEW s \in WizSteps PROVE To(s) \in Wizards
  BY <1>0 DEF To, Wizards
<1>s. /\ {"off", "checking", "configured", "generate", "seed", "network", "finalizing", "complete"} \subseteq WizSteps
      /\ \A i \in 1..5 : Path[i] \in WizSteps
  BY DEF WizSteps
<1>p. Path[1] = "ready" /\ DOMAIN Path = 1..5 /\ Len(Path) = 5
  BY DEF Path
<1>o. Off \in Wizards
  BY <1>s DEF Off, Wizards, Selections, Confirmations, Media, Lists
<1> HIDE DEF Wizards
<1>a. ASSUME UNCHANGED vars PROVE DaemonTypes'
  BY <1>a DEF vars, DaemonTypes
<1>b. ASSUME OnlyWizard, wiz' \in Wizards PROVE DaemonTypes' /\ WizardTypes'
  BY <1>a, <1>b DEF OnlyWizard, WizardTypes
<1>1. CASE Launch
  BY <1>1, <1>a, <1>w, <1>s DEF Launch, WizardTypes
<1>2. CASE CheckBootstrap
  <2>1. wiz' \in Wizards
    BY <1>2, <1>w, <1>s, <1>p DEF CheckBootstrap
  <2> QED BY <2>1, <1>2, <1>b DEF CheckBootstrap
<1>3. CASE Quit
  <2>1. [Off EXCEPT !.confirmed = wiz.confirmed] \in Wizards
    BY <1>o, <1>0, WizSet
  <2> QED BY <2>1, <1>3, <1>b DEF Quit
<1>4. CASE SelectDisk
  <2>1. PICK d \in Selections : wiz' = [wiz EXCEPT !.storage = d]
    BY <1>4, <1>0 DEF SelectDisk, Selections, Media
  <2>2. wiz' \in Wizards
    BY <2>1, <1>0 DEF Wizards
  <2> QED BY <2>2, <1>4, <1>b DEF SelectDisk
<1>5. ASSUME NEW l \in {"timezones", "disks"}, Fetched(l) PROVE DaemonTypes' /\ WizardTypes'
  <2>1. /\ \A d : Default(d) \in Selections /\ StillChosen(d) \in Confirmations
        /\ wiz.fetching \ {l} \in SUBSET Lists /\ wiz.have \cup {l} \in SUBSET Lists
    BY <1>0 DEF Default, StillChosen, Selections, Confirmations, Lists
  <2>2. [wiz EXCEPT !.fetching = @ \ {l}] \in Wizards
    BY <2>1, <1>0 DEF Wizards
  <2>3. /\ [wiz EXCEPT !.fetching = @ \ {l}, !.have = @ \cup {l}] \in Wizards
        /\ \A d \in SUBSET Media : [[wiz EXCEPT !.fetching = @ \ {l}, !.have = @ \cup {l}] EXCEPT
             !.disks = d, !.storage = Default(d), !.chosen = StillChosen(d)] \in Wizards
    BY <2>1, <1>0 DEF Wizards
  <2>4. wiz' \in Wizards
    BY <1>5, <2>2, <2>3 DEF Fetched
  <2> QED BY <2>4, <1>5, <1>b DEF Fetched
<1>6. ASSUME NEW i \in DOMAIN Path, Enter(i) \/ Back(i) PROVE DaemonTypes' /\ WizardTypes'
  <2>1. CASE Enter(i)
    <3>1. To(Path[i + 1]) \in Wizards
      BY <2>1, <1>6, <1>p, <1>s, <1>w DEF Enter
    <3> DEFINE t == To(Path[i + 1])
               f == CASE wiz.step = "keyboard" -> t.fetching \cup {"timezones"}
                      [] wiz.step = "timezone" -> t.fetching \cup {"disks"}
                      [] OTHER -> t.fetching
               m == IF wiz.step = "storage" THEN wiz.storage ELSE t.chosen
    <3> HIDE DEF t
    <3>2. t \in Wizards /\ t.fetching \in SUBSET Lists /\ t.chosen \in Confirmations
      BY <3>1 DEF Wizards, t
    <3>3. f \in SUBSET Lists /\ m \in Confirmations
      BY <3>2, <1>0 DEF Lists, Confirmations
    <3>4. wiz' = [t EXCEPT !.fetching = f, !.chosen = m]
      BY <2>1, <3>2 DEF Enter, Wizards, t
    <3> HIDE DEF f, m
    <3>5. wiz' \in Wizards
      BY <3>2, <3>3, <3>4 DEF Wizards
    <3> QED BY <3>5, <2>1, <1>b DEF Enter
  <2>2. CASE Back(i)
    <3>1. wiz' \in Wizards
      BY <2>2, <1>6, <1>p, <1>s, <1>w DEF Back
    <3> QED BY <3>1, <2>2, <1>b DEF Back
  <2> QED BY <1>6, <2>1, <2>2
<1>7. CASE GenerateKey
  <2>1. "key" \in Kinds
    BY DEF Kinds, RecoveryKinds
  <2>2. DaemonTypes'
    BY <1>7, <2>1, <1>0, RequestType DEF GenerateKey, Ask
  <2>3. To("generate") \in Wizards
    BY <1>w, <1>s
  <2>4. wiz' \in Wizards
    BY <2>3, <1>7 DEF GenerateKey, Wizards
  <2> QED BY <2>2, <2>4, <1>7 DEF GenerateKey, WizardTypes
<1>8. CASE SeedGenerated
  <2>1. DaemonTypes'
    BY <1>8, CollectType DEF SeedGenerated
  <2>2. To("seed") \in Wizards
    BY <1>w, <1>s
  <2>3. wiz' \in Wizards
    BY <2>2, <1>0, <1>8 DEF SeedGenerated, Wizards
  <2> QED BY <2>1, <2>3, <1>8 DEF SeedGenerated, OnlyCall, WizardTypes
<1>9. CASE ConfirmSeed \/ BackToSeed
  <2>1. wiz' \in Wizards /\ OnlyWizard
    BY <1>9, <1>w, <1>s DEF ConfirmSeed, BackToSeed
  <2> QED BY <2>1, <1>b
<1>10. ASSUME NEW net \in BOOLEAN, ChooseNetwork(net) PROVE DaemonTypes' /\ WizardTypes'
  <2>1. wiz' = [To("finalizing") EXCEPT !.net = net, !.busy = TRUE, !.plan = Plan(net),
                                            !.confirmed = wiz.chosen, !.have = {}, !.fetching = {},
                                            !.disks = {}]
    BY <1>10 DEF ChooseNetwork
  <2>2. To("finalizing") \in Wizards
    BY <1>w, <1>s
  <2>3. Plan(net) \in Seq(Sent)
    BY PlanIs
  <2>4. Plan(net) \in Seq(RecoveryKinds)
    BY <2>3 DEF Sent, RecoveryKinds
  <2> DEFINE pl == Plan(net)
  <2> HIDE DEF pl
  <2>5. wiz' = [To("finalizing") EXCEPT !.net = net, !.busy = TRUE, !.plan = pl,
                                        !.confirmed = wiz.chosen, !.have = {}, !.fetching = {},
                                            !.disks = {}]
    BY <2>1 DEF pl
  <2>6. pl \in Seq(RecoveryKinds) /\ {} \in SUBSET Lists
    BY <2>4 DEF pl
  <2>7. wiz' \in Wizards
    BY <2>2, <2>5, <2>6, <1>0 DEF Wizards
  <2> QED BY <2>7, <1>10, <1>b DEF ChooseNetwork
<1>11. CASE Send
  <2>1. CASE Ask(Head(wiz.plan)) /\ wiz' = [wiz EXCEPT !.sent = TRUE]
    <3>1. Head(wiz.plan) \in Kinds
      BY <1>11, <1>0 DEF Send, Kinds
    <3>2. DaemonTypes'
      BY <2>1, <3>1, <1>0, RequestType DEF Ask
    <3>3. wiz' \in Wizards
      BY <2>1, <1>0 DEF Wizards
    <3> QED BY <3>2, <3>3, <1>11 DEF Send, WizardTypes
  <2>2. CASE UNCHANGED vars
    <3>1. wiz' = [wiz EXCEPT !.plan = <<>>] \/ wiz' = [wiz EXCEPT !.busy = FALSE] \/ wiz' = [wiz EXCEPT !.sent = TRUE]
      BY <1>11 DEF Send
    <3>2. [wiz EXCEPT !.busy = FALSE] \in Wizards /\ [wiz EXCEPT !.sent = TRUE] \in Wizards
      BY <1>0 DEF Wizards
    <3>3. wiz' \in Wizards
      BY <3>1, <3>2, <1>0, NoPlan
    <3> QED BY <3>3, <2>2, <1>a, <1>11 DEF Send, WizardTypes
  <2> QED BY <1>11, <2>1, <2>2 DEF Send
<1>12. CASE Receive
  <2>1. DaemonTypes'
    BY <1>12, CollectType DEF Receive
  <2>2. wiz' \in Wizards
    <3>1. Tail(wiz.plan) \in Seq(RecoveryKinds)
      BY <1>12, <1>0 DEF Receive, Shape
    <3>2. PICK b \in BOOLEAN : b = (Head(wiz.plan) = "bootstrap")
      OBVIOUS
    <3>3. /\ [wiz EXCEPT !.sent = FALSE] \in Wizards
          /\ [wiz EXCEPT !.sent = FALSE, !.busy = FALSE] \in Wizards
      BY <1>0 DEF Wizards
    <3>5. [wiz EXCEPT !.sent = FALSE, !.plan = <<>>] \in Wizards
      BY <3>3, NoPlan
    <3>4. [wiz EXCEPT !.sent = FALSE, !.plan = Tail(wiz.plan), !.accepted = b] \in Wizards
      <4> DEFINE p == Tail(wiz.plan)
      <4>1. p \in Seq(RecoveryKinds)
        BY <3>1
      <4> HIDE DEF p
      <4>2. [wiz EXCEPT !.sent = FALSE, !.plan = p, !.accepted = b] \in Wizards
        BY <4>1, <1>0 DEF Wizards
      <4> QED BY <4>2 DEF p
    <3> QED BY <3>2, <3>3, <3>4, <3>5, <1>12 DEF Receive
  <2> QED BY <2>1, <2>2, <1>12 DEF Receive, OnlyCall, WizardTypes
<1>13. CASE Complete
  <2>1. To("complete") \in Wizards
    BY <1>w, <1>s
  <2>2. wiz' \in Wizards
    BY <2>1, <1>13 DEF Complete, Wizards
  <2> QED BY <2>2, <1>13, <1>b DEF Complete
<1> QED BY <1>1, <1>2, <1>3, <1>4, <1>5, <1>6, <1>7, <1>8, <1>9, <1>10, <1>11, <1>12, <1>13
        DEF WizardStep, Finalize

(* The wizard is busy only on its last screen, and waits for an answer only  *)
(* to something of its plan.                                                 *)
LEMMA ShapeStep ==
  ASSUME Types, WizardStep
  PROVE  Shape'
<1> USE DEF Types
<1>0. /\ wiz \in Wizards /\ \A s : To(s) = [wiz EXCEPT !.step = s]
      /\ Path[1] = "ready" /\ Path[2] = "keyboard" /\ Path[3] = "timezone" /\ Path[4] = "storage"
      /\ Path[5] = "password" /\ DOMAIN Path = 1..5
  BY DEF WizardTypes, To, Path
<1>1. CASE Launch \/ CheckBootstrap \/ Quit \/ SelectDisk
  BY <1>0, <1>1 DEF Launch, CheckBootstrap, Quit, SelectDisk, Shape, Wizards, Off
<1>2. ASSUME NEW l \in {"timezones", "disks"}, Fetched(l) PROVE Shape'
  BY <1>0, <1>2 DEF Fetched, Shape, Wizards
<1>3. ASSUME NEW i \in DOMAIN Path, Enter(i) \/ Back(i) PROVE Shape'
  <2>1. ~wiz.busy
    BY <1>0, <1>3 DEF Enter, Back, Shape, On
  <2>2. wiz'.busy = wiz.busy
    BY <1>0, <1>3 DEF Enter, Back, Wizards
  <2> QED BY <2>1, <2>2 DEF Shape
<1>4. ASSUME NEW net \in BOOLEAN, ChooseNetwork(net) PROVE Shape'
  <2>1. wiz'.step = "finalizing" /\ wiz'.plan = Plan(net)
    BY <1>0, <1>4 DEF ChooseNetwork, Wizards
  <2>2. Plan(net) # <<>>
    BY PlanIs
  <2> QED BY <2>1, <2>2 DEF Shape
<1>5. CASE GenerateKey \/ SeedGenerated \/ ConfirmSeed \/ BackToSeed \/ Complete
  BY <1>0, <1>5 DEF GenerateKey, SeedGenerated, ConfirmSeed, BackToSeed, Complete, Shape, Wizards
<1>6. CASE Send
  BY <1>0, <1>6 DEF Send, Shape, Wizards
<1>7. CASE Receive
  BY <1>0, <1>7 DEF Receive, Shape, Wizards
<1> QED BY <1>1, <1>2, <1>3, <1>4, <1>5, <1>6, <1>7 DEF WizardStep, Finalize

(* Every step keeps the types.                                               *)
LEMMA NextType ==
  ASSUME Types, Next
  PROVE  Types'
<1>1. CASE WizardStep
  BY <1>1, WizardStepType, ShapeStep DEF Types
<1>2. CASE PanelRequest
  <2>1. PICK kind \in Routes : Request(Panel, kind)
    BY <1>2 DEF PanelRequest
  <2>2. kind \in Kinds /\ Panel \in Clients
    BY WizardAndPanel DEF Routes, Kinds
  <2>3. DaemonTypes'
    BY <2>1, <2>2, RequestType
  <2> QED BY <2>3, <1>2 DEF PanelRequest, Types, WizardTypes, Shape
<1>3. CASE System /\ UNCHANGED <<wiz, calls, wizards>>
  BY <1>3, SystemType DEF Types, WizardTypes, Shape
<1> QED BY <1>1, <1>2, <1>3 DEF Next

(* The initial state has the types.                                          *)
LEMMA InitType ==
  ASSUME WizInit
  PROVE  Types
<1>1. [Empty EXCEPT !.tables = TRUE, !.booted = TRUE] \in Contents
  BY BasicTypes DEF Contents
<1>2. data \in [{"base", "device"} -> Contents]
  <2> DEFINE b == [Empty EXCEPT !.tables = TRUE, !.booted = TRUE]
  <2>1. data = [base |-> b, device |-> Empty]
    BY DEF WizInit, Init
  <2> HIDE DEF b
  <2>2. b \in Contents
    BY <1>1 DEF b
  <2> QED BY <2>1, <2>2, BasicTypes
<1>3. call \in [Parties -> Calls] /\ queue \in Seq(JobNames)
  BY BasicTypes DEF WizInit, Init
<1>4. DaemonTypes
  BY <1>2, <1>3, BasicTypes DEF WizInit, Init, DaemonTypes, Modes
<1>5. wiz \in Wizards /\ wiz.busy = FALSE
  <2>1. [step |-> "off", have |-> {}, fetching |-> {}, disks |-> {}, storage |-> "none",
         chosen |-> "none", confirmed |-> "none", net |-> FALSE, busy |-> FALSE, sent |-> FALSE,
         plan |-> <<>>, accepted |-> FALSE] \in Wizards
    BY DEF Wizards, WizSteps, Selections, Confirmations, Media, Lists
  <2> QED BY <2>1 DEF WizInit, Off
<1> QED BY <1>4, <1>5 DEF WizInit, WizardTypes, Shape, Types

(* A step that changes nothing keeps the types.                              *)
LEMMA StutterType ==
  ASSUME Types, UNCHANGED wizVars
  PROVE  Types'
BY DEF wizVars, vars, Types, DaemonTypes, WizardTypes, Shape

(* Every variable of the daemon and of the wizard stays within its type, for *)
(* any number of failures and requests.                                      *)
THEOREM TypesHold == Spec => []Types
<1>1. ASSUME Types, [Next]_wizVars PROVE Types'
  BY <1>1, NextType, StutterType
<1> QED BY <1>1, InitType, PTL DEF Spec

(* The type invariant of Setup's run, which follows from the finer Types.    *)
THEOREM TypeCorrect == Spec => []TypeOK
<1>1. Types => TypeOK
  <2> SUFFICES ASSUME Types PROVE TypeOK
    OBVIOUS
  <2>1. mem \in [box : Box, net : Net, src : BOOLEAN]
        /\ data \in [{"base", "device"} -> [rows : [box : Box, net : Net, src : BOOLEAN],
                                     tables : BOOLEAN, force : BOOLEAN, booted : BOOLEAN]]
    BY DEF Types, DaemonTypes, RowsSet, Contents
  <2>2. ASSUME NEW c \in Parties
        PROVE  /\ call[c].at \in {"idle", "get", "assign", "store", "connect", "done"}
               /\ call[c].got \in Box /\ call[c].ans \in {"none", "ok", "refused"}
    BY DEF Types, DaemonTypes, Calls, CallSteps
  <2>3. job.storage \in BOOLEAN /\ job.net \in Net /\ acked \subseteq Facts
    BY DEF Types, DaemonTypes, Works
  <2>4. /\ mounted \in {"base", "device"}
        /\ {overlay, db, dkm, lost, interrupted, forgotten, unmarked} \subseteq BOOLEAN
        /\ mode \in {"recovery", "normal", "down", "entering", "leaving"}
    BY DEF Types, DaemonTypes, Modes
  <2> QED BY <2>1, <2>2, <2>3, <2>4 DEF TypeOK
<1> QED BY <1>1, TypesHold, PTL

-----------------------------------------------------------------------------
(* The assignments to the section that are ever under way.                   *)
Writes == Written \cup {"extra", "noExtra", "configured"}

(* What an assignment does to the three facts and the storage flag the       *)
(* properties name.                                                          *)
LEMMA ChangedFacts ==
  ASSUME NEW kind \in Writes, NEW box \in Box
  PROVE  LET new == Changed(kind, box) IN
         /\ "configured" \in new.facts <=> "configured" \in box.facts \/ kind = "configured"
         /\ "key" \in new.facts <=> "key" \in box.facts \/ kind \in {"key", "noKey"}
         /\ "net" \in new.facts <=> "net" \in box.facts \/ kind = "network"
         /\ new.storage <=> box.storage \/ kind = "storage"
         /\ kind \in DOMAIN Adds => new.facts = box.facts \cup {Adds[kind]}
         /\ kind \in DOMAIN Removes => new.facts = box.facts \ {Removes[kind]}
         /\ kind = "storage" => new.facts = box.facts
         /\ kind = "storage" \/ kind \in DOMAIN Adds \/ kind \in DOMAIN Removes
<1> DEFINE new == Changed(kind, box)
<1>1. CASE kind = "storage"
  <2>1. new = [box EXCEPT !.storage = TRUE]
    BY <1>1 DEF Changed
  <2> HIDE DEF new
  <2>2. new.facts = box.facts /\ new.storage = TRUE
    BY <2>1 DEF Box
  <2> QED BY <1>1, <2>2, Tables DEF new
<1>2. CASE kind \in DOMAIN Adds
  <2>1. new = [box EXCEPT !.facts = @ \cup {Adds[kind]}]
    BY <1>2, Tables DEF Changed
  <2> HIDE DEF new
  <2>2. new.facts = box.facts \cup {Adds[kind]} /\ new.storage = box.storage
    BY <2>1 DEF Box
  <2>3. /\ Adds[kind] = "configured" <=> kind = "configured"
        /\ Adds[kind] = "key" <=> kind \in {"key", "noKey"}
        /\ Adds[kind] = "net" <=> kind = "network"
        /\ kind \notin DOMAIN Removes /\ kind # "storage"
    BY <1>2, Tables
  <2> QED BY <1>2, <2>2, <2>3 DEF new
<1>3. CASE kind \notin DOMAIN Adds /\ kind # "storage"
  <2>0. kind \in DOMAIN Removes
    BY <1>3, Tables DEF Writes, Written
  <2>1. new = [box EXCEPT !.facts = @ \ {Removes[kind]}]
    BY <1>3 DEF Changed
  <2> HIDE DEF new
  <2>2. new.facts = box.facts \ {Removes[kind]} /\ new.storage = box.storage
    BY <2>1 DEF Box
  <2>3. Removes[kind] \in {"extra", "pin"} /\ kind \notin {"configured", "key", "noKey", "network"}
    BY <2>0, Tables
  <2> QED BY <1>3, <2>0, <2>2, <2>3 DEF new
<1> QED BY <1>1, <1>2, <1>3

(* A copy of the section is the one in memory, or mixes it with the one      *)
(* section another party is assigning: no fact of neither, every fact of     *)
(* both.                                                                     *)
LEMMA ReadFacts ==
  ASSUME Types, NEW b \in Reads
  PROVE  \/ b = mem.box
         \/ \E o \in Parties :
              LET ch == Changed(call[o].kind, call[o].got) IN
              /\ call[o].at = "assign"
              /\ \A f : f \in b.facts => f \in mem.box.facts \/ f \in ch.facts
              /\ \A f : f \in mem.box.facts /\ f \in ch.facts => f \in b.facts
              /\ b.storage => mem.box.storage \/ ch.storage
<1> SUFFICES ASSUME b # mem.box
    PROVE \E o \in Parties :
              LET ch == Changed(call[o].kind, call[o].got) IN
              /\ call[o].at = "assign"
              /\ \A f : f \in b.facts => f \in mem.box.facts \/ f \in ch.facts
              /\ \A f : f \in mem.box.facts /\ f \in ch.facts => f \in b.facts
              /\ b.storage => mem.box.storage \/ ch.storage
  OBVIOUS
<1>1. PICK o \in Parties : /\ call[o].at = "assign"
             /\ \E f \in {g \in SUBSET (mem.box.facts \cup Changed(call[o].kind, call[o].got).facts) :
                            mem.box.facts \cap Changed(call[o].kind, call[o].got).facts \subseteq g},
                   s \in {mem.box.storage, Changed(call[o].kind, call[o].got).storage} :
                  b = [facts |-> f, storage |-> s]
  BY DEF Reads
<1> DEFINE ch == Changed(call[o].kind, call[o].got)
<1>2. ch \in Box
  BY ChangedType DEF Types, DaemonTypes, Calls
<1> HIDE DEF ch
<1>3. PICK f \in SUBSET (mem.box.facts \cup ch.facts), s \in {mem.box.storage, ch.storage} :
          b = [facts |-> f, storage |-> s] /\ mem.box.facts \cap ch.facts \subseteq f
  BY <1>1 DEF ch
<1>4. b.facts = f /\ b.storage = s
  BY <1>3
<1>5. (b.storage => mem.box.storage \/ ch.storage) /\ (\A x : x \in b.facts => x \in mem.box.facts \/ x \in ch.facts)
  BY <1>3, <1>4
<1>6. \A x : x \in mem.box.facts /\ x \in ch.facts => x \in b.facts
  BY <1>3, <1>4
<1> QED BY <1>1, <1>5, <1>6 DEF ch

(* What stays queued when a job is appended, taken, or the queue is lost     *)
(* with the process.                                                         *)
LEMMA QueueFacts ==
  ASSUME DaemonTypes
  PROVE  /\ queue' = queue => \A k : Queued(k)' <=> Queued(k)
         /\ queue' = <<>> => \A k : ~Queued(k)'
         /\ \A j \in JobNames : queue' = Append(queue, j) => \A k : Queued(k)' <=> Queued(k) \/ k = j
         /\ queue # <<>> => Queued(Head(queue))
         /\ queue # <<>> /\ queue' = Tail(queue) => \A k : Queued(k)' => Queued(k)
         /\ queue = <<>> => \A k : ~Queued(k)
<1>0. queue \in Seq(JobNames)
  BY DEF DaemonTypes
<1>1. queue' = queue => \A k : Queued(k)' <=> Queued(k)
  BY DEF Queued
<1>2. queue' = <<>> => \A k : ~Queued(k)'
  BY DEF Queued
<1>3. ASSUME NEW j \in JobNames, queue' = Append(queue, j), NEW k PROVE Queued(k)' <=> Queued(k) \/ k = j
  <2> DEFINE q == Append(queue, j)
  <2>1. /\ DOMAIN q = 1..(Len(queue) + 1) /\ DOMAIN queue = 1..Len(queue) /\ Len(queue) \in Nat
        /\ q[Len(queue) + 1] = j /\ \A i \in 1..Len(queue) : q[i] = queue[i]
    BY <1>0
  <2> HIDE DEF q
  <2>2. Queued(k)' <=> \E i \in DOMAIN q : q[i] = k
    BY <1>3 DEF q, Queued
  <2> QED BY <2>1, <2>2 DEF Queued
<1>4. queue # <<>> => Queued(Head(queue))
  BY <1>0 DEF Queued
<1>5. ASSUME queue # <<>>, queue' = Tail(queue), NEW k, Queued(k)' PROVE Queued(k)
  <2>1. Tail(queue) \in Seq(JobNames) /\ Len(Tail(queue)) = Len(queue) - 1
        /\ \A i \in 1..(Len(queue) - 1) : Tail(queue)[i] = queue[i + 1]
    BY <1>0, <1>5
  <2>2. PICK i \in DOMAIN queue' : queue'[i] = k
    BY <1>5 DEF Queued
  <2>3. i + 1 \in DOMAIN queue /\ queue[i + 1] = k
    BY <2>1, <2>2, <1>0, <1>5
  <2> QED BY <2>3 DEF Queued
<1>6. queue = <<>> => \A k : ~Queued(k)
  BY DEF Queued
<1> QED BY <1>1, <1>2, <1>3, <1>4, <1>5, <1>6

(* What a request, a read and an answer leave alone.                         *)
DaemonFrame == UNCHANGED <<mem, data, mounted, overlay, temp, db, job, mode, crashes, acked, lost, interrupted, forgotten, unmarked>>

(* What a request may do.                                                    *)
Asked(c, kind) ==
  \/ Reply(c, "refused") /\ UNCHANGED <<dkm, faults, queue>>
  \/ kind = "bootMedia" /\ Reply(c, "ok") /\ ~RefusesStorage /\ UNCHANGED <<dkm, faults, queue>>
  \/ kind \in JobKinds /\ Reply(c, "ok") /\ queue' = Append(queue, kind) /\ UNCHANGED <<dkm, faults>>
  \/ /\ kind = "bootstrap" /\ Reply(c, "ok") /\ ~RefusesBootstrap
     /\ queue' = Append(queue, "bootstrap") /\ UNCHANGED <<dkm, faults>>
  \/ /\ kind \in {"hostname", "keymap", "network", "pin", "unpin", "storage"} /\ Proceed(c, kind)
     /\ kind = "storage" => ~RefusesStorage
     /\ UNCHANGED <<dkm, faults, queue>>
  \/ kind = "key" /\ Proceed(c, "key") /\ "key" \notin mem.box.facts /\ ~dkm /\ dkm' = TRUE /\ UNCHANGED <<faults, queue>>
  \/ kind = "key" /\ Proceed(c, "noKey") /\ "key" \notin mem.box.facts /\ Fault /\ UNCHANGED <<dkm, queue>>
  \/ /\ kind = "connect"
     /\ call' \in [Parties -> Calls] /\ call'[c].at = "connect" /\ call'[c].kind = "connect" /\ call'[c].got = NoBox
     /\ \A d \in Parties : d # c => call'[d] = call[d]
     /\ UNCHANGED <<dkm, faults, queue>>

(* A request is answered at once, begins, or reboots the box; in the first   *)
(* two cases the rows, the disks, the current job and the mode stay as they  *)
(* are.                                                                      *)
LEMMA RequestEffect ==
  ASSUME DaemonTypes, NEW c \in Clients, NEW kind \in Kinds, Request(c, kind)
  PROVE  /\ Running /\ call[c].at = "idle" /\ kind \in Routes
         /\ \/ kind = "reboot" /\ Stop /\ UNCHANGED <<data, mounted, overlay, temp, db, crashes>>
            \/ DaemonFrame /\ Asked(c, kind)
<1>1. Running /\ call[c].at = "idle" /\ kind \in Routes
  BY DEF Request
<1>2. CASE StartWrite(c, kind)
  BY <1>1, <1>2 DEF StartWrite, DaemonFrame, Asked, disks, jobs, history
<1>3. CASE kind = "key" /\ createMasterKey(c)
  BY <1>1, <1>3 DEF createMasterKey, DaemonFrame, Asked, disks, jobs, history
<1>4. CASE StartJob(c, kind)
  BY <1>1, <1>4 DEF StartJob, DaemonFrame, Asked, disks, history
<1>5. CASE kind = "connect" /\ StartConnect(c)
  <2>1. DaemonFrame /\ UNCHANGED <<dkm, faults, queue>>
    BY <1>5 DEF StartConnect, DaemonFrame, disks, jobs, history
  <2>2. c \in Parties
    BY DEF Parties
  <2>3. Asked(c, kind)
    BY <1>5, <2>1, <2>2, Connecting DEF Asked
  <2> QED BY <1>1, <2>1, <2>3
<1>6. CASE kind = "reboot" /\ HostReboot(c)
  BY <1>1, <1>6 DEF HostReboot, disks
<1> QED BY <1>1, <1>2, <1>3, <1>4, <1>5, <1>6 DEF Request

(* For the daemon, a step is nothing, a request, the wizard reading its      *)
(* answer, or a step of its own.                                             *)
LEMMA StepsOfSpec ==
  ASSUME Types, [Next]_wizVars
  PROVE  \/ UNCHANGED vars
         \/ \E c \in Clients, kind \in Kinds : Request(c, kind)
         \/ call[Wizard].at = "idle" /\ Collect /\ DaemonFrame /\ UNCHANGED <<dkm, queue, faults>>
         \/ System
<1>1. CASE WizardStep
  <2>1. CASE GenerateKey
    <3>1. "key" \in Kinds /\ Wizard \in Clients
      BY WizardAndPanel DEF Kinds, RecoveryKinds
    <3> QED BY <3>1, <2>1 DEF GenerateKey, Ask
  <2>2. CASE SeedGenerated \/ Receive
    <3>1. Idle.at = "idle"
      BY DEF Idle
    <3> QED BY <3>1, <2>2 DEF SeedGenerated, Receive, OnlyCall, DaemonFrame, disks, jobs, history, Answered, Broken
  <2>3. CASE Send
    <3>1. Wizard \in Clients /\ (wiz.plan # <<>> => Head(wiz.plan) \in Kinds)
      BY WizardAndPanel DEF Types, WizardTypes, Wizards, Kinds
    <3> QED BY <3>1, <2>3 DEF Send, Ask
  <2>4. ASSUME NEW i \in DOMAIN Path, Enter(i) \/ Back(i) PROVE UNCHANGED vars
    BY <2>4 DEF Enter, Back, OnlyWizard
  <2>5. ASSUME NEW l \in {"timezones", "disks"}, Fetched(l) PROVE UNCHANGED vars
    BY <2>5 DEF Fetched, OnlyWizard
  <2>6. ASSUME NEW net \in BOOLEAN, ChooseNetwork(net) PROVE UNCHANGED vars
    BY <2>6 DEF ChooseNetwork, OnlyWizard
  <2>7. CASE Launch \/ CheckBootstrap \/ Quit \/ SelectDisk \/ ConfirmSeed \/ BackToSeed \/ Complete
    BY <2>7 DEF Launch, CheckBootstrap, Quit, SelectDisk, ConfirmSeed, BackToSeed, Complete, OnlyWizard
  <2> QED BY <1>1, <2>1, <2>2, <2>3, <2>4, <2>5, <2>6, <2>7 DEF WizardStep, Finalize
<1>2. CASE PanelRequest
  <2>1. Panel \in Clients /\ Routes \subseteq Kinds
    BY WizardAndPanel DEF Routes, Kinds
  <2> QED BY <1>2, <2>1 DEF PanelRequest
<1>3. CASE UNCHANGED wizVars
  BY <1>3 DEF wizVars
<1> QED BY <1>1, <1>2, <1>3 DEF Next

(* The base invariant.                                                       *)
BaseInv == CallInv /\ MoveInv /\ ModeInv

(* Once the process is down nobody is in a request and no job is queued or   *)
(* running.                                                                  *)
LEMMA StopBase ==
  ASSUME DaemonTypes, BaseInv, Stop, UNCHANGED <<mounted, overlay, temp, db>>, UNCHANGED data \/ EnterRecovery
  PROVE  BaseInv'
<1>1. call' = [c \in Parties |-> Idle] /\ queue' = <<>> /\ job' = NoJob /\ mode' = "down"
  BY DEF Stop
<1>2. NoJob.at = "none" /\ Idle.at = "idle" /\ Clients \subseteq Parties /\ Updater \in Parties
  BY DEF NoJob, Idle, Parties
<1>3. CallInv'
  BY <1>1, <1>2 DEF CallInv, InFlight, Running
<1>4. MoveInv'
  BY <1>1, <1>2 DEF BaseInv, MoveInv
<1>5. \A k : ~Queued(k)'
  BY <1>1, QueueFacts
<1>6. ModeInv'
  BY <1>1, <1>2, <1>5 DEF ModeInv, Bootstrapping, Connected
<1> QED BY <1>3, <1>4, <1>6 DEF BaseInv

(* A request keeps the base invariant: a bootstrap is queued only in         *)
(* recovery.                                                                 *)
LEMMA RequestBase ==
  ASSUME Types, DaemonTypes', BaseInv, NEW c \in Clients, NEW kind \in Kinds, Request(c, kind)
  PROVE  BaseInv'
<1>0. DaemonTypes /\ c \in Parties /\ c # Updater /\ Running /\ call[c].at = "idle"
  BY RequestEffect, UpdaterIsNoClient DEF Types, Parties
<1>1. CASE Stop /\ UNCHANGED <<data, mounted, overlay, temp, db>>
  BY <1>0, <1>1, StopBase
<1>2. CASE DaemonFrame /\ Asked(c, kind)
  <2>1. /\ \A d \in Parties : d # c => call'[d] = call[d]
        /\ call'[c].at \in {"idle", "get", "connect"}
        /\ call'[c].at = "get" => call'[c].kind \in Written
    <3>1. \A a \in {"none", "ok", "refused"} : Reply(c, a) =>
             call'[c].at = "idle" /\ \A d \in Parties : d # c => call'[d] = call[d]
      BY <1>0, Replied
    <3>2. \A k \in Kinds : Proceed(c, k) =>
             call'[c].at = "get" /\ call'[c].kind = k /\ \A d \in Parties : d # c => call'[d] = call[d]
      BY <1>0, Proceeded
    <3>3. {"hostname", "keymap", "network", "pin", "unpin", "storage", "key", "noKey"} \subseteq Kinds \cap Written
      BY DEF Kinds, RecoveryKinds, NormalKinds, Written
    <3> QED BY <1>2, <3>1, <3>2, <3>3 DEF Asked
  <2>2. Queued("bootstrap")' => Queued("bootstrap") \/ mode = "recovery"
    <3>1. CASE queue' = queue
      BY <3>1, <1>0, QueueFacts
    <3>2. CASE kind \in JobKinds /\ queue' = Append(queue, kind)
      <4>1. kind \in JobNames /\ kind # "bootstrap"
        BY <3>2 DEF JobNames, JobKinds
      <4> QED BY <4>1, <3>2, <1>0, QueueFacts
    <3>3. CASE ~RefusesBootstrap
      BY <3>3, <1>0 DEF RefusesBootstrap, Running
    <3> QED BY <1>2, <3>1, <3>2, <3>3 DEF Asked
  <2>3. UNCHANGED <<mem, data, mounted, overlay, temp, db, job, mode, forgotten, unmarked>>
    BY <1>2 DEF DaemonFrame
  <2>4. CallInv'
    <3>1. call'[Updater] = call[Updater]
      BY <2>1, <1>0 DEF Parties
    <3>2. Running'
      BY <1>0, <2>3 DEF Running
    <3>3. \A d \in Clients : (InFlight(d)' => call'[d].kind \in Written) /\ call'[d].at # "done"
      BY <2>1 DEF BaseInv, CallInv, InFlight, Parties
    <3> QED BY <2>3, <3>1, <3>2, <3>3 DEF BaseInv, CallInv
  <2>5. MoveInv'
    BY <2>3 DEF BaseInv, MoveInv
  <2>6. ModeInv'
    BY <2>1, <2>2, <2>3 DEF BaseInv, ModeInv, Recorded, Unwritten
  <2> QED BY <2>4, <2>5, <2>6 DEF BaseInv
<1> QED BY RequestEffect, <1>0, <1>1, <1>2

(* Moving a party to its next step keeps what it holds.                      *)
LEMMA StepSet ==
  ASSUME DaemonTypes, NEW c \in Parties, NEW at \in CallSteps, call' = [call EXCEPT ![c].at = at]
  PROVE  /\ call'[c].at = at /\ call'[c].kind = call[c].kind /\ call'[c].got = call[c].got
         /\ call'[c].ans = call[c].ans
         /\ \A d \in Parties : d # c => call'[d] = call[d]
BY DEF DaemonTypes, Calls

(* The read of a read-modify-write, with everything it leaves alone.         *)
LEMMA GetEffect ==
  ASSUME Types, NEW c \in Parties, GetState(c)
  PROVE  /\ call[c].at = "get"
         /\ \E b \in Reads : /\ call'[c].at = "assign" /\ call'[c].kind = call[c].kind /\ call'[c].got = b
                             /\ call'[c].ans = call[c].ans
         /\ \A d \in Parties : d # c => call'[d] = call[d]
         /\ DaemonFrame /\ UNCHANGED <<dkm, faults, queue>>
<1>1. PICK b \in Reads : call' = [call EXCEPT ![c].got = b, ![c].at = "assign"]
  BY DEF GetState
<1>2. call[c] \in Calls /\ call \in [Parties -> Calls]
  BY DEF Types, DaemonTypes
<1>3. /\ call'[c].at = "assign" /\ call'[c].kind = call[c].kind /\ call'[c].got = b /\ call'[c].ans = call[c].ans
      /\ \A d \in Parties : d # c => call'[d] = call[d]
  BY <1>1, <1>2 DEF Calls
<1> QED BY <1>3 DEF GetState, DaemonFrame, disks, jobs, history

(* The assignment of a read-modify-write, skipped or made, with everything   *)
(* it leaves alone.                                                          *)
LEMMA AssignEffect ==
  ASSUME Types, NEW c \in Parties, Assign(c)
  PROVE  LET new == Changed(call[c].kind, call[c].got) IN
         /\ call[c].at = "assign" /\ UNCHANGED <<data, mounted, overlay, temp, db, dkm, job, mode, faults, crashes, interrupted, forgotten, unmarked>>
         /\ \A d \in Parties : d # c => call'[d] = call[d]
         /\ \/ /\ call[c].kind \in Skips /\ new = call[c].got /\ UNCHANGED <<mem, lost, acked>>
               /\ \/ /\ c = Updater /\ UNCHANGED queue
                     /\ call'[c].at = "done" /\ call'[c].kind = call[c].kind /\ call'[c].got = call[c].got
                  \/ c # Updater /\ After(c) /\ Reply(c, Answer(c))
            \/ /\ mem' = [mem EXCEPT !.box = new] /\ lost' = (lost \/ mem.box # call[c].got)
               /\ call[c].kind \notin Skips \/ new # call[c].got
               /\ Withdrawn(call[c].kind) /\ UNCHANGED queue
               /\ call'[c].at = "store" /\ call'[c].kind = call[c].kind /\ call'[c].got = call[c].got
<1> DEFINE new == Changed(call[c].kind, call[c].got)
<1> HIDE DEF new
<1>0. DaemonTypes /\ "done" \in CallSteps /\ "store" \in CallSteps /\ Answer(c) \in {"none", "ok", "refused"}
  BY DEF Types, CallSteps, Answer
<1>1. call[c].at = "assign" /\ UNCHANGED <<data, mounted, overlay, temp, db, dkm, job, mode, faults, crashes, interrupted, forgotten, unmarked>>
  BY DEF Assign, disks
<1>2. CASE call[c].kind \in Skips /\ new = call[c].got /\ UNCHANGED <<mem, lost, acked>>
           /\ (IF c = Updater THEN call' = [call EXCEPT ![c].at = "done"] /\ UNCHANGED queue
                            ELSE After(c) /\ Reply(c, Answer(c)))
  <2>1. CASE c = Updater
    BY <1>0, <1>1, <1>2, <2>1, StepSet DEF new
  <2>2. CASE c # Updater
    BY <1>0, <1>1, <1>2, <2>2, Replied DEF new
  <2> QED BY <2>1, <2>2
<1>3. CASE /\ call[c].kind \notin Skips \/ new # call[c].got
           /\ mem' = [mem EXCEPT !.box = new] /\ lost' = (lost \/ mem.box # call[c].got)
           /\ Withdrawn(call[c].kind) /\ call' = [call EXCEPT ![c].at = "store"] /\ UNCHANGED queue
  BY <1>0, <1>1, <1>3, StepSet DEF new
<1> QED BY <1>2, <1>3 DEF Assign, new

(* The save of a read-modify-write, done or failed, with everything it       *)
(* leaves alone.                                                             *)
LEMMA StoreEffect ==
  ASSUME Types, NEW c \in Parties, StoreRow(c)
  PROVE  LET new == Changed(call[c].kind, call[c].got) IN
         /\ call[c].at = "store" /\ UNCHANGED <<mem, mounted, overlay, temp, db, dkm, mode, crashes, interrupted, forgotten, unmarked>>
         /\ \A d \in Parties : d # c => call'[d] = call[d]
         /\ faults' = faults \/ Fault
         /\ \/ /\ CanWrite /\ data' = [data EXCEPT ![mounted].rows.box = new]
               /\ lost' = (lost \/ mem.box # new) /\ Confirmed(call[c].kind) /\ UNCHANGED job
               /\ \/ /\ c = Updater /\ UNCHANGED <<queue, faults>>
                     /\ call'[c].at = "done" /\ call'[c].kind = call[c].kind /\ call'[c].got = call[c].got
                  \/ c # Updater /\ After(c) /\ Reply(c, Answer(c)) /\ UNCHANGED faults
                  \/ call[c].kind = "key" /\ Fault /\ Reply(c, "refused") /\ UNCHANGED queue
            \/ /\ UNCHANGED <<data, lost, acked, queue>>
               /\ CanWrite => Fault
               /\ \/ c = Updater /\ call'[c] = Idle /\ job' = NoJob
                  \/ c # Updater /\ Reply(c, "refused") /\ UNCHANGED job
<1> DEFINE new == Changed(call[c].kind, call[c].got)
<1> HIDE DEF new
<1>0. DaemonTypes /\ "done" \in CallSteps /\ Answer(c) \in {"none", "ok", "refused"}
  BY DEF Types, CallSteps, Answer
<1>1. call[c].at = "store" /\ UNCHANGED <<mem, mounted, overlay, temp, db, dkm, mode, crashes, interrupted, forgotten, unmarked>>
  BY DEF StoreRow
<1>2. CASE CanWrite /\ data' = [data EXCEPT ![mounted].rows.box = new]
           /\ lost' = (lost \/ mem.box # new) /\ Confirmed(call[c].kind) /\ UNCHANGED job
           /\ (\/ c = Updater /\ call' = [call EXCEPT ![c].at = "done"] /\ UNCHANGED <<queue, faults>>
               \/ c # Updater /\ After(c) /\ Reply(c, Answer(c)) /\ UNCHANGED faults
               \/ call[c].kind = "key" /\ Fault /\ Reply(c, "refused") /\ UNCHANGED queue)
  <2>1. CASE c = Updater /\ call' = [call EXCEPT ![c].at = "done"] /\ UNCHANGED <<queue, faults>>
    BY <1>0, <1>1, <1>2, <2>1, StepSet DEF new
  <2>2. CASE (c # Updater /\ After(c) /\ Reply(c, Answer(c)) /\ UNCHANGED faults)
             \/ (call[c].kind = "key" /\ Fault /\ Reply(c, "refused") /\ UNCHANGED queue)
    <3>1. \A d \in Parties : d # c => call'[d] = call[d]
      BY <1>0, <2>2, Replied
    <3> QED BY <1>1, <1>2, <2>2, <3>1 DEF new
  <2> QED BY <1>2, <2>1, <2>2
<1>3. CASE UNCHANGED <<data, lost, acked, queue>> /\ (IF CanWrite THEN Fault ELSE UNCHANGED faults)
           /\ (IF c = Updater THEN call' = [call EXCEPT ![c] = Idle] /\ job' = NoJob
                            ELSE Reply(c, "refused") /\ UNCHANGED job)
  <2>1. CASE c = Updater
    BY <1>0, <1>1, <1>3, <2>1, CallSet, BasicTypes
  <2>2. CASE c # Updater
    BY <1>0, <1>1, <1>3, <2>2, Replied
  <2> QED BY <2>1, <2>2
<1> QED BY <1>2, <1>3 DEF StoreRow, new

(* Saving the section changes that row of the mounted disk and nothing else  *)
(* on either disk.                                                           *)
LEMMA BoxWritten ==
  ASSUME DaemonTypes, NEW b \in Box, data' = [data EXCEPT ![mounted].rows.box = b]
  PROVE  /\ data'[mounted].rows.box = b /\ data'[mounted].rows.net = data[mounted].rows.net
         /\ data'[mounted].rows.src = data[mounted].rows.src
         /\ data'[mounted].tables = data[mounted].tables /\ data'[mounted].force = data[mounted].force
         /\ data'[mounted].booted = data[mounted].booted
         /\ \A d \in {"base", "device"} : d # mounted => data'[d] = data[d]
BY DEF DaemonTypes, Contents, RowsSet

(* Saving the network changes that row of the mounted disk and nothing else  *)
(* on either disk.                                                           *)
LEMMA NetWritten ==
  ASSUME DaemonTypes, NEW n \in Net, data' = [data EXCEPT ![mounted].rows.net = n]
  PROVE  /\ data'[mounted].rows.net = n /\ data'[mounted].rows.box = data[mounted].rows.box
         /\ data'[mounted].rows.src = data[mounted].rows.src
         /\ data'[mounted].tables = data[mounted].tables /\ data'[mounted].force = data[mounted].force
         /\ data'[mounted].booted = data[mounted].booted
         /\ \A d \in {"base", "device"} : d # mounted => data'[d] = data[d]
BY DEF DaemonTypes, Contents, RowsSet

(* Saving the source changes that row of the mounted disk and nothing else   *)
(* on either disk.                                                           *)
LEMMA SrcWritten ==
  ASSUME DaemonTypes, data' = [data EXCEPT ![mounted].rows.src = TRUE]
  PROVE  /\ data'[mounted].rows.net = data[mounted].rows.net /\ data'[mounted].rows.box = data[mounted].rows.box
         /\ data'[mounted].rows.src = TRUE
         /\ data'[mounted].tables = data[mounted].tables /\ data'[mounted].force = data[mounted].force
         /\ data'[mounted].booted = data[mounted].booted
         /\ \A d \in {"base", "device"} : d # mounted => data'[d] = data[d]
BY DEF DaemonTypes, Contents, RowsSet

(* What a handler queues after its write: the network's job, or a keymap's   *)
(* if its copy said the box was configured.                                  *)
LEMMA AfterQueue ==
  ASSUME DaemonTypes, NEW c, After(c), NEW k, Queued(k)'
  PROVE  \/ Queued(k)
         \/ k = "pending" /\ call[c].kind = "network"
         \/ k = "keymap" /\ call[c].kind = "keymap" /\ "configured" \in call[c].got.facts
<1>1. "pending" \in JobNames /\ "keymap" \in JobNames
  BY DEF JobNames
<1>2. CASE call[c].kind = "network"
  BY <1>1, <1>2, QueueFacts DEF After
<1>3. CASE call[c].kind = "keymap" /\ "configured" \in call[c].got.facts
  BY <1>1, <1>3, QueueFacts DEF After
<1>4. CASE call[c].kind # "network" /\ ~(call[c].kind = "keymap" /\ "configured" \in call[c].got.facts)
  BY <1>4, QueueFacts DEF After
<1> QED BY <1>2, <1>3, <1>4

(* Whoever is within a read-modify-write is changing the section in one of   *)
(* the ways of the code.                                                     *)
LEMMA KindsInFlight ==
  ASSUME Types, CallInv, NEW c \in Parties, InFlight(c)
  PROVE  call[c].kind \in Writes
<1>1. CASE c \in Clients
  BY <1>1 DEF CallInv, Writes
<1>2. CASE c = Updater
  <2>1. call[Updater].at # "idle"
    BY <1>2 DEF InFlight
  <2> QED BY <1>2, <2>1 DEF CallInv, Writes, Written
<1> QED BY <1>1, <1>2 DEF Parties

(* A read keeps the base invariant: while the process runs normally every    *)
(* copy of the section has the configured flag, for the memory and every     *)
(* section being assigned have it.                                           *)
LEMMA GetBase ==
  ASSUME Types, DaemonTypes', BaseInv, NEW c \in Parties, GetState(c)
  PROVE  BaseInv'
<1>0. DaemonTypes /\ UNCHANGED <<mem, data, mounted, overlay, temp, db, job, mode, queue, forgotten, unmarked>> /\ call[c].at = "get"
  BY GetEffect DEF Types, DaemonFrame
<1>1. PICK b \in Reads : call'[c].at = "assign" /\ call'[c].kind = call[c].kind /\ call'[c].got = b
  BY GetEffect
<1>2. \A d \in Parties : d # c => call'[d] = call[d]
  BY GetEffect
<1>3. CallInv'
  <2>1. \A d \in Parties : InFlight(d)' => InFlight(d) /\ call'[d].kind = call[d].kind
    BY <1>0, <1>1, <1>2 DEF InFlight
  <2>2. \A d \in Clients : (InFlight(d)' => call'[d].kind \in Written) /\ call'[d].at # "done"
    BY <2>1, <1>0, <1>1, <1>2 DEF BaseInv, CallInv, Parties
  <2>3. Running
    <3>1. Idle.at # "get"
      BY DEF Idle
    <3> QED BY <3>1, <1>0 DEF BaseInv, CallInv
  <2>4. Running'
    BY <2>3, <1>0 DEF Running
  <2>5. /\ call'[Updater].at # "connect"
        /\ call'[Updater].at # "idle" => call[Updater].at # "idle" /\ call'[Updater].kind = call[Updater].kind
    BY <1>0, <1>1, <1>2 DEF BaseInv, CallInv, Parties
  <2> QED BY <2>2, <2>4, <2>5, <1>0 DEF BaseInv, CallInv
<1>4. MoveInv'
  BY <1>0 DEF BaseInv, MoveInv
<1>5. ModeInv'
  <2>1. \A k : Queued(k)' <=> Queued(k)
    BY <1>0, QueueFacts
  <2>2. ASSUME mode = "normal" \/ mode = "leaving" PROVE "configured" \in b.facts
    <3>1. "configured" \in mem.box.facts
      BY <2>2 DEF BaseInv, ModeInv
    <3>2. ASSUME b # mem.box PROVE "configured" \in b.facts
      <4>1. PICK o \in Parties : LET ch == Changed(call[o].kind, call[o].got) IN
              /\ call[o].at = "assign"
              /\ \A f : f \in mem.box.facts /\ f \in ch.facts => f \in b.facts
        BY <3>2, ReadFacts
      <4>2. "configured" \in call[o].got.facts /\ call[o].kind \in Writes /\ call[o].got \in Box
        BY <4>1, <2>2, KindsInFlight DEF BaseInv, ModeInv, InFlight, Types, DaemonTypes, Calls
      <4>3. "configured" \in Changed(call[o].kind, call[o].got).facts
        BY <4>2, ChangedFacts
      <4> QED BY <3>1, <4>1, <4>3
    <3> QED BY <3>1, <3>2
  <2>3. \A d \in Parties : call'[d].at \in {"assign", "store"} => d = c \/ (call'[d] = call[d])
    BY <1>2
  <2> QED BY <1>0, <1>1, <2>1, <2>2, <2>3 DEF BaseInv, ModeInv, Recorded, Unwritten
<1> QED BY <1>3, <1>4, <1>5 DEF BaseInv

(* An assignment keeps the base invariant: no assignment removes the         *)
(* configured flag.                                                          *)
LEMMA AssignBase ==
  ASSUME Types, DaemonTypes', BaseInv, NEW c \in Parties, Assign(c)
  PROVE  BaseInv'
<1> DEFINE new == Changed(call[c].kind, call[c].got)
<1>0. DaemonTypes /\ UNCHANGED <<data, mounted, overlay, temp, db, job, mode, forgotten, unmarked>> /\ call[c].at = "assign"
      /\ \A d \in Parties : d # c => call'[d] = call[d]
  BY AssignEffect DEF Types
<1>1. call[c].kind \in Writes /\ call[c].got \in Box
  BY <1>0, KindsInFlight DEF InFlight, BaseInv, DaemonTypes, Calls
<1>2. "configured" \in new.facts <=> "configured" \in call[c].got.facts \/ call[c].kind = "configured"
  BY <1>1, ChangedFacts
<1>3. /\ call'[c].at \in {"idle", "done", "store"} /\ (c = Updater => call'[c].at # "idle")
      /\ call'[c].at # "idle" => call'[c].kind = call[c].kind /\ call'[c].got = call[c].got
      /\ call'[c].at = "done" => c = Updater
      /\ mem' = mem \/ (mem'.box = new /\ mem'.net = mem.net /\ mem'.src = mem.src)
  <2>1. Reply(c, Answer(c)) => call'[c].at = "idle"
    BY <1>0, Replied DEF Answer
  <2>2. mem' = [mem EXCEPT !.box = new] => mem'.box = new /\ mem'.net = mem.net /\ mem'.src = mem.src
    BY <1>0 DEF DaemonTypes, RowsSet
  <2> HIDE DEF new
  <2> QED BY <2>1, <2>2, AssignEffect DEF new
<1> HIDE DEF new
<1>4. \A k : Queued(k)' => Queued(k) \/ k \in {"pending", "keymap"}
  <2>1. CASE UNCHANGED queue
    BY <2>1, <1>0, QueueFacts
  <2>2. CASE After(c)
    BY <2>2, <1>0, AfterQueue
  <2> QED BY <2>1, <2>2, AssignEffect
<1>5. CallInv'
  <2>1. Running
    <3>1. Idle.at # "assign"
      BY DEF Idle
    <3> QED BY <3>1, <1>0 DEF BaseInv, CallInv
  <2>2. Running'
    BY <2>1, <1>0 DEF Running
  <2>3. \A d \in Clients : (InFlight(d)' => call'[d].kind \in Written) /\ call'[d].at # "done"
    BY <1>0, <1>3, UpdaterIsNoClient DEF BaseInv, CallInv, InFlight, Parties
  <2>4. /\ call'[Updater].at # "connect"
        /\ call'[Updater].at # "idle" => call[Updater].at # "idle" /\ call'[Updater].kind = call[Updater].kind
    BY <1>0, <1>3 DEF BaseInv, CallInv, Parties
  <2> QED BY <2>2, <2>3, <2>4, <1>0 DEF BaseInv, CallInv
<1>6. MoveInv'
  BY <1>0 DEF BaseInv, MoveInv
<1>7. ModeInv'
  BY <1>0, <1>2, <1>3, <1>4 DEF BaseInv, ModeInv, Recorded, Unwritten
<1> QED BY <1>5, <1>6, <1>7 DEF BaseInv

(* A save keeps the base invariant: the row it writes has the configured     *)
(* flag whenever the process runs normally.                                  *)
LEMMA StoreBase ==
  ASSUME Types, DaemonTypes', BaseInv, NEW c \in Parties, StoreRow(c)
  PROVE  BaseInv'
<1> DEFINE new == Changed(call[c].kind, call[c].got)
<1>0. DaemonTypes /\ UNCHANGED <<mem, mounted, overlay, temp, db, mode, forgotten, unmarked>> /\ call[c].at = "store"
      /\ \A d \in Parties : d # c => call'[d] = call[d]
  BY StoreEffect DEF Types
<1>1. call[c].kind \in Writes /\ call[c].got \in Box /\ new \in Box
  BY <1>0, KindsInFlight, ChangedType DEF InFlight, BaseInv, DaemonTypes, Calls
<1>2. "configured" \in new.facts <=> "configured" \in call[c].got.facts \/ call[c].kind = "configured"
  BY <1>1, ChangedFacts
<1>3. /\ call'[c].at \in {"idle", "done"} /\ (call'[c].at = "done" => c = Updater /\ call'[c].kind = call[c].kind)
      /\ job' = job \/ (c = Updater /\ job' = NoJob /\ call'[c].at = "idle")
  <2>1. Reply(c, Answer(c)) \/ Reply(c, "refused") => call'[c].at = "idle"
    BY <1>0, Replied DEF Answer
  <2>2. Idle.at = "idle"
    BY DEF Idle
  <2> QED BY <2>1, <2>2, StoreEffect
<1>4. \A k : Queued(k)' => Queued(k) \/ k \in {"pending", "keymap"}
  <2>1. CASE UNCHANGED queue
    BY <2>1, <1>0, QueueFacts
  <2>2. CASE After(c)
    BY <2>2, <1>0, AfterQueue
  <2> QED BY <2>1, <2>2, StoreEffect
<1>5. \/ data' = data
      \/ /\ CanWrite /\ data'[mounted].rows.box = new
         /\ data'[mounted].tables = data[mounted].tables /\ data'[mounted].force = data[mounted].force
         /\ data'[mounted].booted = data[mounted].booted
         /\ \A d \in {"base", "device"} : d # mounted => data'[d] = data[d]
  BY <1>0, <1>1, StoreEffect, BoxWritten
<1> HIDE DEF new
<1>6. CallInv'
  <2>1. Running
    <3>1. Idle.at # "store"
      BY DEF Idle
    <3> QED BY <3>1, <1>0 DEF BaseInv, CallInv
  <2>2. Running'
    BY <2>1, <1>0 DEF Running
  <2>3. \A d \in Clients : (InFlight(d)' => call'[d].kind \in Written) /\ call'[d].at # "done"
    BY <1>0, <1>3, UpdaterIsNoClient DEF BaseInv, CallInv, InFlight, Parties
  <2>4. /\ call'[Updater].at # "connect"
        /\ call'[Updater].at # "idle" =>
             job' = job /\ call[Updater].at # "idle" /\ call'[Updater].kind = call[Updater].kind
    BY <1>0, <1>3 DEF BaseInv, CallInv, Parties
  <2>5. NoJob.at = "none"
    BY DEF NoJob
  <2> QED BY <2>2, <2>3, <2>4, <2>5, <1>3 DEF BaseInv, CallInv
<1>7. MoveInv'
  <2>1. NoJob.at = "none"
    BY DEF NoJob
  <2>2. job.at \in {"copy", "overlay", "copyBack"} => data' = data
    BY <1>5 DEF BaseInv, MoveInv, CanWrite
  <2> QED BY <2>1, <2>2, <1>0, <1>3 DEF BaseInv, MoveInv
<1>8. ModeInv'
  <2>1. NoJob.at = "none"
    BY DEF NoJob
  <2>2. data[mounted]'.tables = data[mounted].tables /\ data[mounted]'.force = data[mounted].force
        /\ data[mounted]'.booted = data[mounted].booted
    BY <1>0, <1>5
  <2>3. Unwritten(data[mounted]) => Unwritten(data[mounted])'
    BY <1>0, <1>5 DEF Unwritten, Recorded, CanWrite
  <2>4. mode \in {"leaving", "normal"} => Recorded(data[mounted])'
    BY <1>0, <1>2, <1>5 DEF BaseInv, ModeInv, Recorded
  <2>5. Unwritten(temp)' <=> Unwritten(temp)
    BY <1>0 DEF Unwritten, Recorded
  <2>6. job'.at = job.at \/ job'.at = "none"
    BY <1>3, <2>1
  <2> QED BY <1>0, <1>3, <1>4, <2>2, <2>3, <2>4, <2>5, <2>6 DEF BaseInv, ModeInv, Bootstrapping, Connected
<1> QED BY <1>6, <1>7, <1>8 DEF BaseInv

(* Moving a job to its next step changes nothing else of it.                 *)
LEMMA GoEffect ==
  ASSUME DaemonTypes, NEW step, Go(step)
  PROVE  job'.at = step /\ job'.kind = job.kind /\ job'.storage = job.storage /\ job'.net = job.net
BY DEF DaemonTypes, Works, Go

(* The fields of the absent job, of an idle party and of the empty section.  *)
LEMMA NoJobIs ==
  NoJob.at = "none" /\ NoJob.storage = FALSE /\ NoJob.kind = "none" /\ Idle.at = "idle" /\ Idle.got = NoBox
  /\ Idle.kind = "none" /\ Idle.ans = "none" /\ NoBox.facts = {} /\ NoBox.storage = FALSE
BY DEF NoJob, Idle, NoBox

(* What TryConnect may change.                                               *)
SwapOutcome ==
  /\ mem'.box = mem.box /\ mem'.src = mem.src
  /\ mem'.net = mem.net \/ (mem'.net.current /\ ~mem'.net.pending)
  /\ \/ data' = data
     \/ /\ CanWrite /\ mem'.net.current /\ data'[mounted].rows.net = mem'.net
        /\ data'[mounted].rows.box = data[mounted].rows.box /\ data'[mounted].rows.src = data[mounted].rows.src
        /\ data'[mounted].tables = data[mounted].tables /\ data'[mounted].force = data[mounted].force
        /\ data'[mounted].booted = data[mounted].booted
        /\ \A d \in {"base", "device"} : d # mounted => data'[d] = data[d]

(* TryConnect leaves the configured flag, the source and the flag files      *)
(* alone, and when it saves, the network is the current one.                 *)
LEMMA SwapEffect ==
  ASSUME DaemonTypes, SwapNetwork \/ ConnectFails
  PROVE  /\ SwapOutcome
         /\ SwapNetwork => mem'.net.current /\ (CanWrite => data'[mounted].rows.net = mem'.net)
         /\ ConnectFails => data' = data /\ Fault
<1> DEFINE n == [pending |-> FALSE, current |-> TRUE]
<1>0. n \in Net /\ n.current = TRUE /\ n.pending = FALSE
  BY NewNet
<1> HIDE DEF n
<1>1. mem' = [mem EXCEPT !.net = n] => mem'.net = n /\ mem'.box = mem.box /\ mem'.src = mem.src
  BY DEF DaemonTypes, RowsSet
<1>2. CASE SwapNetwork
  <2>1. mem' = [mem EXCEPT !.net = n]
    BY <1>2 DEF SwapNetwork, n
  <2>2. mem'.net = n
    BY <1>1, <2>1
  <2>3. mem'.net \in Net
    BY <2>2, <1>0
  <2>4. CASE CanWrite
    <3>1. data' = [data EXCEPT ![mounted].rows.net = mem'.net]
      BY <1>2, <2>4 DEF SwapNetwork
    <3>2. /\ data'[mounted].rows.net = mem'.net /\ data'[mounted].rows.box = data[mounted].rows.box
          /\ data'[mounted].rows.src = data[mounted].rows.src
          /\ data'[mounted].tables = data[mounted].tables /\ data'[mounted].force = data[mounted].force
          /\ data'[mounted].booted = data[mounted].booted
          /\ \A d \in {"base", "device"} : d # mounted => data'[d] = data[d]
      BY <3>1, <2>3, NetWritten
    <3>3. ConnectFails => data' = data /\ Fault
      BY DEF ConnectFails
    <3> QED BY <1>0, <1>1, <2>1, <2>2, <2>4, <3>2, <3>3 DEF SwapOutcome
  <2>5. CASE ~CanWrite
    <3>1. data' = data
      BY <1>2, <2>5 DEF SwapNetwork
    <3>3. ConnectFails => data' = data /\ Fault
      BY DEF ConnectFails
    <3> QED BY <1>0, <1>1, <2>1, <2>2, <2>5, <3>1, <3>3 DEF SwapOutcome
  <2> QED BY <2>4, <2>5
<1>3. CASE ~SwapNetwork /\ ConnectFails
  <2>1. (mem' = mem \/ mem' = [mem EXCEPT !.net = n]) /\ data' = data /\ Fault
    BY <1>3 DEF ConnectFails, n
  <2> QED BY <1>0, <1>1, <1>3, <2>1 DEF SwapOutcome
<1> QED BY <1>2, <1>3

(* A job's own read-modify-write begins, or has ended and the job goes on or *)
(* is over.                                                                  *)
LEMMA ChangeEffect ==
  ASSUME Types, NEW step, NEW kind \in Kinds, NEW next, Change(step, kind, next)
  PROVE  /\ Running /\ job.at = step
         /\ UNCHANGED <<mem, data, mounted, overlay, temp, db, dkm, queue, mode, crashes, acked, lost, interrupted, forgotten, unmarked>>
         /\ \A c \in Parties : c # Updater => call'[c] = call[c]
         /\ \/ /\ call[Updater].at = "idle" /\ call'[Updater].at = "get" /\ call'[Updater].kind = kind
               /\ call'[Updater].got = NoBox /\ UNCHANGED <<job, faults>>
            \/ /\ call[Updater].at = "done" /\ call'[Updater] = Idle
               /\ \/ next = "end" /\ job' = NoJob /\ UNCHANGED faults
                  \/ next # "end" /\ Go(next) /\ UNCHANGED faults
                  \/ kind # "configured" /\ Fault /\ job' = NoJob
<1>0. Updater \in Parties /\ DaemonTypes
  BY DEF Parties, Types
<1>1. Running /\ job.at = step
      /\ UNCHANGED <<mem, data, mounted, overlay, temp, db, dkm, queue, mode, crashes, acked, lost, interrupted, forgotten, unmarked>>
  BY DEF Change, At, disks, history
<1>2. CASE /\ call[Updater].at = "idle"
           /\ call' = [call EXCEPT ![Updater] = [Idle EXCEPT !.at = "get", !.kind = kind]]
           /\ UNCHANGED <<job, faults>>
  <2>1. Proceed(Updater, kind)
    BY <1>2 DEF Proceed
  <2> QED BY <1>0, <1>1, <1>2, <2>1, Proceeded
<1>3. CASE /\ call[Updater].at = "done"
           /\ call' = [call EXCEPT ![Updater] = Idle]
           /\ \/ (IF next = "end" THEN job' = NoJob ELSE Go(next)) /\ UNCHANGED faults
              \/ kind # "configured" /\ Fault /\ job' = NoJob
  <2>1. call'[Updater] = Idle /\ \A c \in Parties : c # Updater => call'[c] = call[c]
    BY <1>0, <1>3, CallSet, BasicTypes
  <2> QED BY <1>1, <1>3, <2>1
<1> QED BY <1>2, <1>3 DEF Change

(* A step of the updater that touches neither requests nor the mode keeps    *)
(* CallInv, provided its next step is one the parties agree with.            *)
LEMMA JobStepBase ==
  ASSUME Types, BaseInv, DaemonTypes', Running, UNCHANGED <<call, mode>>,
         call[Updater].at = "idle",
         job'.at = "change" => job'.kind \in {"extra", "noExtra", "keymap"},
         job'.at \in {"close", "format"} => job'.storage
  PROVE  CallInv'
<1>1. \A c \in Clients : (InFlight(c)' => call'[c].kind \in Written) /\ call'[c].at # "done"
  BY DEF BaseInv, CallInv, InFlight
<1> QED BY <1>1 DEF BaseInv, CallInv, Running

(* The end of a connect request keeps the base invariant.                    *)
LEMMA ConnectBase ==
  ASSUME Types, DaemonTypes', BaseInv, NEW c \in Clients, Connect(c)
  PROVE  BaseInv'
<1>0. /\ DaemonTypes /\ c \in Parties /\ c # Updater /\ call[c].at = "connect"
      /\ UNCHANGED <<mounted, overlay, temp, db, dkm, queue, job, mode, crashes, forgotten, unmarked>>
  BY UpdaterIsNoClient DEF Connect, jobs, history, Types, Parties
<1>1. /\ \A d \in Parties : d # c => call'[d] = call[d]
      /\ call'[c].at = "idle"
  BY <1>0, Replied DEF Connect
<1>2. SwapOutcome
  BY <1>0, SwapEffect DEF Connect
<1>3. CallInv'
  <2>1. Running
    <3>1. Idle.at # "connect"
      BY NoJobIs
    <3> QED BY <3>1, <1>0 DEF BaseInv, CallInv
  <2>2. Running'
    BY <2>1, <1>0 DEF Running
  <2>3. \A d \in Clients : (InFlight(d)' => call'[d].kind \in Written) /\ call'[d].at # "done"
    BY <1>0, <1>1 DEF BaseInv, CallInv, InFlight, Parties
  <2>4. call'[Updater] = call[Updater]
    BY <1>0, <1>1 DEF Parties
  <2> QED BY <2>2, <2>3, <2>4, <1>0 DEF BaseInv, CallInv
<1>4. MoveInv'
  BY <1>0, <1>2 DEF SwapOutcome, BaseInv, MoveInv, CanWrite
<1>5. ModeInv'
  <2>1. \A k : Queued(k)' <=> Queued(k)
    BY <1>0, QueueFacts
  <2> QED BY <1>0, <1>1, <1>2, <2>1 DEF SwapOutcome, BaseInv, ModeInv, Recorded, Unwritten
<1> QED BY <1>3, <1>4, <1>5 DEF BaseInv

(* Taking a job keeps the base invariant.                                    *)
LEMMA TakeJobBase ==
  ASSUME Types, DaemonTypes', BaseInv, TakeJob
  PROVE  BaseInv'
<1>0. /\ DaemonTypes /\ Running /\ job = NoJob /\ queue # <<>> /\ queue' = Tail(queue)
      /\ UNCHANGED <<mem, data, mounted, overlay, temp, db, dkm, call, mode, forgotten, unmarked>>
  BY DEF TakeJob, disks, history, Types
<1>1. /\ Head(queue) \in JobNames /\ Queued(Head(queue)) /\ \A k : Queued(k)' => Queued(k)
  BY <1>0, QueueFacts DEF DaemonTypes
<1>2. job'.kind = Head(queue) /\ job'.at = FirstStep(Head(queue)) /\ job'.storage = FALSE
  BY DEF TakeJob, NoJob
<1>3. /\ job'.at \in {"bootstrap", "pending", "change"}
      /\ job'.at = "bootstrap" => Queued("bootstrap")
      /\ job'.at = "change" => job'.kind \in {"extra", "noExtra", "keymap"}
  BY <1>1, <1>2 DEF FirstStep, JobNames, JobKinds
<1>4. call[Updater].at = "idle"
  BY <1>0, NoJobIs DEF BaseInv, CallInv
<1>5. CallInv'
  BY <1>0, <1>3, <1>4, JobStepBase
<1>6. MoveInv'
  BY <1>0, <1>3 DEF BaseInv, MoveInv
<1>7. ModeInv'
  BY <1>0, <1>1, <1>3 DEF BaseInv, ModeInv, Recorded, Unwritten, Bootstrapping, Connected
<1> QED BY <1>5, <1>6, <1>7 DEF BaseInv

(* The job of set-pending keeps the base invariant.                          *)
LEMMA PendingBase ==
  ASSUME Types, DaemonTypes', BaseInv, SetPendingNetwork
  PROVE  BaseInv'
<1>0. /\ DaemonTypes /\ Running /\ job.at \in {"pending", "pend"}
      /\ UNCHANGED <<mounted, overlay, temp, db, dkm, call, queue, mode, crashes, forgotten, unmarked>>
  BY DEF SetPendingNetwork, At, history, Types
<1>1. /\ job'.at \in {"pend", "none"} /\ (job'.at # "none" => UNCHANGED <<mem, data>>)
      /\ mem'.box = mem.box
      /\ \/ data' = data
         \/ /\ CanWrite /\ data'[mounted].rows.box = data[mounted].rows.box
            /\ data'[mounted].tables = data[mounted].tables /\ data'[mounted].force = data[mounted].force
            /\ data'[mounted].booted = data[mounted].booted
            /\ \A d \in {"base", "device"} : d # mounted => data'[d] = data[d]
  <2>1. CASE job.at = "pending"
    <3>1. UNCHANGED <<mem, data>> /\ (job' = NoJob \/ job' = [job EXCEPT !.at = "pend", !.net = mem.net])
      BY <2>1 DEF SetPendingNetwork, At
    <3>2. job'.at \in {"pend", "none"}
      BY <3>1, <1>0, NoJobIs DEF DaemonTypes, Works
    <3> QED BY <3>1, <3>2
  <2>2. CASE job.at = "pend"
    <3>1. job' = NoJob /\ mem' = [mem EXCEPT !.net = [job.net EXCEPT !.pending = TRUE]]
          /\ data' = IF CanWrite THEN [data EXCEPT ![mounted].rows.net = mem'.net] ELSE data
      BY <2>2 DEF SetPendingNetwork, At
    <3>2. mem'.box = mem.box /\ mem'.net \in Net
      BY <3>1, <1>0 DEF DaemonTypes, RowsSet
    <3>3. CASE CanWrite
      <4>1. data' = [data EXCEPT ![mounted].rows.net = mem'.net]
        BY <3>1, <3>3
      <4>2. /\ data'[mounted].rows.box = data[mounted].rows.box
            /\ data'[mounted].tables = data[mounted].tables /\ data'[mounted].force = data[mounted].force
            /\ data'[mounted].booted = data[mounted].booted
            /\ \A d \in {"base", "device"} : d # mounted => data'[d] = data[d]
        BY <4>1, <3>2, <1>0, NetWritten
      <4> QED BY <3>1, <3>2, <3>3, <4>2, NoJobIs
    <3>4. CASE ~CanWrite
      BY <3>1, <3>2, <3>4, NoJobIs
    <3> QED BY <3>3, <3>4
  <2> QED BY <2>1, <2>2, <1>0
<1>2. call[Updater].at = "idle"
  BY <1>0 DEF BaseInv, CallInv
<1>3. CallInv'
  BY <1>0, <1>1, <1>2, JobStepBase
<1>4. MoveInv'
  BY <1>0, <1>1 DEF BaseInv, MoveInv
<1>5. ModeInv'
  <2>1. \A k : Queued(k)' <=> Queued(k)
    BY <1>0, QueueFacts
  <2> QED BY <1>0, <1>1, <2>1 DEF BaseInv, ModeInv, Recorded, Unwritten, Bootstrapping, Connected
<1> QED BY <1>3, <1>4, <1>5 DEF BaseInv

(* The jobs that change the section keep the base invariant.                 *)
LEMMA ChangeBase ==
  ASSUME Types, DaemonTypes', BaseInv, SmallJob \/ Change("extra", "extra", "finish") \/ Finish
  PROVE  BaseInv'
<1>0. DaemonTypes /\ job.kind \in Kinds
  BY StepNames DEF Types, DaemonTypes, Works
<1>1. /\ Running /\ job.at \in {"change", "extra", "finish"}
      /\ UNCHANGED <<mem, data, mounted, overlay, temp, db, dkm, queue, mode, forgotten, unmarked>>
      /\ \A c \in Parties : c # Updater => call'[c] = call[c]
      /\ \/ /\ call'[Updater].at = "get" /\ job' = job
            /\ call'[Updater].kind = IF job.at = "change" THEN job.kind ELSE IF job.at = "extra" THEN "extra" ELSE "configured"
         \/ /\ call'[Updater] = Idle
            /\ \/ job' = NoJob
               \/ job.at = "extra" /\ job'.at = "finish"
               \/ job.at = "finish" /\ job'.at = "reboot"
  <2>1. CASE SmallJob
    BY <1>0, <2>1, ChangeEffect DEF SmallJob
  <2>2. CASE Change("extra", "extra", "finish")
    BY <1>0, <2>2, ChangeEffect, GoEffect, StepNames
  <2>3. CASE Finish
    BY <1>0, <2>3, ChangeEffect, GoEffect, StepNames DEF Finish
  <2> QED BY <2>1, <2>2, <2>3
<1>2. Updater \in Parties /\ \A d \in Clients : d # Updater /\ d \in Parties
  BY UpdaterIsNoClient DEF Parties
<1>3. CallInv'
  <2>1. \A d \in Clients : (InFlight(d)' => call'[d].kind \in Written) /\ call'[d].at # "done"
    BY <1>1, <1>2 DEF BaseInv, CallInv, InFlight
  <2> QED BY <1>1, <2>1, NoJobIs DEF BaseInv, CallInv, Running
<1>4. MoveInv'
  BY <1>1, NoJobIs DEF BaseInv, MoveInv
<1>5. ModeInv'
  <2>1. \A k : Queued(k)' <=> Queued(k)
    BY <1>0, <1>1, QueueFacts
  <2>2. \A c \in Parties : call'[c].at \in {"assign", "store"} => call'[c] = call[c]
    BY <1>1, NoJobIs
  <2> QED BY <1>1, <2>1, <2>2, NoJobIs DEF BaseInv, ModeInv, Recorded, Unwritten, Bootstrapping, Connected
<1> QED BY <1>3, <1>4, <1>5 DEF BaseInv

(* The bootstrap's steps outside the move keep the base invariant.           *)
LEMMA BootstrapBase ==
  ASSUME Types, DaemonTypes', BaseInv,
         Bootstrap \/ TryConnect \/ InitSystem \/ CloseDB \/ AddSource \/ Choose("extras", {"extra", "finish"})
  PROVE  BaseInv'
<1>0. /\ DaemonTypes /\ Running /\ UNCHANGED <<mounted, overlay, temp, dkm, call, queue, mode, forgotten, unmarked>>
      /\ job.at \in {"bootstrap", "connect", "init", "close", "source", "extras"}
  BY DEF Bootstrap, TryConnect, InitSystem, CloseDB, AddSource, Choose, At, disks, history, Types
<1>1. call[Updater].at = "idle" /\ mode = "recovery"
  BY <1>0 DEF BaseInv, CallInv, ModeInv, Bootstrapping, Connected
<1>2. /\ job'.at \in {"none", "connect", "init", "close", "format", "source", "extras", "extra", "finish"}
      /\ job'.at \in {"close", "format"} => job'.storage
      /\ job'.at = "format" => ~db'
      /\ job'.at # "format" => db' = db
  <2>1. CASE Bootstrap
    <3>1. job' = NoJob \/ job' = [job EXCEPT !.at = "connect", !.storage = mem.box.storage]
      BY <2>1 DEF Bootstrap
    <3>2. job'.at \in {"none", "connect"}
      BY <3>1, <1>0, NoJobIs DEF DaemonTypes, Works
    <3> QED BY <3>2, <2>1 DEF Bootstrap, disks
  <2>2. CASE TryConnect
    BY <2>2, <1>0, GoEffect, NoJobIs DEF TryConnect
  <2>3. CASE InitSystem
    BY <2>3, <1>0, GoEffect, NoJobIs DEF InitSystem, disks
  <2>4. CASE CloseDB
    BY <2>4, <1>0, GoEffect DEF CloseDB, At, BaseInv, CallInv
  <2>5. CASE AddSource
    BY <2>5, <1>0, GoEffect, NoJobIs DEF AddSource
  <2>6. CASE Choose("extras", {"extra", "finish"})
    BY <2>6, <1>0, GoEffect DEF Choose, disks
  <2> QED BY <2>1, <2>2, <2>3, <2>4, <2>5, <2>6
<1>3. /\ mem'.box = mem.box
      /\ \/ data' = data
         \/ /\ CanWrite /\ data'[mounted].rows.box = data[mounted].rows.box
            /\ data'[mounted].tables = data[mounted].tables /\ data'[mounted].force = data[mounted].force
            /\ data'[mounted].booted = data[mounted].booted
            /\ \A d \in {"base", "device"} : d # mounted => data'[d] = data[d]
  <2>1. CASE Bootstrap \/ InitSystem \/ CloseDB \/ Choose("extras", {"extra", "finish"})
    BY <2>1 DEF Bootstrap, InitSystem, CloseDB, Choose, disks
  <2>2. CASE TryConnect
    BY <2>2, <1>0, SwapEffect DEF TryConnect, SwapOutcome
  <2>3. CASE AddSource
    <3>1. mem'.box = mem.box
      BY <2>3, <1>0 DEF AddSource, DaemonTypes, RowsSet
    <3>2. data' = data \/ (CanWrite /\ data' = [data EXCEPT ![mounted].rows.src = TRUE])
      BY <2>3 DEF AddSource
    <3> QED BY <3>1, <3>2, <1>0, SrcWritten
  <2> QED BY <2>1, <2>2, <2>3
<1>4. CallInv'
  BY <1>0, <1>1, <1>2, JobStepBase
<1>5. MoveInv'
  BY <1>0, <1>2 DEF BaseInv, MoveInv
<1>6. ModeInv'
  <2>1. \A k : Queued(k)' <=> Queued(k)
    BY <1>0, QueueFacts
  <2> QED BY <1>0, <1>1, <1>2, <1>3, <2>1 DEF BaseInv, ModeInv, Recorded, Unwritten, CanWrite
<1> QED BY <1>4, <1>5, <1>6 DEF BaseInv

(* The move of the data directory keeps the base invariant: the database     *)
(* stays closed while its file moves, the device is empty until the copy     *)
(* back, and the copy carries the file that says the box booted in recovery. *)
LEMMA MoveBase ==
  ASSUME Types, DaemonTypes', BaseInv,
         InitStorageDevice \/ CopyOut \/ ApplyOverlay \/ CopyBack \/ Reoverlay
  PROVE  BaseInv'
<1>0. /\ DaemonTypes /\ Running /\ UNCHANGED <<mem, dkm, call, queue, mode, forgotten, unmarked>>
      /\ job.at \in {"format", "copy", "overlay", "copyBack", "reoverlay"}
  BY DEF InitStorageDevice, CopyOut, ApplyOverlay, CopyBack, Reoverlay, At, history, Types
<1>1. call[Updater].at = "idle" /\ mode = "recovery" /\ ~db
  BY <1>0 DEF BaseInv, CallInv, ModeInv, MoveInv, Bootstrapping, Connected
<1>2. job'.at \in {"none", "copy", "overlay", "copyBack", "reoverlay", "source"}
  BY <1>0, GoEffect, NoJobIs DEF InitStorageDevice, CopyOut, ApplyOverlay, CopyBack, Reoverlay, Failed
<1>3. CallInv'
  BY <1>0, <1>1, <1>2, JobStepBase
<1>4. \A k : Queued(k)' <=> Queued(k)
  BY <1>0, QueueFacts
<1>5. Empty.tables = FALSE /\ Empty.booted = FALSE /\ Unwritten(Empty) /\ mounted \in {"base", "device"}
  BY <1>0, NoJobIs DEF Empty, Unwritten, Recorded, Fresh, DaemonTypes
<1>6. CASE InitStorageDevice
  <2>1. UNCHANGED <<mounted, overlay, temp>> /\ (job'.at = "none" \/ (job'.at = "copy" /\ db' = db))
    BY <1>6, <1>0, GoEffect, NoJobIs DEF InitStorageDevice, Failed
  <2>2. data' = data \/ (mounted # "device" /\ data' = [data EXCEPT !["device"] = Empty])
    BY <1>6, <1>0 DEF InitStorageDevice, DaemonTypes
  <2>3. data'[mounted] = data[mounted] /\ (data' = data \/ data'["device"] = Empty)
    BY <2>2, <1>0, <1>5 DEF DaemonTypes
  <2>4. job'.at = "copy" => mounted = "base" /\ data'["device"] = Empty
    <3>1. CASE job'.at = "copy"
      <4>1. data' = [data EXCEPT !["device"] = Empty] /\ mounted # "device"
        BY <1>6, <1>0, <3>1, NoJobIs DEF InitStorageDevice, Failed
      <4> QED BY <4>1, <1>0, <1>5 DEF DaemonTypes
    <3> QED BY <3>1
  <2>5. MoveInv'
    BY <2>1, <2>3, <2>4, <1>1 DEF BaseInv, MoveInv
  <2>6. ModeInv'
    BY <2>1, <2>3, <1>0, <1>1, <1>2, <1>4 DEF BaseInv, ModeInv, Recorded, Unwritten
  <2> QED BY <2>5, <2>6, <1>3 DEF BaseInv
<1>7. CASE CopyOut
  <2>1. /\ UNCHANGED <<mounted, overlay, data>>
        /\ job'.at = "none" \/ (job'.at = "overlay" /\ db' = db /\ temp' = data[mounted] /\ job.at = "copy")
    BY <1>7, <1>0, GoEffect, NoJobIs DEF CopyOut, Failed, At
  <2>2. MoveInv'
    BY <2>1, <1>1 DEF BaseInv, MoveInv
  <2>3. ModeInv'
    BY <2>1, <1>0, <1>1, <1>2, <1>4 DEF BaseInv, ModeInv, Recorded, Unwritten
  <2> QED BY <2>2, <2>3, <1>3 DEF BaseInv
<1>8. CASE ApplyOverlay
  <2>1. /\ UNCHANGED <<data, temp>> /\ job.at = "overlay"
        /\ \/ job'.at = "none" /\ UNCHANGED <<mounted, overlay>>
           \/ job'.at = "copyBack" /\ db' = db /\ mounted' = "device" /\ overlay' = TRUE
    BY <1>8, <1>0, GoEffect, NoJobIs DEF ApplyOverlay, Failed, At
  <2>2. MoveInv'
    BY <2>1, <1>1 DEF BaseInv, MoveInv
  <2>3. ModeInv'
    BY <2>1, <1>0, <1>1, <1>2, <1>4, <1>5 DEF BaseInv, ModeInv, MoveInv, Recorded, Unwritten
  <2> QED BY <2>2, <2>3, <1>3 DEF BaseInv
<1>9. CASE CopyBack
  <2>1. /\ UNCHANGED <<mounted, overlay>> /\ job.at = "copyBack"
        /\ \/ job'.at = "none" /\ data' = data
           \/ /\ job'.at = "reoverlay" /\ db' = db
              /\ data' = [data EXCEPT !["device"] = [temp EXCEPT !.force = @ \/ data.device.force]]
    BY <1>9, <1>0, GoEffect, NoJobIs DEF CopyBack, Failed, At
  <2>2. data' = data \/ (data'["device"].rows = temp.rows /\ data'["device"].tables = temp.tables
                         /\ data'["device"].booted = temp.booted)
    BY <2>1, <1>0 DEF DaemonTypes, Contents
  <2>3. mounted = "device"
    BY <2>1 DEF BaseInv, MoveInv
  <2>4. MoveInv'
    BY <2>1, <1>1 DEF BaseInv, MoveInv
  <2>5. ModeInv'
    BY <2>1, <2>2, <2>3, <1>0, <1>1, <1>2, <1>4 DEF BaseInv, ModeInv, Recorded, Unwritten
  <2> QED BY <2>4, <2>5, <1>3 DEF BaseInv
<1>10. CASE Reoverlay
  <2>1. UNCHANGED <<mounted, overlay, data, temp>> /\ job'.at \in {"none", "source"}
    BY <1>10, <1>0, GoEffect, NoJobIs DEF Reoverlay, Failed
  <2>2. MoveInv'
    BY <2>1 DEF BaseInv, MoveInv
  <2>3. ModeInv'
    BY <2>1, <1>0, <1>1, <1>2, <1>4 DEF BaseInv, ModeInv, Recorded, Unwritten
  <2> QED BY <2>2, <2>3, <1>3 DEF BaseInv
<1> QED BY <1>6, <1>7, <1>8, <1>9, <1>10

(* What the start of the process reads, decides and writes.                  *)
LEMMA Started ==
  ASSUME DaemonTypes, Start
  PROVE  /\ mode = "down" /\ mounted' = (IF overlay THEN "device" ELSE "base") /\ db' = TRUE
         /\ mem'.box = data[mounted'].rows.box /\ mem'.net = Fresh.net /\ mem'.src = data[mounted'].rows.src
         /\ mode' \in {"entering", "leaving"} \/ (mode' = "recovery" /\ unmarked')
         /\ mode' = "leaving" => Recorded(data[mounted']) /\ ~data[mounted'].force /\ ~data'[mounted'].force
         /\ data'[mounted'].rows = data[mounted'].rows /\ data'[mounted'].tables
         /\ data'[mounted'].booted = data[mounted'].booted
         /\ \A d \in {"base", "device"} : d # mounted' => data'[d] = data[d]
         /\ forgotten' = (forgotten \/ data[mounted'].rows.net.current)
         /\ Fault \/ UNCHANGED faults
         /\ UNCHANGED <<overlay, temp, dkm, call, queue, job, crashes, acked, lost, interrupted>>
<1> DEFINE m == IF overlay THEN "device" ELSE "base"
<1>1. /\ mode = "down" /\ mounted' = m /\ db' = TRUE /\ mem' = Loaded(data[m].rows)
      /\ forgotten' = (forgotten \/ data[m].rows.net.current)
      /\ \/ /\ mode' \in {"entering", "leaving"} /\ UNCHANGED faults
            /\ mode' = "leaving" => Recorded(data[m]) /\ ~data[m].force
            /\ data' = [data EXCEPT ![m].tables = TRUE, ![m].force = FALSE]
         \/ mode' = "recovery" /\ unmarked' /\ Fault /\ data' = [data EXCEPT ![m].tables = TRUE]
      /\ UNCHANGED <<overlay, temp, dkm, call, queue, job, crashes, acked, lost, interrupted>>
  BY DEF Start, ShouldEnterRecovery, Recorded, jobs
<1>2. m \in {"base", "device"}
  OBVIOUS
<1> HIDE DEF m
<1>3. /\ data'[m].rows = data[m].rows /\ data'[m].tables /\ (mode' = "leaving" => ~data'[m].force)
      /\ data'[m].booted = data[m].booted
      /\ \A d \in {"base", "device"} : d # m => data'[d] = data[d]
  BY <1>1, <1>2 DEF DaemonTypes, Contents
<1>4. mounted' = (IF overlay THEN "device" ELSE "base")
  BY <1>1 DEF m
<1>5. mem'.box = data[m].rows.box /\ mem'.net = Fresh.net /\ mem'.src = data[m].rows.src
  <2>1. data[m].rows \in RowsSet
    BY <1>2 DEF DaemonTypes, Contents
  <2> QED BY <2>1, <1>1 DEF Loaded, RowsSet
<1> QED BY <1>1, <1>3, <1>4, <1>5

(* A boot keeps the base invariant: the mode it decides agrees with the rows *)
(* it read, and the file is written before the mode is entered, or that is   *)
(* marked as failed.                                                         *)
LEMMA BootBase ==
  ASSUME Types, DaemonTypes', BaseInv, Boot
  PROVE  BaseInv'
<1>0. DaemonTypes
  BY DEF Types
<1>1. ~Running /\ UNCHANGED <<call, queue, job, overlay, temp>>
  BY <1>0, Started DEF Boot, DidEnterRecovery, UnforceRecovery, Running, jobs
<1>2. queue = <<>> /\ job = NoJob /\ \A c \in Parties : call[c] = Idle
  BY <1>1 DEF BaseInv, CallInv
<1>3. Clients \subseteq Parties /\ Updater \in Parties
  BY DEF Parties
<1>4. CallInv'
  <2>1. \A c \in Parties : call'[c].at = "idle"
    BY <1>1, <1>2, NoJobIs
  <2>2. \A c \in Clients : ~InFlight(c)' /\ call'[c].at # "done"
    BY <2>1, <1>3 DEF InFlight
  <2> QED BY <1>1, <1>2, <1>3, <2>1, <2>2, NoJobIs DEF CallInv
<1>5. \A k : ~Queued(k)'
  BY <1>0, <1>1, <1>2, QueueFacts
<1>6. job'.at = "none" /\ \A c \in Parties : call'[c].at = "idle"
  BY <1>1, <1>2, NoJobIs
<1>7. CASE Start
  <2>1. MoveInv'
    BY <1>0, <1>1, <1>6, <1>7, Started DEF MoveInv
  <2>2. ModeInv'
    <3>1. mode' = "leaving" => /\ "configured" \in mem'.box.facts /\ Recorded(data[mounted])'
                               /\ ~data'[mounted'].force
      BY <1>0, <1>7, Started DEF Recorded
    <3>2. mode' \in {"entering", "leaving"} \/ (mode' = "recovery" /\ unmarked')
      BY <1>0, <1>7, Started
    <3> QED BY <1>5, <1>6, <3>1, <3>2 DEF ModeInv, Bootstrapping, Connected
  <2> QED BY <2>1, <2>2, <1>4 DEF BaseInv
<1>8. CASE DidEnterRecovery
  <2>1. UNCHANGED <<mounted, overlay>> /\ mode' = "recovery"
        /\ (data' = [data EXCEPT ![mounted].booted = TRUE] \/ unmarked')
    BY <1>8 DEF DidEnterRecovery
  <2>2. data'[mounted'].booted = TRUE \/ unmarked'
    BY <2>1, <1>0 DEF DaemonTypes, Contents
  <2>3. MoveInv'
    BY <1>6, <2>1 DEF BaseInv, MoveInv
  <2>4. ModeInv'
    BY <1>5, <1>6, <2>1, <2>2 DEF ModeInv, Bootstrapping, Connected
  <2> QED BY <2>3, <2>4, <1>4 DEF BaseInv
<1>9. CASE UnforceRecovery
  <2>1. UNCHANGED <<mem, mounted, overlay>> /\ mode = "leaving" /\ mode' = "normal"
        /\ (data' = [data EXCEPT ![mounted].booted = FALSE] \/ (unmarked' /\ data' = data))
    BY <1>9 DEF UnforceRecovery
  <2>2. (data'[mounted].booted = FALSE \/ unmarked') /\ data'[mounted].rows = data[mounted].rows
        /\ data'[mounted].force = data[mounted].force
    BY <2>1, <1>0 DEF DaemonTypes, Contents
  <2>3. MoveInv'
    BY <1>6, <2>1 DEF BaseInv, MoveInv
  <2>4. ModeInv'
    BY <1>5, <1>6, <2>1, <2>2 DEF BaseInv, ModeInv, Bootstrapping, Connected, Recorded
  <2> QED BY <2>3, <2>4, <1>4 DEF BaseInv
<1> QED BY <1>7, <1>8, <1>9 DEF Boot

(* Every step of the daemon keeps the base invariant.                        *)
LEMMA SystemBase ==
  ASSUME Types, DaemonTypes', BaseInv, System
  PROVE  BaseInv'
<1>1. ASSUME NEW c \in Parties, Handler(c) PROVE BaseInv'
  BY <1>1, GetBase, AssignBase, StoreBase DEF Handler
<1>2. ASSUME NEW c \in Clients, Connect(c) PROVE BaseInv'
  BY <1>2, ConnectBase
<1>3. CASE Reboot \/ Crash \/ EnterRecovery
  <2>1. Stop /\ UNCHANGED <<mounted, overlay, temp, db>> /\ (UNCHANGED data \/ EnterRecovery)
    BY <1>3 DEF Reboot, Crash, EnterRecovery, disks
  <2> QED BY <2>1, StopBase DEF Types
<1>4. CASE UpdaterStep
  BY <1>3, <1>4, TakeJobBase, ChangeBase, PendingBase, BootstrapBase, MoveBase DEF UpdaterStep, Extras
<1>5. CASE Boot
  BY <1>5, BootBase
<1> QED BY <1>1, <1>2, <1>3, <1>4, <1>5 DEF System

(* The wizard reading its answer keeps the base invariant.                   *)
LEMMA CollectBase ==
  ASSUME Types, DaemonTypes', BaseInv, call[Wizard].at = "idle", Collect, DaemonFrame, UNCHANGED queue
  PROVE  BaseInv'
<1>0. /\ DaemonTypes /\ Wizard \in Parties /\ Wizard # Updater
      /\ UNCHANGED <<mem, data, mounted, overlay, temp, db, job, mode, forgotten, unmarked>>
  BY WizardAndPanel, UpdaterIsNoClient DEF Types, Parties, DaemonFrame
<1>1. call'[Wizard] = Idle /\ \A d \in Parties : d # Wizard => call'[d] = call[d]
  BY <1>0, CollectedCall
<1>2. CallInv'
  <2>1. \A d \in Clients : (InFlight(d)' => call'[d].kind \in Written) /\ call'[d].at # "done"
    BY <1>0, <1>1, NoJobIs DEF BaseInv, CallInv, InFlight, Parties
  <2>2. call'[Updater] = call[Updater] /\ \A d \in Parties : call[d] = Idle => call'[d] = Idle
    BY <1>0, <1>1 DEF Parties
  <2> QED BY <1>0, <2>1, <2>2 DEF BaseInv, CallInv, Running
<1>3. MoveInv'
  BY <1>0 DEF BaseInv, MoveInv
<1>4. ModeInv'
  <2>1. \A k : Queued(k)' <=> Queued(k)
    BY <1>0, QueueFacts
  <2>2. \A d \in Parties : call'[d].at \in {"assign", "store"} => call'[d] = call[d]
    BY <1>1, NoJobIs
  <2> QED BY <1>0, <2>1, <2>2 DEF BaseInv, ModeInv, Recorded, Unwritten
<1> QED BY <1>2, <1>3, <1>4 DEF BaseInv

(* Every step keeps the base invariant.                                      *)
LEMMA NextBase ==
  ASSUME Types, Types', BaseInv, [Next]_wizVars
  PROVE  BaseInv'
<1>0. DaemonTypes'
  BY DEF Types
<1>1. CASE UNCHANGED vars
  BY <1>1 DEF vars, BaseInv, CallInv, MoveInv, ModeInv, InFlight, Running, Queued, Recorded, Unwritten
<1> QED BY <1>0, <1>1, StepsOfSpec, RequestBase, SystemBase, CollectBase

(* The base invariant holds when the box is first started.                   *)
LEMMA InitBase ==
  ASSUME WizInit
  PROVE  BaseInv
<1>1. Types
  BY InitType
<1>2. /\ mounted = "base" /\ overlay = FALSE /\ db = TRUE /\ queue = <<>> /\ job = NoJob /\ mode = "recovery"
      /\ call = [c \in Parties |-> Idle]
      /\ data["base"] = [Empty EXCEPT !.tables = TRUE, !.booted = TRUE]
  BY DEF WizInit, Init
<1>3. data["base"].booted = TRUE
  BY <1>2 DEF Empty
<1>4. CallInv
  BY <1>2, NoJobIs DEF CallInv, InFlight, Running, Parties
<1>5. \A k : ~Queued(k)
  BY <1>2 DEF Queued
<1> QED BY <1>2, <1>3, <1>4, <1>5, NoJobIs DEF BaseInv, MoveInv, ModeInv, Bootstrapping, Connected

(* Who does what, how far the data directory has moved, and what the mode    *)
(* says of the rows: the invariant every later theorem rests on.             *)
THEOREM BaseHolds == Spec => []BaseInv
<1>1. ASSUME Types, Types', BaseInv, [Next]_wizVars PROVE BaseInv'
  BY <1>1, NextBase
<1> QED BY <1>1, InitBase, TypesHold, PTL DEF Spec

(* IsRecoveryMode, asked by another process of the rows and the flag files,  *)
(* agrees with the mode the daemon runs in; even after the bootstrap that is *)
(* about to reboot, and through the move to another disk                     *)
(* (pkg/system/recovery.go).  The start that could not write or remove those *)
(* files is excepted: main logs the error and goes on.                       *)
THEOREM ModesAgree == Spec => []ModeAgrees
<1>1. BaseInv => ModeAgrees
  <2> SUFFICES ASSUME BaseInv PROVE ModeAgrees
    OBVIOUS
  <2>1. mode = "recovery" => data[mounted].booted \/ ~Recorded(data[mounted]) \/ unmarked
    BY DEF BaseInv, ModeInv, Unwritten
  <2>2. mode = "normal" => Recorded(data[mounted]) /\ ~data[mounted].force /\ (~data[mounted].booted \/ unmarked)
    BY DEF BaseInv, ModeInv
  <2> QED BY <2>1, <2>2 DEF ModeAgrees, IsRecoveryMode, ShouldEnterRecovery, Recorded
<1> QED BY <1>1, BaseHolds, PTL

-----------------------------------------------------------------------------
(* A party that stays outside of its write, or as it is, is not about to     *)
(* write the configured flag unless it was.                                  *)
LEMMA HoldingSame ==
  ASSUME NEW c, call'[c] = call[c] \/ call'[c].at \notin {"assign", "store"}, Holding(c)'
  PROVE  Holding(c)
BY DEF Holding

(* A step that leaves memory, disks and copy alone keeps ConfiguredInv if    *)
(* nobody newly holds the configured flag and the job goes on where it was   *)
(* or outside the bootstrap.                                                 *)
LEMMA ConfiguredFrame ==
  ASSUME ConfiguredInv, UNCHANGED <<mem, data, mounted, temp, mode, lost, forgotten>>,
         \/ job' = job
         \/ job'.at \notin Connected \cup {"connect", "pend"}
         \/ job'.at = job.at /\ job'.net = job.net,
         \A d \in Parties : Holding(d)' => Holding(d)
  PROVE  ConfiguredInv'
<1>1. Moving' => Moving
  BY DEF Moving, Connected
<1>2. Known' => Known
  BY <1>1 DEF Known, Recorded
<1>4. job'.at \in Connected \cup {"connect", "pend"} => job'.at = job.at /\ (job.at = "pend" => job'.net = job.net)
  OBVIOUS
<1>5. DisksEntire'
  BY DEF ConfiguredInv, DisksEntire, Recorded, Entire, Wired
<1>6. TempEntire'
  BY <1>1 DEF ConfiguredInv, TempEntire, Recorded, Entire, Wired
<1>7. KnownWired'
  BY <1>1, <1>2, <1>4 DEF ConfiguredInv, KnownWired, Wired
<1>8. NetSaved'
  BY <1>1, <1>4 DEF ConfiguredInv, NetSaved
<1>9. SourceSaved'
  BY <1>4 DEF ConfiguredInv, SourceSaved, Connected
<1>10. FlagsKept'
  BY <1>4 DEF ConfiguredInv, FlagsKept
<1> QED BY <1>5, <1>6, <1>7, <1>8, <1>9, <1>10 DEF ConfiguredInv

(* Stopping the process keeps ConfiguredInv: nothing is held any more.       *)
LEMMA StopConfigured ==
  ASSUME DaemonTypes, ConfiguredInv, Stop, UNCHANGED <<mounted, temp>>,
         \A d \in {"base", "device"} : data'[d].rows = data[d].rows
  PROVE  ConfiguredInv'
<1>1. job'.at = "none" /\ mode' = "down" /\ mem'.box.facts = {} /\ UNCHANGED <<lost, forgotten>>
  BY NoJobIs DEF Stop, Fresh
<1>2. DisksEntire' /\ TempEntire' /\ KnownWired' /\ NetSaved' /\ SourceSaved' /\ FlagsKept'
  BY <1>1 DEF ConfiguredInv, DisksEntire, TempEntire, KnownWired, NetSaved, SourceSaved, FlagsKept,
              Moving, Recorded, Entire, Wired, Connected
<1> QED BY <1>2 DEF ConfiguredInv

(* A request keeps ConfiguredInv: it holds nothing yet.                      *)
LEMMA RequestConfigured ==
  ASSUME Types, BaseInv, ConfiguredInv, NEW c \in Clients, NEW kind \in Kinds, Request(c, kind)
  PROVE  ConfiguredInv'
<1>0. DaemonTypes /\ c \in Parties
  BY DEF Types, Parties
<1>1. CASE Stop /\ UNCHANGED <<data, mounted, temp>>
  BY <1>1, <1>0, StopConfigured
<1>2. CASE DaemonFrame /\ Asked(c, kind)
  <2>1. \A d \in Parties : call'[d] = call[d] \/ call'[d].at \notin {"assign", "store"}
    <3>1. \A a \in {"none", "ok", "refused"} : Reply(c, a) =>
             call'[c].at = "idle" /\ \A d \in Parties : d # c => call'[d] = call[d]
      BY <1>0, Replied
    <3>2. \A k \in Kinds : Proceed(c, k) =>
             call'[c].at = "get" /\ \A d \in Parties : d # c => call'[d] = call[d]
      BY <1>0, Proceeded
    <3>3. "noKey" \in Kinds
      BY DEF Kinds
    <3> QED BY <1>2, <3>1, <3>2, <3>3 DEF Asked
  <2> QED BY <1>2, <2>1, HoldingSame, ConfiguredFrame DEF DaemonFrame
<1> QED BY <1>1, <1>2, <1>0, RequestEffect

(* A read keeps ConfiguredInv: a copy has the configured flag only if        *)
(* somebody knew it.                                                         *)
LEMMA GetConfigured ==
  ASSUME Types, BaseInv, Types', BaseInv', ConfiguredInv, NEW c \in Parties, GetState(c)
  PROVE  ConfiguredInv'
<1>0. /\ DaemonTypes /\ UNCHANGED <<mem, data, mounted, overlay, temp, db, job, mode, lost, forgotten>> /\ call[c].at = "get"
      /\ \A d \in Parties : d # c => call'[d] = call[d]
  BY GetEffect DEF Types, DaemonFrame
<1>1. PICK b \in Reads : call'[c].at = "assign" /\ call'[c].kind = call[c].kind /\ call'[c].got = b
  BY GetEffect
<1>2. CASE Known
  <2>1. DisksEntire' /\ TempEntire' /\ NetSaved' /\ SourceSaved' /\ FlagsKept'
    BY <1>0 DEF ConfiguredInv, DisksEntire, TempEntire, NetSaved, SourceSaved, FlagsKept, Moving, Recorded, Entire, Wired
  <2>2. KnownWired'
    BY <1>0, <1>2 DEF ConfiguredInv, KnownWired, Moving, Wired
  <2> QED BY <2>1, <2>2 DEF ConfiguredInv
<1>3. CASE ~Known /\ call[c].kind # "configured"
  <2>1. "configured" \notin b.facts
    <3>1. "configured" \notin mem.box.facts /\ \A o \in Parties : call[o].at = "assign" =>
             "configured" \notin Changed(call[o].kind, call[o].got).facts
      BY <1>3 DEF Known, Holding
    <3>2. ASSUME b # mem.box PROVE "configured" \notin b.facts
      <4>1. PICK o \in Parties : LET ch == Changed(call[o].kind, call[o].got) IN
              /\ call[o].at = "assign"
              /\ \A f : f \in b.facts => f \in mem.box.facts \/ f \in ch.facts
        BY <3>2, ReadFacts
      <4> QED BY <3>1, <4>1
    <3> QED BY <3>1, <3>2
  <2>2. ~Holding(c)'
    <3>1. call[c].kind \in Writes /\ b \in Box
      BY <1>0, KindsInFlight, ReadsType DEF InFlight, BaseInv
    <3>2. "configured" \notin Changed(call[c].kind, b).facts
      BY <3>1, <2>1, <1>3, ChangedFacts
    <3> QED BY <1>1, <3>2 DEF Holding
  <2>3. \A d \in Parties : Holding(d)' => Holding(d)
    BY <1>0, <2>2, HoldingSame
  <2> QED BY <1>0, <2>3, ConfiguredFrame
<1>4. CASE call[c].kind = "configured"
  <2>1. c = Updater
    <3>1. c \in Clients => call[c].kind \in Written
      BY <1>0 DEF BaseInv, CallInv, InFlight
    <3> QED BY <1>4, <3>1 DEF Written, Parties
  <2>2. job.at = "finish"
    BY <1>0, <1>4, <2>1 DEF BaseInv, CallInv
  <2>3. DisksEntire' /\ TempEntire' /\ NetSaved' /\ SourceSaved' /\ FlagsKept'
    BY <1>0 DEF ConfiguredInv, DisksEntire, TempEntire, NetSaved, SourceSaved, FlagsKept, Moving, Recorded, Entire, Wired
  <2>4. KnownWired'
    BY <1>0, <2>2 DEF ConfiguredInv, KnownWired, NetSaved, SourceSaved, Moving, Wired, Connected
  <2> QED BY <2>3, <2>4 DEF ConfiguredInv
<1> QED BY <1>2, <1>3, <1>4

(* An assignment keeps ConfiguredInv: what it forgets of the key or the      *)
(* network counts as a lost update.                                          *)
LEMMA AssignConfigured ==
  ASSUME Types, BaseInv, Types', BaseInv', ConfiguredInv, NEW c \in Parties, Assign(c)
  PROVE  ConfiguredInv'
<1> DEFINE new == Changed(call[c].kind, call[c].got)
<1>0. DaemonTypes /\ UNCHANGED <<data, mounted, overlay, temp, db, job, mode, forgotten>> /\ call[c].at = "assign"
      /\ \A d \in Parties : d # c => call'[d] = call[d]
  BY AssignEffect DEF Types
<1>1. call[c].kind \in Writes /\ call[c].got \in Box
  BY <1>0, KindsInFlight DEF InFlight, BaseInv, DaemonTypes, Calls
<1>2. CASE UNCHANGED <<mem, lost>> /\ call'[c].at \notin {"assign", "store"}
  BY <1>0, <1>2, HoldingSame, ConfiguredFrame
<1>3. CASE /\ mem' = [mem EXCEPT !.box = new] /\ lost' = (lost \/ mem.box # call[c].got)
           /\ call'[c].at = "store" /\ call'[c].kind = call[c].kind /\ call'[c].got = call[c].got
  <2>1. mem'.box = new /\ mem'.net = mem.net /\ mem'.src = mem.src
    BY <1>3, <1>0 DEF DaemonTypes, RowsSet
  <2>2. "configured" \in new.facts <=> Holding(c)
    BY <1>0 DEF Holding
  <2>3. \A d \in Parties : Holding(d)' => Holding(d)
    BY <1>0, <1>3 DEF Holding
  <2>4. Known' => Known
    BY <1>0, <2>1, <2>2, <2>3 DEF Known, Moving, Recorded
  <2>5. lost => lost'
    BY <1>3
  <2>6. DisksEntire' /\ TempEntire' /\ NetSaved' /\ SourceSaved'
    BY <1>0, <2>1, <2>5 DEF ConfiguredInv, DisksEntire, TempEntire, NetSaved, SourceSaved, Moving, Recorded, Entire, Wired
  <2>7. KnownWired'
    BY <1>0, <2>1, <2>4 DEF ConfiguredInv, KnownWired, Moving, Wired
  <2>8. FlagsKept'
    <3>1. SUFFICES ASSUME ~lost', job.at \in Connected \cup {"connect"} \/ "configured" \in new.facts
                   PROVE {"key", "net"} \subseteq new.facts
      BY <1>0, <2>1 DEF FlagsKept
    <3>2. ~lost /\ mem.box = call[c].got
      BY <1>3, <3>1
    <3>3. call[c].kind = "configured" => job.at = "finish"
      <4>1. c \in Clients => call[c].kind \in Written
        BY <1>0 DEF BaseInv, CallInv, InFlight
      <4> QED BY <1>0, <4>1 DEF BaseInv, CallInv, Written, Parties
    <3>4. job.at \in Connected \cup {"connect"} \/ "configured" \in mem.box.facts
      BY <3>1, <3>2, <3>3, <1>1, ChangedFacts DEF Connected
    <3>5. {"key", "net"} \subseteq mem.box.facts
      BY <3>2, <3>4 DEF ConfiguredInv, FlagsKept
    <3> QED BY <3>2, <3>5, <1>1, ChangedFacts
  <2> QED BY <2>6, <2>7, <2>8 DEF ConfiguredInv
<1>4. Reply(c, Answer(c)) => call'[c].at = "idle"
  BY <1>0, Replied DEF Answer
<1> QED BY <1>2, <1>3, <1>4, AssignEffect

(* A save keeps ConfiguredInv: a row that comes to say configured lies       *)
(* beside a saved source and network, and lacks the other flags only if an   *)
(* update was lost.                                                          *)
LEMMA StoreConfigured ==
  ASSUME Types, BaseInv, Types', BaseInv', ConfiguredInv, NEW c \in Parties, StoreRow(c)
  PROVE  ConfiguredInv'
<1> DEFINE new == Changed(call[c].kind, call[c].got)
<1>0. DaemonTypes /\ UNCHANGED <<mem, mounted, overlay, temp, db, mode, forgotten>> /\ call[c].at = "store"
      /\ \A d \in Parties : d # c => call'[d] = call[d]
  BY StoreEffect DEF Types
<1>1. new \in Box /\ call'[c].at \in {"idle", "done"}
  <2>1. Reply(c, Answer(c)) \/ Reply(c, "refused") => call'[c].at = "idle"
    BY <1>0, Replied DEF Answer
  <2>2. new \in Box
    BY <1>0, ChangedType DEF DaemonTypes, Calls
  <2> QED BY <2>1, <2>2, StoreEffect, NoJobIs
<1>2. \A d \in Parties : Holding(d)' => Holding(d)
  BY <1>0, <1>1, HoldingSame
<1>3. CASE UNCHANGED <<data, lost>> /\ (job' = job \/ job' = NoJob)
  <2>1. NoJob.at \notin Connected \cup {"connect", "pend"}
    BY NoJobIs DEF Connected
  <2> QED BY <1>0, <1>2, <1>3, <2>1, ConfiguredFrame
<1>4. CASE CanWrite /\ data' = [data EXCEPT ![mounted].rows.box = new] /\ lost' = (lost \/ mem.box # new) /\ UNCHANGED job
  <2>1. /\ data'[mounted].rows.box = new /\ data'[mounted].rows.net = data[mounted].rows.net
        /\ data'[mounted].rows.src = data[mounted].rows.src
        /\ data'[mounted].tables = data[mounted].tables /\ data[mounted].tables
        /\ \A d \in {"base", "device"} : d # mounted => data'[d] = data[d]
    BY <1>0, <1>1, <1>4, BoxWritten DEF CanWrite
  <2>2. Recorded(data[mounted])' => Holding(c)
    BY <1>0, <2>1 DEF Recorded, Holding
  <2>3. Known' => Known
    BY <1>0, <1>2, <1>4, <2>2 DEF Known, Moving, Recorded
  <2>4. mode # "down"
    <3>1. Idle.at # "store"
      BY NoJobIs
    <3> QED BY <3>1, <1>0 DEF BaseInv, CallInv, Running
  <2>5. lost => lost'
    BY <1>4
  <2>6. Recorded(data[mounted])' => Entire(data[mounted].rows)'
    <3>1. SUFFICES ASSUME Recorded(data[mounted])' PROVE Entire(data[mounted].rows)'
      OBVIOUS
    <3>2. Known
      BY <3>1, <2>2 DEF Known
    <3>3. Wired(data[mounted].rows)
      BY <3>2, <2>1, <2>4 DEF ConfiguredInv, KnownWired
    <3>4. lost' \/ {"key", "net"} \subseteq new.facts
      <4>1. CASE ~lost'
        <5>1. ~lost /\ mem.box = new /\ "configured" \in mem.box.facts
          BY <4>1, <1>4, <3>1, <1>0, <2>1 DEF Recorded
        <5> QED BY <5>1 DEF ConfiguredInv, FlagsKept
      <4> QED BY <4>1
    <3> QED BY <3>3, <3>4, <2>1, <1>0 DEF Entire, Wired
  <2>7. DisksEntire'
    BY <1>0, <2>1, <2>5, <2>6 DEF ConfiguredInv, DisksEntire, Recorded, Entire, Wired
  <2>8. TempEntire'
    BY <1>0, <1>4, <2>5 DEF ConfiguredInv, TempEntire, Recorded, Entire, Wired, Moving
  <2>9. KnownWired'
    BY <1>0, <1>4, <2>1, <2>3, <2>4 DEF ConfiguredInv, KnownWired, Wired, Moving
  <2>10. NetSaved' /\ SourceSaved'
    BY <1>0, <1>4, <2>1 DEF ConfiguredInv, NetSaved, SourceSaved, Moving
  <2>11. FlagsKept'
    BY <1>0, <1>4, <2>5 DEF ConfiguredInv, FlagsKept
  <2> QED BY <2>7, <2>8, <2>9, <2>10, <2>11 DEF ConfiguredInv
<1> QED BY <1>3, <1>4, StoreEffect

(* TryConnect keeps ConfiguredInv: it only ever makes the network current.   *)
LEMMA SwapConfigured ==
  ASSUME Types, BaseInv, ConfiguredInv, SwapOutcome, UNCHANGED <<mounted, temp, mode, lost, forgotten>>,
         job' = job \/ job'.at \notin Connected \cup {"connect", "pend"},
         \A d \in Parties : Holding(d)' => Holding(d)
  PROVE  ConfiguredInv'
<1>0. job'.at \in Connected \cup {"connect", "pend"} => job' = job
  OBVIOUS
<1>1. Moving' => Moving /\ job' = job
  BY <1>0 DEF Moving, Connected
<1>2. mem'.box = mem.box /\ (mem.net.current => mem'.net.current)
  BY DEF SwapOutcome
<1>3. /\ \A d \in {"base", "device"} : d # mounted => data'[d] = data[d]
      /\ data'[mounted].rows.box = data[mounted].rows.box /\ data'[mounted].rows.src = data[mounted].rows.src
      /\ data'[mounted].rows.net.current \/ data'[mounted].rows.net = data[mounted].rows.net
      /\ data'[mounted].tables = data[mounted].tables
  BY DEF SwapOutcome
<1>4. Known' => Known
  BY <1>1, <1>2, <1>3 DEF Known, Recorded
<1>5. DisksEntire'
  <2>1. ASSUME NEW d \in {"base", "device"}, Recorded(data[d])' PROVE Entire(data[d].rows)'
    BY <2>1, <1>3 DEF ConfiguredInv, DisksEntire, Recorded, Entire, Wired
  <2> QED BY <2>1 DEF DisksEntire
<1>6. TempEntire'
  BY <1>1 DEF ConfiguredInv, TempEntire, Recorded, Entire, Wired
<1>7. KnownWired'
  BY <1>0, <1>1, <1>2, <1>3, <1>4 DEF ConfiguredInv, KnownWired, Wired
<1>8. NetSaved' /\ SourceSaved' /\ FlagsKept'
  BY <1>0, <1>1, <1>2, <1>3 DEF ConfiguredInv, NetSaved, SourceSaved, FlagsKept, Connected
<1> QED BY <1>5, <1>6, <1>7, <1>8 DEF ConfiguredInv

(* The end of a connect request keeps ConfiguredInv.                         *)
LEMMA ConnectConfigured ==
  ASSUME Types, BaseInv, ConfiguredInv, NEW c \in Clients, Connect(c)
  PROVE  ConfiguredInv'
<1>0. /\ DaemonTypes /\ c \in Parties /\ UNCHANGED <<mounted, temp, job, mode, lost, forgotten>>
  BY DEF Connect, jobs, history, Types, Parties
<1>1. \A d \in Parties : call'[d] = call[d] \/ call'[d].at \notin {"assign", "store"}
  BY <1>0, Replied DEF Connect
<1>2. SwapOutcome
  BY <1>0, SwapEffect DEF Connect
<1>3. \A d \in Parties : Holding(d)' => Holding(d)
  BY <1>1, HoldingSame
<1> QED BY <1>0, <1>2, <1>3, SwapConfigured

(* A step from one part of the bootstrap to another that moves nothing keeps *)
(* ConfiguredInv.                                                            *)
LEMMA InPlace ==
  ASSUME ConfiguredInv, UNCHANGED <<mem, data, mounted, temp, mode, lost, forgotten>>,
         \/ job.at \in {"init", "close", "reoverlay"} /\ job'.at \in {"close", "format", "source"}
         \/ job.at \in {"extras", "extra"} /\ job'.at \in {"extra", "finish"},
         \A d \in Parties : Holding(d)' => Holding(d)
  PROVE  ConfiguredInv'
<1>1. ~Moving' /\ job.at \in Connected /\ job.at # "copyBack" /\ job'.at # "pend"
  BY DEF Moving, Connected
<1>2. Known' => Known
  BY <1>1 DEF Known, Recorded
<1>3. DisksEntire' /\ TempEntire' /\ NetSaved' /\ SourceSaved' /\ FlagsKept'
  BY <1>1 DEF ConfiguredInv, DisksEntire, TempEntire, NetSaved, SourceSaved, FlagsKept, Recorded, Entire, Wired
<1>4. KnownWired'
  BY <1>1, <1>2 DEF ConfiguredInv, KnownWired, Wired
<1> QED BY <1>3, <1>4 DEF ConfiguredInv

(* The updater's steps that change neither rows nor memory keep              *)
(* ConfiguredInv.                                                            *)
LEMMA SmallStepConfigured ==
  ASSUME Types, BaseInv, ConfiguredInv, TakeJob \/ SmallJob \/ InitSystem \/ CloseDB \/ Reoverlay \/ Extras \/ Finish
  PROVE  ConfiguredInv'
<1>0. DaemonTypes /\ job.kind \in Kinds
  BY StepNames DEF Types, DaemonTypes, Works
<1>1. CASE TakeJob
  <2>1. Head(queue) \in JobNames
    BY <1>1 DEF TakeJob, DaemonTypes, Types
  <2>2. job'.at \in {"bootstrap", "pending", "change"}
    BY <1>1, <2>1 DEF TakeJob, FirstStep, NoJob
  <2>3. UNCHANGED <<mem, data, mounted, temp, mode, lost, forgotten, call>>
    BY <1>1 DEF TakeJob, disks, history
  <2>4. \A d \in Parties : Holding(d)' => Holding(d)
    BY <2>3 DEF Holding
  <2> QED BY <2>2, <2>3, <2>4, ConfiguredFrame DEF Connected
<1>2. CASE SmallJob \/ Change("extra", "extra", "finish") \/ Finish
  <2>1. /\ UNCHANGED <<mem, data, mounted, temp, mode, lost, forgotten>> /\ job.at \in {"change", "extra", "finish"}
        /\ \A c \in Parties : c # Updater => call'[c] = call[c]
        /\ call'[Updater].at \in {"get", "idle"}
        /\ \/ job' = job \/ job' = NoJob
           \/ job.at = "extra" /\ job'.at = "finish" /\ job'.net = job.net
           \/ job.at = "finish" /\ job'.at = "reboot"
    <3>1. CASE SmallJob
      BY <1>0, <3>1, ChangeEffect, NoJobIs DEF SmallJob
    <3>2. CASE Change("extra", "extra", "finish")
      BY <1>0, <3>2, ChangeEffect, GoEffect, StepNames, NoJobIs
    <3>3. CASE Finish
      BY <1>0, <3>3, ChangeEffect, GoEffect, StepNames, NoJobIs DEF Finish
    <3> QED BY <1>2, <3>1, <3>2, <3>3
  <2>2. \A d \in Parties : Holding(d)' => Holding(d)
    BY <2>1, HoldingSame
  <2>3. CASE job'.at \notin Connected \/ job' = job
    BY <2>1, <2>2, <2>3, ConfiguredFrame, NoJobIs DEF Connected
  <2>4. CASE job.at = "extra" /\ job'.at = "finish" /\ job'.net = job.net
    BY <2>1, <2>2, <2>4, InPlace
  <2> QED BY <2>1, <2>3, <2>4, NoJobIs DEF Connected
<1>3. CASE InitSystem \/ CloseDB \/ Reoverlay \/ Choose("extras", {"extra", "finish"})
  <2>1. /\ UNCHANGED <<mem, data, mounted, temp, mode, lost, forgotten, call>>
        /\ job' = NoJob \/ (job.at \in {"init", "close", "reoverlay"} /\ job'.at \in {"close", "format", "source"})
                        \/ (job.at = "extras" /\ job'.at \in {"extra", "finish"})
    BY <1>0, <1>3, GoEffect DEF InitSystem, CloseDB, Reoverlay, Choose, Failed, At, disks, history
  <2>2. \A d \in Parties : Holding(d)' => Holding(d)
    BY <2>1 DEF Holding
  <2>3. CASE job' = NoJob
    BY <2>1, <2>2, <2>3, ConfiguredFrame, NoJobIs DEF Connected
  <2> QED BY <2>1, <2>2, <2>3, InPlace
<1> QED BY <1>1, <1>2, <1>3 DEF Extras

(* The job of set-pending keeps ConfiguredInv: the copy it writes back knew  *)
(* the current network if the box is configured, or a start had forgotten    *)
(* it; then a pending one is written.                                        *)
LEMMA PendingConfigured ==
  ASSUME Types, BaseInv, ConfiguredInv, SetPendingNetwork
  PROVE  ConfiguredInv'
<1>0. /\ DaemonTypes /\ Running /\ job.at \in {"pending", "pend"}
      /\ UNCHANGED <<mounted, overlay, temp, db, dkm, call, queue, mode, crashes, lost, forgotten>>
  BY DEF SetPendingNetwork, At, Types, history
<1>1. \A d \in Parties : Holding(d)' => Holding(d)
  BY <1>0 DEF Holding
<1>2. CASE job.at = "pending"
  <2>1. UNCHANGED <<mem, data>> /\ (job' = NoJob \/ job' = [job EXCEPT !.at = "pend", !.net = mem.net])
    BY <1>2 DEF SetPendingNetwork, At
  <2>2. CASE job' = NoJob
    BY <1>0, <1>1, <2>1, <2>2, ConfiguredFrame, NoJobIs DEF Connected
  <2>3. CASE job' = [job EXCEPT !.at = "pend", !.net = mem.net]
    <3>1. job'.at = "pend" /\ job'.net = mem.net
      BY <2>3, <1>0 DEF DaemonTypes, Works
    <3>2. Known' => Known
      BY <1>0, <1>1, <2>1, <3>1 DEF Known, Moving, Recorded
    <3>3. DisksEntire' /\ TempEntire' /\ NetSaved' /\ SourceSaved' /\ FlagsKept'
      BY <1>0, <2>1, <3>1 DEF ConfiguredInv, DisksEntire, TempEntire, NetSaved, SourceSaved, FlagsKept,
                              Moving, Recorded, Entire, Wired, Connected
    <3>4. KnownWired'
      BY <1>0, <2>1, <3>1, <3>2 DEF ConfiguredInv, KnownWired, Moving, Wired
    <3> QED BY <3>3, <3>4 DEF ConfiguredInv
  <2> QED BY <2>1, <2>2, <2>3
<1>3. CASE job.at = "pend"
  <2>1. job' = NoJob /\ mem' = [mem EXCEPT !.net = [job.net EXCEPT !.pending = TRUE]]
        /\ data' = IF CanWrite THEN [data EXCEPT ![mounted].rows.net = mem'.net] ELSE data
    BY <1>3 DEF SetPendingNetwork, At
  <2>2. mem'.box = mem.box /\ mem'.net \in Net /\ mem'.net.current = job.net.current /\ mem'.net.pending
    BY <2>1, <1>0 DEF DaemonTypes, RowsSet, Works, Net
  <2>3. /\ \A d \in {"base", "device"} : d # mounted => data'[d] = data[d]
        /\ data'[mounted].rows.box = data[mounted].rows.box /\ data'[mounted].rows.src = data[mounted].rows.src
        /\ data'[mounted].rows.net = data[mounted].rows.net \/ data'[mounted].rows.net = mem'.net
        /\ data'[mounted].tables = data[mounted].tables
    <3>1. CASE CanWrite
      <4>1. data' = [data EXCEPT ![mounted].rows.net = mem'.net]
        BY <2>1, <3>1
      <4> QED BY <4>1, <2>2, <1>0, NetWritten
    <3>2. CASE ~CanWrite
      BY <2>1, <3>2
    <3> QED BY <3>1, <3>2
  <2>4. Known => mem'.net.current \/ forgotten
    BY <2>2, <1>0, <1>3 DEF ConfiguredInv, KnownWired, Running
  <2>5. Known' => Known
    BY <1>0, <1>1, <2>1, <2>2, <2>3, NoJobIs DEF Known, Moving, Recorded
  <2>6. DisksEntire'
    <3>1. ASSUME NEW d \in {"base", "device"}, Recorded(data[d])' PROVE Entire(data[d].rows)'
      <4>1. CASE d = mounted
        <5>1. Known
          BY <3>1, <4>1, <2>3 DEF Recorded, Known
        <5> QED BY <3>1, <4>1, <5>1, <2>2, <2>3, <2>4, <1>0 DEF ConfiguredInv, DisksEntire, Recorded, Entire, Wired
      <4>2. CASE d # mounted
        BY <3>1, <4>2, <2>3, <1>0 DEF ConfiguredInv, DisksEntire, Recorded, Entire, Wired
      <4> QED BY <4>1, <4>2
    <3> QED BY <3>1 DEF DisksEntire
  <2>7. KnownWired'
    BY <1>0, <2>1, <2>2, <2>3, <2>4, <2>5, NoJobIs DEF ConfiguredInv, KnownWired, Wired, Moving
  <2>8. TempEntire' /\ NetSaved' /\ SourceSaved' /\ FlagsKept'
    BY <1>0, <2>1, <2>2, NoJobIs DEF ConfiguredInv, TempEntire, NetSaved, SourceSaved, FlagsKept, Moving, Connected
  <2> QED BY <2>6, <2>7, <2>8 DEF ConfiguredInv
<1> QED BY <1>0, <1>2, <1>3

(* The bootstrap's first steps keep ConfiguredInv: it begins with the key    *)
(* and network flags, and goes on only with a saved network.                 *)
LEMMA BootstrapConfigured ==
  ASSUME Types, BaseInv, ConfiguredInv, Bootstrap \/ TryConnect
  PROVE  ConfiguredInv'
<1>0. /\ DaemonTypes /\ Running /\ UNCHANGED <<mounted, temp, call, mode, lost, forgotten>> /\ job.at \in {"bootstrap", "connect"}
  BY DEF Bootstrap, TryConnect, At, disks, history, Types
<1>1. \A d \in Parties : Holding(d)' => Holding(d)
  BY <1>0 DEF Holding
<1>2. CASE Bootstrap
  <2>1. UNCHANGED <<mem, data>> /\ (job' = NoJob \/ (/\ job' = [job EXCEPT !.at = "connect", !.storage = mem.box.storage]
                                                     /\ {"key", "net"} \subseteq mem.box.facts))
    BY <1>2 DEF Bootstrap, disks
  <2>2. CASE job' = NoJob
    BY <1>0, <1>1, <2>1, <2>2, ConfiguredFrame, NoJobIs DEF Connected
  <2>3. CASE job' = [job EXCEPT !.at = "connect", !.storage = mem.box.storage] /\ {"key", "net"} \subseteq mem.box.facts
    <3>1. job'.at = "connect"
      BY <2>3, <1>0 DEF DaemonTypes, Works
    <3>2. Known' => Known
      BY <1>0, <1>1, <2>1, <3>1 DEF Known, Moving, Recorded
    <3>3. DisksEntire' /\ TempEntire' /\ KnownWired' /\ NetSaved' /\ SourceSaved' /\ FlagsKept'
      BY <1>0, <2>1, <2>3, <3>1, <3>2 DEF ConfiguredInv, DisksEntire, TempEntire, KnownWired, NetSaved, SourceSaved,
            FlagsKept, Moving, Recorded, Entire, Wired, Connected
    <3> QED BY <3>3 DEF ConfiguredInv
  <2> QED BY <2>1, <2>2, <2>3
<1>3. CASE TryConnect
  <2>1. SwapOutcome
    BY <1>3, <1>0, SwapEffect DEF TryConnect
  <2>2. CASE job' = NoJob
    BY <1>0, <1>1, <2>1, <2>2, SwapConfigured, NoJobIs DEF Connected
  <2>3. CASE job' # NoJob
    <3>1. job'.at = "init" /\ CanWrite /\ mem'.net.current /\ data'[mounted].rows.net.current /\ job.at = "connect"
      BY <1>3, <1>0, <2>3, GoEffect, SwapEffect DEF TryConnect, At
    <3>2. /\ mem'.box = mem.box
          /\ \A d \in {"base", "device"} : d # mounted => data'[d] = data[d]
          /\ data'[mounted].rows.box = data[mounted].rows.box /\ data'[mounted].rows.src = data[mounted].rows.src
          /\ data'[mounted].tables = data[mounted].tables
      BY <2>1 DEF SwapOutcome
    <3>3. Known' => Known
      BY <1>0, <1>1, <3>1, <3>2 DEF Known, Moving, Recorded
    <3>4. DisksEntire'
      <4>1. ASSUME NEW d \in {"base", "device"}, Recorded(data[d])' PROVE Entire(data[d].rows)'
        BY <4>1, <1>0, <3>1, <3>2 DEF ConfiguredInv, DisksEntire, Recorded, Entire, Wired
      <4> QED BY <4>1 DEF DisksEntire
    <3>5. KnownWired'
      BY <1>0, <3>1, <3>2, <3>3 DEF ConfiguredInv, KnownWired, Wired, Moving
    <3>6. TempEntire' /\ NetSaved' /\ SourceSaved' /\ FlagsKept'
      BY <1>0, <3>1, <3>2 DEF ConfiguredInv, TempEntire, NetSaved, SourceSaved, FlagsKept, Moving, Connected
    <3> QED BY <3>4, <3>5, <3>6 DEF ConfiguredInv
  <2> QED BY <2>2, <2>3
<1> QED BY <1>2, <1>3

(* The fields of an empty data directory.                                    *)
LEMMA EmptyIs ==
  /\ Empty.tables = FALSE /\ Empty.booted = FALSE /\ Empty.rows.box.facts = {} /\ ~Recorded(Empty)
  /\ Empty.rows.box.storage = FALSE /\ Empty.force = FALSE
BY NoJobIs DEF Empty, Recorded, Fresh

(* The move of the data directory keeps ConfiguredInv: the copy is of a disk *)
(* that satisfies it, and what is copied back is the copy.                   *)
LEMMA MoveConfigured ==
  ASSUME Types, BaseInv, ConfiguredInv, InitStorageDevice \/ CopyOut \/ ApplyOverlay \/ CopyBack
  PROVE  ConfiguredInv'
<1>0. /\ DaemonTypes /\ UNCHANGED <<mem, call, mode, lost, forgotten>> /\ job.at \in {"format", "copy", "overlay", "copyBack"}
      /\ mounted \in {"base", "device"} /\ mode = "recovery"
  BY DEF InitStorageDevice, CopyOut, ApplyOverlay, CopyBack, At, Types, DaemonTypes, history,
         BaseInv, ModeInv, Bootstrapping, Connected
<1>1. \A d \in Parties : Holding(d)' => Holding(d)
  BY <1>0 DEF Holding
<1>2. job.at \in Connected /\ NoJob.at = "none"
  BY <1>0, NoJobIs DEF Connected
<1>3. CASE InitStorageDevice
  <2>1. UNCHANGED <<mounted, temp>> /\ job'.at \in {"none", "copy"} /\ job.at = "format"
    BY <1>3, <1>0, <1>2, GoEffect DEF InitStorageDevice, Failed, At
  <2>2. data' = data \/ (mounted # "device" /\ data' = [data EXCEPT !["device"] = Empty])
    BY <1>3, <1>0 DEF InitStorageDevice, DaemonTypes
  <2>3. data'[mounted] = data[mounted] /\ \A d \in {"base", "device"} : data'[d] = data[d] \/ data'[d] = Empty
    BY <2>2, <1>0 DEF DaemonTypes
  <2>4. Known' => Known
    BY <1>0, <1>1, <2>1, <2>3 DEF Known, Moving, Recorded
  <2>5. DisksEntire'
    BY <2>3, <1>0, EmptyIs DEF ConfiguredInv, DisksEntire, Recorded, Entire, Wired
  <2>6. TempEntire' /\ KnownWired' /\ NetSaved' /\ SourceSaved' /\ FlagsKept'
    BY <1>0, <1>2, <2>1, <2>3, <2>4 DEF ConfiguredInv, TempEntire, KnownWired, NetSaved, SourceSaved, FlagsKept,
         Moving, Wired, Connected
  <2> QED BY <2>5, <2>6 DEF ConfiguredInv
<1>4. CASE CopyOut
  <2>1. /\ UNCHANGED <<mounted, data>> /\ job.at = "copy"
        /\ job'.at = "none" \/ (job'.at = "overlay" /\ temp' = data[mounted])
    BY <1>4, <1>0, <1>2, GoEffect DEF CopyOut, Failed, At
  <2>2. Known' => Known
    BY <1>0, <1>1, <2>1 DEF Known, Moving, Recorded
  <2>3. DisksEntire' /\ TempEntire'
    BY <1>0, <2>1 DEF ConfiguredInv, DisksEntire, TempEntire, Recorded, Entire, Wired, Moving
  <2>4. KnownWired' /\ NetSaved' /\ SourceSaved' /\ FlagsKept'
    BY <1>0, <1>2, <2>1, <2>2 DEF ConfiguredInv, KnownWired, NetSaved, SourceSaved, FlagsKept,
         Moving, Wired, Connected
  <2> QED BY <2>3, <2>4 DEF ConfiguredInv
<1>5. CASE ApplyOverlay
  <2>1. /\ UNCHANGED <<temp, data>> /\ job.at = "overlay"
        /\ (job'.at = "none" /\ mounted' = mounted) \/ (job'.at = "copyBack" /\ mounted' = "device")
    BY <1>5, <1>0, <1>2, GoEffect DEF ApplyOverlay, Failed, At
  <2>2. data["device"] = Empty
    BY <2>1 DEF BaseInv, MoveInv
  <2>3. Known' => Known
    BY <1>0, <1>1, <2>1, <2>2, EmptyIs DEF Known, Moving, Recorded
  <2>4. DisksEntire' /\ TempEntire'
    BY <1>0, <2>1 DEF ConfiguredInv, DisksEntire, TempEntire, Recorded, Entire, Wired, Moving
  <2>5. KnownWired' /\ NetSaved' /\ SourceSaved' /\ FlagsKept'
    BY <1>0, <1>2, <2>1, <2>2, <2>3, EmptyIs DEF ConfiguredInv, KnownWired, NetSaved, SourceSaved, FlagsKept,
         Moving, Wired, Connected
  <2> QED BY <2>4, <2>5 DEF ConfiguredInv
<1>6. CASE CopyBack
  <2>1. /\ UNCHANGED mounted /\ job.at = "copyBack"
        /\ \/ job'.at = "none" /\ data' = data
           \/ /\ job'.at = "reoverlay"
              /\ data' = [data EXCEPT !["device"] = [temp EXCEPT !.force = @ \/ data.device.force]]
    BY <1>6, <1>0, <1>2, GoEffect DEF CopyBack, Failed, At
  <2>2. mounted = "device" /\ data["device"] = Empty
    BY <2>1 DEF BaseInv, MoveInv
  <2>3. /\ data'["base"] = data["base"]
        /\ data'["device"] = Empty \/ (data'["device"].rows = temp.rows /\ data'["device"].tables = temp.tables)
        /\ job'.at = "reoverlay" => data'["device"].rows = temp.rows
    BY <2>1, <2>2, <1>0 DEF DaemonTypes, Contents
  <2>4. Known' => Known
    BY <1>0, <1>1, <2>1, <2>2, <2>3, EmptyIs DEF Known, Moving, Recorded
  <2>5. DisksEntire'
    BY <1>0, <2>1, <2>3, EmptyIs DEF ConfiguredInv, DisksEntire, TempEntire, Recorded, Entire, Wired, Moving
  <2>6. KnownWired'
    BY <1>0, <2>1, <2>2, <2>3, <2>4, EmptyIs DEF ConfiguredInv, KnownWired, Moving, Wired
  <2>7. TempEntire' /\ NetSaved' /\ SourceSaved' /\ FlagsKept'
    BY <1>0, <1>2, <2>1, <2>2, <2>3 DEF ConfiguredInv, TempEntire, NetSaved, SourceSaved, FlagsKept, Moving, Connected
  <2> QED BY <2>5, <2>6, <2>7 DEF ConfiguredInv
<1> QED BY <1>3, <1>4, <1>5, <1>6

(* Adding the default source keeps ConfiguredInv: the bootstrap goes on only *)
(* once it is saved.                                                         *)
LEMMA AddSourceConfigured ==
  ASSUME Types, BaseInv, ConfiguredInv, AddSource
  PROVE  ConfiguredInv'
<1>0. /\ DaemonTypes /\ UNCHANGED <<mounted, temp, call, mode, lost, forgotten>> /\ job.at = "source" /\ NoJob.at = "none"
  BY NoJobIs DEF AddSource, At, history, Types
<1>1. \A d \in Parties : Holding(d)' => Holding(d)
  BY <1>0 DEF Holding
<1>2. mem'.box = mem.box /\ mem'.net = mem.net
  BY <1>0 DEF AddSource, DaemonTypes, RowsSet
<1>3. \/ job'.at = "none" /\ data' = data
      \/ job'.at = "extras" /\ data' = [data EXCEPT ![mounted].rows.src = TRUE]
  BY <1>0, GoEffect DEF AddSource
<1>4. /\ \A d \in {"base", "device"} : d # mounted => data'[d] = data[d]
      /\ data'[mounted].rows.box = data[mounted].rows.box /\ data'[mounted].rows.net = data[mounted].rows.net
      /\ data'[mounted].rows.src = data[mounted].rows.src \/ data'[mounted].rows.src = TRUE
      /\ job'.at = "extras" => data'[mounted].rows.src = TRUE
      /\ data'[mounted].tables = data[mounted].tables
  BY <1>0, <1>3, SrcWritten
<1>5. Known' => Known
  BY <1>0, <1>1, <1>2, <1>3, <1>4 DEF Known, Moving, Recorded
<1>6. DisksEntire'
  <2>1. ASSUME NEW d \in {"base", "device"}, Recorded(data[d])' PROVE Entire(data[d].rows)'
    BY <2>1, <1>0, <1>4 DEF ConfiguredInv, DisksEntire, Recorded, Entire, Wired
  <2> QED BY <2>1 DEF DisksEntire
<1>7. KnownWired'
  BY <1>0, <1>2, <1>3, <1>4, <1>5 DEF ConfiguredInv, KnownWired, Wired, Moving
<1>8. TempEntire' /\ NetSaved' /\ SourceSaved' /\ FlagsKept'
  BY <1>0, <1>2, <1>3, <1>4 DEF ConfiguredInv, TempEntire, NetSaved, SourceSaved, FlagsKept, Moving, Connected
<1> QED BY <1>6, <1>7, <1>8 DEF ConfiguredInv

(* A boot keeps ConfiguredInv: the memory is what the disk says, but for the *)
(* network, and what that loses counts as forgotten.                         *)
LEMMA BootConfigured ==
  ASSUME Types, BaseInv, ConfiguredInv, Boot
  PROVE  ConfiguredInv'
<1>0. /\ DaemonTypes /\ ~Running /\ UNCHANGED <<call, queue, job, overlay, temp, lost>>
      /\ forgotten => forgotten'
  <2>1. CASE Start
    BY <2>1, Started DEF Running, Types
  <2>2. CASE DidEnterRecovery \/ UnforceRecovery
    BY <2>2 DEF DidEnterRecovery, UnforceRecovery, Running, jobs, Types
  <2> QED BY <2>1, <2>2 DEF Boot
<1>1. job'.at = "none" /\ job.at = "none" /\ \A c \in Parties : call'[c].at = "idle"
  BY <1>0, NoJobIs DEF BaseInv, CallInv
<1>2. ~Moving' /\ \A c \in Parties : ~Holding(c)'
  BY <1>1 DEF Moving, Holding
<1>3. \A d \in {"base", "device"} : data'[d].rows = data[d].rows
  <2>1. CASE Start
    BY <1>0, <2>1, Started
  <2>2. CASE DidEnterRecovery \/ UnforceRecovery
    BY <1>0, <2>2 DEF DidEnterRecovery, UnforceRecovery, DaemonTypes, Contents
  <2> QED BY <2>1, <2>2 DEF Boot
<1>4. DisksEntire' /\ TempEntire' /\ NetSaved' /\ SourceSaved'
  BY <1>0, <1>1, <1>2, <1>3 DEF ConfiguredInv, DisksEntire, TempEntire, NetSaved, SourceSaved, Recorded, Entire, Wired, Connected
<1>5. CASE Start
  <2>1. /\ mem'.box = data'[mounted'].rows.box /\ mounted' \in {"base", "device"}
        /\ data'[mounted'].rows.net.current => forgotten'
    BY <1>0, <1>3, <1>5, Started
  <2>2. "configured" \in mem'.box.facts <=> Recorded(data[mounted])'
    BY <2>1 DEF Recorded
  <2>3. Recorded(data[mounted])' => Entire(data[mounted].rows)'
    BY <1>4, <2>1 DEF DisksEntire, Recorded, Entire, Wired
  <2>4. Known' => Recorded(data[mounted])'
    BY <1>2, <2>2 DEF Known
  <2>5. KnownWired'
    BY <1>1, <1>2, <2>1, <2>3, <2>4 DEF KnownWired, Entire, Wired
  <2>6. FlagsKept'
    BY <1>1, <2>1, <2>2, <2>3 DEF FlagsKept, Entire, Connected
  <2> QED BY <1>4, <2>5, <2>6 DEF ConfiguredInv
<1>6. CASE DidEnterRecovery \/ UnforceRecovery
  <2>1. UNCHANGED <<mem, mounted, forgotten>> /\ mode # "down"
    BY <1>6 DEF DidEnterRecovery, UnforceRecovery
  <2>2. data'[mounted].tables = data[mounted].tables /\ mounted \in {"base", "device"}
    BY <1>0, <1>6 DEF DidEnterRecovery, UnforceRecovery, DaemonTypes, Contents
  <2>3. Known' => Known
    BY <1>2, <1>3, <2>1, <2>2 DEF Known, Recorded
  <2>4. KnownWired'
    BY <1>1, <1>2, <1>3, <2>1, <2>2, <2>3 DEF ConfiguredInv, KnownWired, Wired
  <2>5. FlagsKept'
    BY <1>0, <1>1, <2>1 DEF ConfiguredInv, FlagsKept, Connected
  <2> QED BY <1>4, <2>4, <2>5 DEF ConfiguredInv
<1> QED BY <1>5, <1>6 DEF Boot

(* Every step keeps ConfiguredInv.                                           *)
LEMMA NextConfigured ==
  ASSUME Types, BaseInv, Types', BaseInv', ConfiguredInv, [Next]_wizVars
  PROVE  ConfiguredInv'
<1>1. CASE UNCHANGED vars
  <2>1. UNCHANGED <<mem, data, mounted, temp, mode, lost, forgotten, job>> /\ \A d \in Parties : Holding(d)' => Holding(d)
    BY <1>1 DEF vars, Holding
  <2> QED BY <2>1, ConfiguredFrame
<1>2. CASE \E c \in Clients, kind \in Kinds : Request(c, kind)
  BY <1>2, RequestConfigured
<1>3. CASE Collect /\ DaemonFrame
  <2>1. call'[Wizard] = Idle /\ \A d \in Parties : d # Wizard => call'[d] = call[d]
    BY <1>3, CollectedCall DEF Types
  <2>2. \A d \in Parties : Holding(d)' => Holding(d)
    BY <2>1, HoldingSame, NoJobIs
  <2> QED BY <1>3, <2>2, ConfiguredFrame DEF DaemonFrame
<1>4. CASE System
  <2>1. ASSUME NEW c \in Parties, Handler(c) PROVE ConfiguredInv'
    BY <2>1, GetConfigured, AssignConfigured, StoreConfigured DEF Handler
  <2>2. ASSUME NEW c \in Clients, Connect(c) PROVE ConfiguredInv'
    BY <2>2, ConnectConfigured
  <2>3. CASE Reboot \/ Crash \/ EnterRecovery
    <3>1. Stop /\ UNCHANGED <<mounted, temp>> /\ \A d \in {"base", "device"} : data'[d].rows = data[d].rows
      BY <2>3 DEF Reboot, Crash, EnterRecovery, disks, Types, DaemonTypes, Contents
    <3> QED BY <3>1, StopConfigured DEF Types
  <2>4. CASE UpdaterStep
    BY <2>3, <2>4, SmallStepConfigured, PendingConfigured, BootstrapConfigured, MoveConfigured, AddSourceConfigured
       DEF UpdaterStep
  <2>5. CASE Boot
    BY <2>5, BootConfigured
  <2> QED BY <1>4, <2>1, <2>2, <2>3, <2>4, <2>5 DEF System
<1> QED BY <1>1, <1>2, <1>3, <1>4, StepsOfSpec

(* Whoever knows that the box is configured, in memory, on a disk, in the    *)
(* copy or about to write it, knows of a saved source and network: the       *)
(* current one, or a pending one that was saved over a current one which a   *)
(* start could not read back.                                                *)
THEOREM ConfiguredHolds == Spec => []ConfiguredInv
<1>1. ASSUME Types, BaseInv, Types', BaseInv', ConfiguredInv, [Next]_wizVars PROVE ConfiguredInv'
  BY <1>1, NextConfigured
<1>2. WizInit => ConfiguredInv
  <2> SUFFICES ASSUME WizInit PROVE ConfiguredInv
    OBVIOUS
  <2>1. /\ mem = Fresh /\ mounted = "base" /\ job = NoJob /\ call = [c \in Parties |-> Idle]
        /\ data = [base |-> [Empty EXCEPT !.tables = TRUE, !.booted = TRUE], device |-> Empty]
    BY DEF WizInit, Init
  <2>2. \A d \in {"base", "device"} : ~Recorded(data[d])
    <3>1. Fresh.box.facts = {}
      BY DEF Fresh, NoBox
    <3>2. Empty.rows = Fresh /\ [Empty EXCEPT !.tables = TRUE, !.booted = TRUE].rows = Fresh
      BY DEF Empty
    <3>3. data["base"].rows = Fresh /\ data["device"].rows = Fresh
      BY <2>1, <3>2
    <3> QED BY <3>1, <3>3 DEF Recorded
  <2>3. ~Known /\ mem.box.facts = {}
    BY <2>1, <2>2, NoJobIs DEF Known, Moving, Holding, Fresh
  <2>4. job.at = "none"
    BY <2>1, NoJobIs
  <2> QED BY <2>2, <2>3, <2>4 DEF ConfiguredInv, DisksEntire, TempEntire, KnownWired, NetSaved, SourceSaved, FlagsKept,
            Moving, Connected
<1> QED BY <1>1, <1>2, BaseHolds, TypesHold, PTL DEF Spec

(* A box recorded as configured has its network and the default source on    *)
(* the same disk, and the key and network flags unless two unlocked updates  *)
(* met; on both disks, across the move (pkg/system/bootstrap.go).  Once a    *)
(* start has failed to read the current network back (pkg/system/state.go),  *)
(* one saved as pending may have taken its place.                            *)
THEOREM ConfiguredComplete == Spec => []ConfiguredIsComplete
<1>1. ConfiguredInv => ConfiguredIsComplete
  BY DEF ConfiguredInv, DisksEntire, Entire, Wired, Recorded, ConfiguredIsComplete
<1> QED BY <1>1, ConfiguredHolds, PTL

(* A step that confirms nothing and leaves the sections where they are keeps *)
(* DurableInv.                                                               *)
LEMMA DurableFrame ==
  ASSUME DurableInv, UNCHANGED acked, lost => lost', interrupted => interrupted',
         mode' # "down" => mode # "down" /\ mem'.box = mem.box,
         Moving' => Moving /\ temp'.rows.box = temp.rows.box,
         job'.at # "copyBack" => job.at # "copyBack" /\ data'[mounted'].rows.box = data[mounted].rows.box
  PROVE  DurableInv'
BY DEF DurableInv

(* Stopping the process keeps DurableInv: the disks keep their rows, and a   *)
(* stop within the copy back counts as cut short.                            *)
LEMMA StopDurable ==
  ASSUME DaemonTypes, DurableInv, Stop, UNCHANGED <<mounted, temp>>,
         \A d \in {"base", "device"} : data'[d].rows = data[d].rows
  PROVE  DurableInv'
<1>1. mode' = "down" /\ job'.at = "none" /\ UNCHANGED <<acked, lost>> /\ interrupted' = (interrupted \/ job.at = "copyBack")
  BY NoJobIs DEF Stop
<1>2. data'[mounted'].rows = data[mounted].rows
  BY DEF DaemonTypes
<1> QED BY <1>1, <1>2 DEF DurableInv, Moving

(* A request keeps DurableInv.                                               *)
LEMMA RequestDurable ==
  ASSUME Types, BaseInv, DurableInv, NEW c \in Clients, NEW kind \in Kinds, Request(c, kind)
  PROVE  DurableInv'
<1>1. CASE Stop /\ UNCHANGED <<data, mounted, overlay, temp, db, crashes>>
  BY <1>1, StopDurable DEF Types
<1>2. CASE DaemonFrame
  BY <1>2, DurableFrame DEF DaemonFrame, Moving
<1> QED BY <1>1, <1>2, RequestEffect DEF Types

(* An assignment keeps DurableInv: it removes a confirmed fact from memory   *)
(* only when it withdraws it or overwrites another update.                   *)
LEMMA AssignDurable ==
  ASSUME Types, BaseInv, DurableInv, NEW c \in Parties, Assign(c)
  PROVE  DurableInv'
<1> DEFINE new == Changed(call[c].kind, call[c].got)
<1>0. UNCHANGED <<data, mounted, temp, job, mode, interrupted>> /\ call[c].at = "assign"
  BY AssignEffect
<1>1. call[c].kind \in Writes /\ call[c].got \in Box
  BY <1>0, KindsInFlight DEF InFlight, BaseInv, Types, DaemonTypes, Calls
<1>2. CASE UNCHANGED <<mem, lost, acked>>
  BY <1>0, <1>2, DurableFrame DEF Moving
<1>3. CASE mem' = [mem EXCEPT !.box = new] /\ lost' = (lost \/ mem.box # call[c].got) /\ Withdrawn(call[c].kind)
  <2>1. mem'.box = new
    BY <1>3 DEF Types, DaemonTypes, RowsSet
  <2>2. acked' \subseteq acked /\ (call[c].kind \in DOMAIN Removes => acked' = acked \ {Removes[call[c].kind]})
    BY <1>3 DEF Withdrawn
  <2>3. ASSUME mem.box = call[c].got, acked \subseteq mem.box.facts PROVE acked' \subseteq new.facts
    BY <2>2, <2>3, <1>1, ChangedFacts
  <2> QED BY <1>0, <1>3, <2>1, <2>2, <2>3 DEF DurableInv, Moving
<1> QED BY <1>2, <1>3, AssignEffect

(* A save keeps DurableInv: what it confirms is in the row it wrote, and it  *)
(* writes nothing while the database is closed for the move.                 *)
LEMMA StoreDurable ==
  ASSUME Types, BaseInv, DurableInv, NEW c \in Parties, StoreRow(c)
  PROVE  DurableInv'
<1> DEFINE new == Changed(call[c].kind, call[c].got)
<1>0. UNCHANGED <<mem, mounted, temp, mode, interrupted>> /\ call[c].at = "store"
  BY StoreEffect
<1>1. call[c].kind \in Writes /\ call[c].got \in Box /\ new \in Box
  BY <1>0, KindsInFlight, ChangedType DEF InFlight, BaseInv, Types, DaemonTypes, Calls
<1>2. (job.at # "copyBack" /\ ~Moving) \/ ~CanWrite
  BY DEF BaseInv, MoveInv, Moving, CanWrite
<1>3. CASE CanWrite /\ data' = [data EXCEPT ![mounted].rows.box = new] /\ lost' = (lost \/ mem.box # new)
           /\ Confirmed(call[c].kind) /\ UNCHANGED job
  <2>1. data'[mounted].rows.box = new
    BY <1>1, <1>3, BoxWritten DEF Types
  <2>2. mode # "down"
    BY <1>0, NoJobIs DEF BaseInv, CallInv, Running
  <2>3. ASSUME mem.box = new, acked \subseteq mem.box.facts PROVE acked' \subseteq new.facts
    BY <1>1, <1>3, <2>3, ChangedFacts DEF Confirmed
  <2> QED BY <1>0, <1>2, <1>3, <2>1, <2>2, <2>3 DEF DurableInv, Moving
<1>4. CASE UNCHANGED <<data, lost, acked>> /\ (job' = NoJob \/ UNCHANGED job)
  <2>1. CASE UNCHANGED job
    BY <1>0, <1>4, <2>1, DurableFrame DEF Moving
  <2>2. CASE job' = NoJob /\ job # job'
    <3>1. c = Updater
      BY <2>2, StoreEffect
    <3>2. job.at # "copyBack" /\ ~Moving'
      BY <1>0, <2>2, <3>1, NoJobIs DEF BaseInv, CallInv, Moving
    <3> QED BY <1>0, <1>4, <3>2, DurableFrame
  <2> QED BY <1>4, <2>1, <2>2
<1> QED BY <1>3, <1>4, StoreEffect

(* A step of the updater outside the move that keeps the sections of disk    *)
(* and memory keeps DurableInv.                                              *)
LEMMA PlainStep ==
  ASSUME DurableInv, UNCHANGED <<acked, lost, interrupted, mode, mounted>>, mem'.box = mem.box,
         data'[mounted].rows.box = data[mounted].rows.box, job.at # "copyBack", ~Moving'
  PROVE  DurableInv'
BY DurableFrame

(* The updater's steps outside the move keep DurableInv.                     *)
LEMMA UpdaterDurable ==
  ASSUME Types, BaseInv, DurableInv,
         TakeJob \/ SmallJob \/ SetPendingNetwork \/ Bootstrap \/ TryConnect \/ InitSystem \/ CloseDB
           \/ Reoverlay \/ AddSource \/ Extras \/ Finish
  PROVE  DurableInv'
<1>0. DaemonTypes /\ job.kind \in Kinds /\ NoJob.at = "none"
  BY StepNames, NoJobIs DEF Types, DaemonTypes, Works
<1>1. CASE TakeJob
  <2>1. Head(queue) \in JobNames
    BY <1>0, <1>1 DEF TakeJob, DaemonTypes
  <2>2. job'.at \in {"bootstrap", "pending", "change"} /\ job = NoJob
    BY <1>1, <2>1 DEF TakeJob, FirstStep, NoJob
  <2>3. UNCHANGED <<mem, data, mounted, mode, acked, lost, interrupted>>
    BY <1>1 DEF TakeJob, disks, history
  <2> QED BY <1>0, <2>2, <2>3, PlainStep DEF Moving
<1>2. CASE SmallJob \/ Extras \/ Finish
  <2>1. ASSUME NEW step \in {"change", "extra", "finish"}, NEW kind \in Kinds, NEW next \in {"end", "finish", "reboot"},
               Change(step, kind, next)
        PROVE  DurableInv'
    <3>1. /\ UNCHANGED <<mem, data, mounted, mode, acked, lost, interrupted>> /\ job.at = step
          /\ job'.at \in {"none", "finish", "reboot", step}
      BY <1>0, <2>1, ChangeEffect, GoEffect
    <3> QED BY <3>1, PlainStep DEF Moving
  <2>2. CASE Choose("extras", {"extra", "finish"})
    <3>1. UNCHANGED <<mem, data, mounted, mode, acked, lost, interrupted>> /\ job.at = "extras"
          /\ job'.at \in {"extra", "finish"}
      BY <1>0, <2>2, GoEffect DEF Choose, At, disks, history
    <3> QED BY <3>1, PlainStep DEF Moving
  <2> QED BY <1>0, <1>2, <2>1, <2>2, StepNames DEF SmallJob, Extras, Finish
<1>3. CASE SetPendingNetwork
  <2>1. UNCHANGED <<mounted, mode, acked, lost, interrupted>> /\ job.at \in {"pending", "pend"} /\ job'.at \in {"none", "pend"}
    BY <1>0, <1>3 DEF SetPendingNetwork, At, history, DaemonTypes, Works
  <2>2. mem'.box = mem.box /\ mem' \in RowsSet
    <3>1. [job.net EXCEPT !.pending = TRUE] \in Net
      BY <1>0 DEF DaemonTypes, Works, Net
    <3> QED BY <1>0, <1>3, <3>1, NetTypes DEF SetPendingNetwork, DaemonTypes, RowsSet
  <2>3. data'[mounted].rows.box = data[mounted].rows.box
    <3>1. CASE data' = [data EXCEPT ![mounted].rows.net = mem'.net]
      <4>1. mem'.net \in Net
        BY <2>2 DEF RowsSet
      <4> QED BY <1>0, <3>1, <4>1, NetWritten
    <3> QED BY <1>3, <3>1 DEF SetPendingNetwork
  <2> QED BY <2>1, <2>2, <2>3, PlainStep DEF Moving
<1>4. CASE Bootstrap \/ InitSystem \/ CloseDB \/ Reoverlay
  <2>1. UNCHANGED <<mem, data, mounted, mode, acked, lost, interrupted>>
        /\ job.at \in {"bootstrap", "init", "close", "reoverlay"}
    BY <1>4 DEF Bootstrap, InitSystem, CloseDB, Reoverlay, At, disks, history
  <2>2. job'.at \in {"none", "connect", "close", "source", "format"}
    BY <1>0, <1>4, GoEffect DEF Bootstrap, InitSystem, CloseDB, Reoverlay, Failed, DaemonTypes, Works
  <2> QED BY <2>1, <2>2, PlainStep DEF Moving
<1>5. CASE TryConnect
  <2>1. SwapOutcome
    BY <1>5, <1>0, SwapEffect DEF TryConnect
  <2>2. UNCHANGED <<mounted, mode, acked, lost, interrupted>> /\ job.at = "connect" /\ job'.at \in {"none", "init"}
    BY <1>0, <1>5, GoEffect DEF TryConnect, At, history
  <2> QED BY <2>1, <2>2, PlainStep DEF Moving, SwapOutcome
<1>6. CASE AddSource
  <2>1. UNCHANGED <<mounted, mode, acked, lost, interrupted>> /\ job.at = "source" /\ job'.at \in {"none", "extras"}
    BY <1>0, <1>6, GoEffect DEF AddSource, At, history
  <2>2. mem'.box = mem.box
    BY <1>0, <1>6 DEF AddSource, DaemonTypes, RowsSet
  <2>3. data'[mounted].rows.box = data[mounted].rows.box
    BY <1>0, <1>6, SrcWritten DEF AddSource
  <2> QED BY <2>1, <2>2, <2>3, PlainStep DEF Moving
<1> QED BY <1>1, <1>2, <1>3, <1>4, <1>5, <1>6

(* The move keeps DurableInv: what was confirmed is in the copy before the   *)
(* disk is replaced and on the device after it.                              *)
LEMMA MoveDurable ==
  ASSUME Types, BaseInv, DurableInv, InitStorageDevice \/ CopyOut \/ ApplyOverlay \/ CopyBack
  PROVE  DurableInv'
<1>0. /\ DaemonTypes /\ UNCHANGED <<mem, mode, acked, lost>> /\ mounted \in {"base", "device"} /\ NoJob.at = "none"
      /\ interrupted => interrupted'
  BY NoJobIs DEF InitStorageDevice, CopyOut, ApplyOverlay, CopyBack, Types, DaemonTypes, history
<1>1. CASE InitStorageDevice
  <2>1. UNCHANGED mounted /\ job'.at \in {"none", "copy"} /\ job.at = "format"
    BY <1>1, <1>0, GoEffect DEF InitStorageDevice, Failed, At
  <2>2. data'[mounted] = data[mounted]
    BY <1>1, <1>0 DEF InitStorageDevice, DaemonTypes
  <2> QED BY <1>0, <2>1, <2>2, DurableFrame DEF Moving
<1>2. CASE CopyOut
  <2>1. /\ UNCHANGED <<mounted, data>> /\ job.at = "copy" /\ UNCHANGED interrupted
        /\ job'.at = "none" \/ (job'.at = "overlay" /\ temp' = data[mounted])
    BY <1>2, <1>0, GoEffect DEF CopyOut, Failed, At, history
  <2> QED BY <1>0, <2>1 DEF DurableInv, Moving
<1>3. CASE ApplyOverlay
  <2>1. /\ UNCHANGED <<temp, data>> /\ job.at = "overlay" /\ UNCHANGED interrupted
        /\ (job'.at = "none" /\ mounted' = mounted) \/ job'.at = "copyBack"
    BY <1>3, <1>0, GoEffect DEF ApplyOverlay, Failed, At, history
  <2> QED BY <1>0, <2>1 DEF DurableInv, Moving
<1>4. CASE CopyBack
  <2>1. UNCHANGED mounted /\ job.at = "copyBack" /\ mounted = "device"
    BY <1>4 DEF CopyBack, At, BaseInv, MoveInv
  <2>2. interrupted' \/ (/\ job'.at = "reoverlay" /\ UNCHANGED interrupted
                         /\ data' = [data EXCEPT !["device"] = [temp EXCEPT !.force = @ \/ data.device.force]])
    BY <1>4, <1>0, GoEffect DEF CopyBack
  <2>3. data' = [data EXCEPT !["device"] = [temp EXCEPT !.force = @ \/ data.device.force]] =>
          data'["device"].rows = temp.rows
    BY <1>0 DEF DaemonTypes, Contents
  <2> QED BY <1>0, <2>1, <2>2, <2>3 DEF DurableInv, Moving
<1> QED BY <1>1, <1>2, <1>3, <1>4

(* A boot keeps DurableInv: the Dogebox section is what the disk says.       *)
LEMMA BootDurable ==
  ASSUME Types, BaseInv, DurableInv, Boot
  PROVE  DurableInv'
<1>0. DaemonTypes /\ ~Running /\ job.at = "none"
  <2>1. ~Running
    BY DEF Boot, Start, DidEnterRecovery, UnforceRecovery, Running
  <2> QED BY <2>1, NoJobIs DEF BaseInv, CallInv, Types
<1>1. CASE Start
  <2>1. UNCHANGED <<job, acked, lost, interrupted>> /\ mounted' = mounted
        /\ mem'.box = data[mounted].rows.box /\ data'[mounted].rows = data[mounted].rows
    BY <1>0, <1>1, Started DEF BaseInv, MoveInv
  <2> QED BY <1>0, <2>1 DEF DurableInv, Moving
<1>2. CASE DidEnterRecovery \/ UnforceRecovery
  <2>1. UNCHANGED <<mem, mounted, job, acked, lost, interrupted>> /\ mode # "down"
    BY <1>2 DEF DidEnterRecovery, UnforceRecovery, jobs, history
  <2>2. data'[mounted].rows = data[mounted].rows
    BY <1>0, <1>2 DEF DidEnterRecovery, UnforceRecovery, DaemonTypes, Contents
  <2> QED BY <1>0, <2>1, <2>2, DurableFrame DEF Moving
<1> QED BY <1>1, <1>2 DEF Boot

(* Every step keeps DurableInv.                                              *)
LEMMA NextDurable ==
  ASSUME Types, BaseInv, DurableInv, [Next]_wizVars
  PROVE  DurableInv'
<1>1. CASE UNCHANGED vars
  BY <1>1, DurableFrame DEF vars, Moving
<1>2. CASE \E c \in Clients, kind \in Kinds : Request(c, kind)
  BY <1>2, RequestDurable
<1>3. CASE Collect /\ DaemonFrame
  BY <1>3, DurableFrame DEF DaemonFrame, Moving
<1>4. CASE System
  <2>1. ASSUME NEW c \in Parties, Handler(c) PROVE DurableInv'
    <3>1. CASE GetState(c)
      BY <3>1, GetEffect, DurableFrame DEF DaemonFrame, Moving
    <3> QED BY <2>1, <3>1, AssignDurable, StoreDurable DEF Handler
  <2>2. ASSUME NEW c \in Clients, Connect(c) PROVE DurableInv'
    <3>1. SwapOutcome
      BY <2>2, SwapEffect DEF Connect, Types
    <3>2. UNCHANGED <<mounted, temp, job, mode, acked, lost, interrupted>>
      BY <2>2 DEF Connect, jobs, history
    <3> QED BY <3>1, <3>2, DurableFrame DEF SwapOutcome, Moving
  <2>3. CASE Reboot \/ Crash \/ EnterRecovery
    <3>1. Stop /\ UNCHANGED <<mounted, temp>> /\ \A d \in {"base", "device"} : data'[d].rows = data[d].rows
      BY <2>3 DEF Reboot, Crash, EnterRecovery, disks, Types, DaemonTypes, Contents
    <3> QED BY <3>1, StopDurable DEF Types
  <2>4. CASE UpdaterStep
    BY <2>3, <2>4, UpdaterDurable, MoveDurable DEF UpdaterStep
  <2>5. CASE Boot
    BY <2>5, BootDurable
  <2> QED BY <1>4, <2>1, <2>2, <2>3, <2>4, <2>5 DEF System
<1> QED BY <1>1, <1>2, <1>3, <1>4, StepsOfSpec

(* What was confirmed is in memory while the process is up, in the copy      *)
(* during the move, and on the mounted disk at all other times.              *)
THEOREM DurableHolds == Spec => []DurableInv
<1>1. ASSUME Types, BaseInv, DurableInv, [Next]_wizVars PROVE DurableInv'
  BY <1>1, NextDurable
<1>2. WizInit => DurableInv
  BY NoJobIs DEF WizInit, Init, DurableInv, Moving
<1> QED BY <1>1, <1>2, BaseHolds, TypesHold, PTL DEF Spec

(* What an answer or a finished job confirmed is on the disk the box boots   *)
(* from, across crashes, failures and the move of the data directory, unless *)
(* an update was lost or the move was cut short (pkg/system/state.go,        *)
(* bootstrap.go).                                                            *)
THEOREM AckedStaysDurable == Spec => []AckedDurable
<1>1. DurableInv /\ BaseInv => AckedDurable
  BY DEF DurableInv, BaseInv, MoveInv, AckedDurable
<1> QED BY <1>1, DurableHolds, BaseHolds, PTL

(* The screens from the seed on.                                             *)
Seeded == {"seed", "network", "finalizing", "complete"}

(* The wizard's steps, by what they change of the fields the proofs follow.  *)
Browses ==
  /\ UNCHANGED vars /\ wiz'.confirmed = wiz.confirmed
  /\ \/ wiz'.step \notin Seeded \cup {"generate"} /\ ~wiz'.busy /\ wiz'.plan = <<>>
     \/ /\ wiz'.step = wiz.step \/ {wiz.step, wiz'.step} \subseteq {"seed", "network"}
        /\ wiz'.busy = wiz.busy /\ wiz'.sent = wiz.sent /\ wiz'.plan = wiz.plan /\ wiz'.net = wiz.net
        /\ wiz'.accepted = wiz.accepted
Chooses(net) ==
  /\ UNCHANGED vars /\ wiz.step = "network" /\ wiz'.step = "finalizing" /\ wiz'.busy
  /\ wiz'.sent = wiz.sent /\ wiz'.plan = Plan(net) /\ wiz'.net = net /\ wiz'.confirmed = wiz.chosen
Generates ==
  /\ Running /\ Request(Wizard, "key") /\ wiz.step = "password" /\ wiz'.step = "generate" /\ wiz'.sent
  /\ wiz'.busy = wiz.busy /\ wiz'.plan = wiz.plan /\ wiz'.confirmed = wiz.confirmed
Generated ==
  /\ Collect /\ OnlyCall /\ wiz.step = "generate" /\ wiz.sent /\ ~wiz'.sent
  /\ (Answered("ok") /\ wiz'.step = "seed") \/ wiz'.step = "generate"
  /\ wiz'.busy = wiz.busy /\ wiz'.plan = wiz.plan /\ wiz'.confirmed = wiz.confirmed
Sends ==
  /\ Running /\ Request(Wizard, Head(wiz.plan)) /\ wiz.busy /\ ~wiz.sent /\ wiz.plan # <<>> /\ wiz'.sent
  /\ wiz'.step = wiz.step /\ wiz'.busy = wiz.busy /\ wiz'.plan = wiz.plan /\ wiz'.confirmed = wiz.confirmed
  /\ wiz'.net = wiz.net /\ wiz'.accepted = wiz.accepted
GivesUp ==
  /\ ~Running /\ UNCHANGED vars /\ wiz.busy /\ ~wiz.sent /\ wiz.plan # <<>> /\ ~wiz'.sent
  /\ wiz'.step = wiz.step /\ wiz'.confirmed = wiz.confirmed /\ wiz'.net = wiz.net /\ wiz'.accepted = wiz.accepted
  /\ \/ Head(wiz.plan) = "bootstrap" /\ wiz'.plan = <<>> /\ wiz'.busy = wiz.busy
     \/ Head(wiz.plan) # "bootstrap" /\ wiz'.plan = wiz.plan /\ ~wiz'.busy
Receives ==
  /\ Collect /\ OnlyCall /\ wiz.busy /\ wiz.sent /\ wiz.plan # <<>> /\ ~wiz'.sent
  /\ wiz'.step = wiz.step /\ wiz'.confirmed = wiz.confirmed /\ wiz'.net = wiz.net
  /\ \/ /\ Answered("ok") /\ wiz'.plan = Tail(wiz.plan) /\ wiz'.busy = wiz.busy
        /\ wiz'.accepted = (Head(wiz.plan) = "bootstrap")
     \/ /\ Answered("refused") \/ Broken
        /\ wiz'.accepted = wiz.accepted
        /\ \/ Head(wiz.plan) = "bootstrap" /\ wiz'.plan = <<>> /\ wiz'.busy = wiz.busy
           \/ Head(wiz.plan) # "bootstrap" /\ wiz'.plan = wiz.plan /\ ~wiz'.busy
Completes ==
  /\ UNCHANGED vars /\ wiz.busy /\ wiz.plan = <<>> /\ wiz'.step = "complete" /\ ~wiz'.busy
  /\ wiz'.plan = wiz.plan /\ wiz'.confirmed = wiz.confirmed /\ wiz'.net = wiz.net /\ wiz'.accepted = wiz.accepted

(* Every step of the wizard is one of eight kinds, by what it does to the    *)
(* fields the proofs follow.                                                 *)
LEMMA WizardCases ==
  ASSUME Types, ~wiz.busy => wiz.plan = <<>> \/ wiz.step = "finalizing", WizardStep
  PROVE  /\ UNCHANGED calls
         /\ \/ Browses \/ (\E net \in BOOLEAN : Chooses(net)) \/ Generates \/ Generated
            \/ Sends \/ GivesUp \/ Receives \/ Completes
<1> USE DEF Types
<1>0. /\ wiz \in Wizards /\ \A s : To(s) = [wiz EXCEPT !.step = s]
      /\ Path[1] = "ready" /\ Path[2] = "keyboard" /\ Path[3] = "timezone" /\ Path[4] = "storage"
      /\ Path[5] = "password" /\ DOMAIN Path = 1..5 /\ Len(Path) = 5
  BY DEF WizardTypes, To, Path
<1>c. UNCHANGED calls
  <2>1. \A l : Fetched(l) => UNCHANGED calls
    BY DEF Fetched, OnlyWizard
  <2>2. \A i : Enter(i) \/ Back(i) => UNCHANGED calls
    BY DEF Enter, Back, OnlyWizard
  <2>3. \A net : ChooseNetwork(net) => UNCHANGED calls
    BY DEF ChooseNetwork, OnlyWizard
  <2>4. Launch \/ CheckBootstrap \/ Quit \/ SelectDisk \/ ConfirmSeed \/ BackToSeed => UNCHANGED calls
    BY DEF Launch, CheckBootstrap, Quit, SelectDisk, ConfirmSeed, BackToSeed, OnlyWizard
  <2>5. GenerateKey \/ SeedGenerated \/ Finalize => UNCHANGED calls
    BY DEF GenerateKey, SeedGenerated, Finalize, Send, Receive, Complete, OnlyWizard, OnlyCall
  <2> QED BY <2>1, <2>2, <2>3, <2>4, <2>5 DEF WizardStep
<1>1. ASSUME Launch \/ CheckBootstrap PROVE Browses
  BY <1>0, <1>1 DEF Launch, CheckBootstrap, Browses, OnlyWizard, Shape, Wizards, Seeded
<1>2. ASSUME Quit PROVE Browses
  BY <1>0, <1>2 DEF Quit, Browses, OnlyWizard, Off, Seeded
<1>3. ASSUME SelectDisk PROVE Browses
  BY <1>0, <1>3 DEF SelectDisk, Browses, OnlyWizard, Wizards
<1>4. ASSUME NEW l \in {"timezones", "disks"}, Fetched(l) PROVE Browses
  BY <1>0, <1>4 DEF Fetched, Browses, OnlyWizard, Wizards
<1>5. ASSUME NEW i \in DOMAIN Path, Enter(i) \/ Back(i) PROVE Browses
  <2>1. ~wiz.busy /\ wiz.step # "finalizing" /\ UNCHANGED vars
    BY <1>0, <1>5 DEF Enter, Back, Shape, On, OnlyWizard
  <2>2. wiz'.busy = wiz.busy /\ wiz'.plan = wiz.plan /\ wiz'.confirmed = wiz.confirmed
    BY <1>0, <1>5 DEF Enter, Back, Wizards
  <2>3. wiz'.step \in {"ready", "keyboard", "timezone", "storage", "password"}
    <3>1. CASE Enter(i)
      <4>1. Path[i + 1] \in {"ready", "keyboard", "timezone", "storage", "password"}
        BY <1>0, <3>1, <1>5 DEF Enter
      <4>2. wiz'.step = Path[i + 1]
        BY <1>0, <3>1 DEF Enter, Wizards
      <4> QED BY <4>1, <4>2
    <3>2. CASE Back(i)
      BY <1>0, <1>5, <3>2 DEF Back, Wizards
    <3> QED BY <1>5, <3>1, <3>2
  <2> QED BY <2>1, <2>2, <2>3 DEF Browses, Seeded
<1>6. ASSUME NEW net \in BOOLEAN, ChooseNetwork(net) PROVE Chooses(net)
  <2> DEFINE p == Plan(net)
  <2> HIDE DEF p
  <2>1. wiz' = [To("finalizing") EXCEPT !.net = net, !.busy = TRUE, !.plan = p,
                                        !.confirmed = wiz.chosen, !.have = {}, !.fetching = {},
                                            !.disks = {}]
    BY <1>6 DEF ChooseNetwork, p
  <2>2. /\ wiz'.step = "finalizing" /\ wiz'.busy /\ wiz'.sent = wiz.sent /\ wiz'.plan = p /\ wiz'.net = net
        /\ wiz'.confirmed = wiz.chosen
    BY <1>0, <2>1 DEF Wizards
  <2> QED BY <2>2, <1>6 DEF ChooseNetwork, OnlyWizard, Chooses, p
<1>7. ASSUME GenerateKey PROVE Generates
  BY <1>0, <1>7 DEF GenerateKey, Ask, Generates, Wizards
<1>8. ASSUME SeedGenerated PROVE Generated
  BY <1>0, <1>8 DEF SeedGenerated, Generated, Wizards
<1>9. ASSUME ConfirmSeed \/ BackToSeed PROVE Browses
  BY <1>0, <1>9 DEF ConfirmSeed, BackToSeed, Browses, OnlyWizard, Wizards
<1>10. ASSUME Send PROVE Sends \/ GivesUp
  <2>1. CASE Ask(Head(wiz.plan)) /\ wiz' = [wiz EXCEPT !.sent = TRUE]
    BY <1>0, <1>10, <2>1 DEF Send, Ask, Sends, Wizards
  <2>2. CASE ~Running /\ UNCHANGED vars
    BY <1>0, <1>10, <2>2 DEF Send, Ask, GivesUp, Wizards
  <2> QED BY <1>10, <2>1, <2>2 DEF Send
<1>11. ASSUME Receive PROVE Receives
  <2>1. wiz.plan # <<>> /\ Collect /\ OnlyCall /\ wiz.busy /\ wiz.sent
    BY <1>11 DEF Receive, Shape
  <2>2. CASE Answered("ok") /\ wiz' = [wiz EXCEPT !.sent = FALSE, !.plan = Tail(@), !.accepted = Head(wiz.plan) = "bootstrap"]
    <3> DEFINE t == Tail(wiz.plan)
               b == Head(wiz.plan) = "bootstrap"
    <3> HIDE DEF t, b
    <3>1. wiz' = [wiz EXCEPT !.sent = FALSE, !.plan = t, !.accepted = b]
      BY <1>0, <2>2 DEF t, b, Wizards
    <3>2. /\ wiz'.sent = FALSE /\ wiz'.plan = t /\ wiz'.accepted = b /\ wiz'.step = wiz.step
          /\ wiz'.confirmed = wiz.confirmed /\ wiz'.net = wiz.net /\ wiz'.busy = wiz.busy
      BY <1>0, <3>1 DEF Wizards
    <3> QED BY <2>1, <2>2, <3>2 DEF Receives, t, b
  <2>3. CASE /\ Answered("refused") \/ Broken
             /\ wiz' = IF Head(wiz.plan) = "bootstrap" THEN [wiz EXCEPT !.sent = FALSE, !.plan = <<>>]
                                                       ELSE [wiz EXCEPT !.sent = FALSE, !.busy = FALSE]
    <3>1. /\ wiz'.sent = FALSE /\ wiz'.step = wiz.step /\ wiz'.confirmed = wiz.confirmed /\ wiz'.net = wiz.net
          /\ wiz'.accepted = wiz.accepted
          /\ \/ Head(wiz.plan) = "bootstrap" /\ wiz'.plan = <<>> /\ wiz'.busy = wiz.busy
             \/ Head(wiz.plan) # "bootstrap" /\ wiz'.plan = wiz.plan /\ ~wiz'.busy
      BY <1>0, <2>3 DEF Wizards
    <3> QED BY <2>1, <2>3, <3>1 DEF Receives
  <2> QED BY <1>11, <2>2, <2>3 DEF Receive
<1>12. ASSUME Complete PROVE Completes
  BY <1>0, <1>12 DEF Complete, Completes, OnlyWizard, Wizards
<1> QED BY <1>c, <1>1, <1>2, <1>3, <1>4, <1>5, <1>6, <1>7, <1>8, <1>9, <1>10, <1>11, <1>12 DEF WizardStep, Finalize

(* What the wizard's fields say of each other.                               *)
SendsLastBootstrap ==
  \A i \in DOMAIN wiz.plan :
    /\ wiz.plan[i] \in Sent
    /\ wiz.plan[i] = "bootstrap" <=> i = Len(wiz.plan)
    /\ wiz.plan[i] = "storage" => wiz.confirmed \in {"device", "defaulted"}
Chosen ==
  wiz.step \in {"password", "generate", "seed", "network"} =>
    /\ wiz.storage # "none" /\ wiz.chosen # "none"
    /\ wiz.storage = "device" => wiz.chosen \in {"device", "defaulted"}
FormInv ==
  /\ ~wiz.busy => wiz.plan = <<>> \/ wiz.step = "finalizing"
  /\ wiz.step \in {"seed", "network"} => ~wiz.sent
  /\ SendsLastBootstrap
  /\ Chosen

(* From the password on, the selected storage is the one confirmed with      *)
(* Enter, or what a later answer has put in its place: the boot medium, or   *)
(* a device that then counts as defaulted.                                   *)
LEMMA ChosenStep ==
  ASSUME Types, Chosen, WizardStep
  PROVE  Chosen'
<1> USE DEF Types
<1>0. /\ wiz \in Wizards /\ \A s : To(s) = [wiz EXCEPT !.step = s]
      /\ Path[1] = "ready" /\ Path[2] = "keyboard" /\ Path[3] = "timezone" /\ Path[4] = "storage"
      /\ Path[5] = "password" /\ DOMAIN Path = 1..5 /\ Len(Path) = 5
  BY DEF WizardTypes, To, Path
<1>1. ASSUME Launch \/ CheckBootstrap \/ Quit \/ SelectDisk PROVE Chosen'
  BY <1>0, <1>1 DEF Launch, CheckBootstrap, Quit, SelectDisk, Chosen, Wizards, Off
<1>2. ASSUME NEW l \in {"timezones", "disks"}, Fetched(l) PROVE Chosen'
  <2> DEFINE t == [wiz EXCEPT !.fetching = @ \ {l}, !.have = @ \cup {l}]
  <2>1. t \in Wizards /\ t.step = wiz.step /\ t.storage = wiz.storage /\ t.chosen = wiz.chosen
    BY <1>0 DEF Wizards, Lists
  <2>2. CASE \E listed \in SUBSET Media :
               wiz' = [t EXCEPT !.disks = listed, !.storage = Default(listed), !.chosen = StillChosen(listed)]
    <3>1. PICK listed \in SUBSET Media :
            wiz' = [t EXCEPT !.disks = listed, !.storage = Default(listed), !.chosen = StillChosen(listed)]
      BY <2>2
    <3> HIDE DEF t
    <3>2. wiz'.step = wiz.step /\ wiz'.storage = Default(listed) /\ wiz'.chosen = StillChosen(listed)
      BY <2>1, <3>1 DEF Wizards
    <3>3. listed # {} /\ "boot" \notin listed => listed = {"device"}
      BY DEF Media
    <3>4. wiz.chosen # "none" => StillChosen(listed) # "none"
      BY DEF StillChosen
    <3>5. Default(listed) = "device" /\ wiz.chosen # "none" =>
            \/ StillChosen(listed) = "defaulted"
            \/ listed = {} /\ Default(listed) = wiz.storage /\ StillChosen(listed) = wiz.chosen
      BY <3>3 DEF Default, StillChosen
    <3>6. wiz.storage # "none" => Default(listed) # "none"
      BY DEF Default
    <3> QED BY <3>2, <3>4, <3>5, <3>6 DEF Chosen
  <2>3. CASE wiz' = t \/ wiz' = [wiz EXCEPT !.fetching = @ \ {l}]
    BY <1>0, <2>1, <2>3 DEF Chosen, Wizards
  <2> QED BY <1>2, <2>2, <2>3 DEF Fetched
<1>3. ASSUME NEW i \in DOMAIN Path, Enter(i) PROVE Chosen'
  <2>1. wiz'.step = Path[i + 1] /\ wiz'.storage = wiz.storage
        /\ wiz'.chosen = IF wiz.step = "storage" THEN wiz.storage ELSE wiz.chosen
    BY <1>0, <1>3 DEF Enter, Wizards
  <2>2. wiz.step = Path[i] /\ i \in 1..4
    BY <1>0, <1>3 DEF Enter, On
  <2>3. CASE i = 4
    BY <1>0, <1>3, <2>1, <2>2, <2>3 DEF Enter, Chosen
  <2>4. CASE i \in 1..3
    BY <1>0, <2>1, <2>4 DEF Chosen
  <2> QED BY <2>2, <2>3, <2>4
<1>4. ASSUME NEW i \in DOMAIN Path, Back(i) PROVE Chosen'
  BY <1>0, <1>4 DEF Back, Chosen, Wizards
<1>5. ASSUME NEW net \in BOOLEAN, ChooseNetwork(net) PROVE Chosen'
  <2> DEFINE p == Plan(net)
  <2> HIDE DEF p
  <2>1. wiz' = [To("finalizing") EXCEPT !.net = net, !.busy = TRUE, !.plan = p,
                                        !.confirmed = wiz.chosen, !.have = {}, !.fetching = {},
                                            !.disks = {}]
    BY <1>5 DEF ChooseNetwork, p
  <2>2. wiz'.step = "finalizing"
    BY <1>0, <2>1 DEF Wizards
  <2> QED BY <2>2 DEF Chosen
<1>6. ASSUME GenerateKey \/ SeedGenerated \/ ConfirmSeed \/ BackToSeed \/ Complete PROVE Chosen'
  BY <1>0, <1>6 DEF GenerateKey, SeedGenerated, ConfirmSeed, BackToSeed, Complete, Chosen, Wizards
<1>7. ASSUME Send \/ Receive PROVE Chosen'
  <2>1. wiz.step = "finalizing"
    BY <1>7 DEF Send, Receive, Shape
  <2>2. wiz'.step = wiz.step
    BY <1>0, <1>7 DEF Send, Receive, Wizards
  <2> QED BY <2>1, <2>2 DEF Chosen
<1> QED BY <1>1, <1>2, <1>3, <1>4, <1>5, <1>6, <1>7 DEF WizardStep, Finalize

(* The plan ends with its only bootstrap and asks for storage only if the    *)
(* device was confirmed or put in place of what was.                         *)
LEMMA PlanForm ==
  ASSUME Types, Chosen, NEW net \in BOOLEAN, Chooses(net)
  PROVE  SendsLastBootstrap'
<1> DEFINE p == Plan(net)
<1>1. /\ p \in Seq(Sent) /\ Len(p) = (IF net THEN 4 ELSE 3) /\ p[1] = "keymap"
      /\ p[2] = (IF wiz.storage = "boot" THEN "bootMedia" ELSE "storage")
      /\ net => p[3] = "network"
      /\ p[Len(p)] = "bootstrap"
  BY PlanIs
<1> HIDE DEF p
<1>2. wiz'.plan = p /\ wiz'.confirmed = wiz.chosen /\ wiz.step = "network" /\ wiz.storage \in Selections
  BY DEF Chooses, p, Types, WizardTypes, Wizards
<1>3. wiz.storage # "boot" => wiz.chosen \in {"device", "defaulted"}
  BY <1>2 DEF Chosen, Selections
<1>4. ASSUME NEW i \in DOMAIN p
      PROVE  /\ p[i] \in Sent /\ (p[i] = "bootstrap" <=> i = Len(p))
             /\ p[i] = "storage" => wiz.chosen \in {"device", "defaulted"}
  <2>1. i \in 1..4 /\ (net \/ i # 4)
    BY <1>1
  <2>2. CASE i = 1
    BY <1>1, <2>2 DEF Sent
  <2>3. CASE i = 2
    BY <1>1, <1>3, <2>3 DEF Sent
  <2>4. CASE i = 3
    BY <1>1, <2>4 DEF Sent
  <2>5. CASE i = 4
    BY <1>1, <2>1, <2>5 DEF Sent
  <2> QED BY <2>1, <2>2, <2>3, <2>4, <2>5
<1> QED BY <1>2, <1>4 DEF SendsLastBootstrap

(* What is left of a plan when its first request was answered.               *)
LEMMA Tailed ==
  ASSUME NEW S, NEW s \in Seq(S), s # <<>>
  PROVE  /\ Tail(s) \in Seq(S) /\ Len(Tail(s)) = Len(s) - 1 /\ Head(s) = s[1] /\ Head(s) \in S
         /\ \A i \in 1..Len(Tail(s)) : Tail(s)[i] = s[i + 1] /\ i + 1 \in DOMAIN s
OBVIOUS

(* Every step of the wizard keeps its form.                                  *)
LEMMA FormStep ==
  ASSUME Types, FormInv, WizardStep
  PROVE  FormInv'
<1>0. wiz.plan \in Seq(RecoveryKinds) /\ Shape /\ Chosen /\ Chosen'
  BY ChosenStep DEF FormInv, Types, WizardTypes, Wizards
<1>1. ASSUME Browses PROVE FormInv'
  BY <1>0, <1>1 DEF Browses, FormInv, SendsLastBootstrap, Seeded
<1>2. ASSUME NEW net \in BOOLEAN, Chooses(net) PROVE FormInv'
  <2>1. SendsLastBootstrap'
    BY <1>0, <1>2, PlanForm
  <2> QED BY <1>0, <1>2, <2>1 DEF Chooses, FormInv
<1>3. ASSUME Generates \/ Generated PROVE FormInv'
  BY <1>0, <1>3 DEF Generates, Generated, FormInv, SendsLastBootstrap
<1>4. ASSUME Sends \/ GivesUp \/ Completes PROVE FormInv'
  BY <1>0, <1>4 DEF Sends, GivesUp, Completes, FormInv, SendsLastBootstrap, Shape
<1>5. ASSUME Receives PROVE FormInv'
  <2>1. CASE wiz'.plan = Tail(wiz.plan)
    <3> DEFINE t == Tail(wiz.plan)
    <3>1. wiz.plan # <<>>
      BY <1>5 DEF Receives
    <3>2. /\ t \in Seq(RecoveryKinds) /\ Len(t) = Len(wiz.plan) - 1
          /\ \A i \in 1..Len(t) : t[i] = wiz.plan[i + 1] /\ i + 1 \in DOMAIN wiz.plan
      BY <1>0, <3>1, Tailed
    <3> HIDE DEF t
    <3>3. wiz'.plan = t /\ wiz'.confirmed = wiz.confirmed
      BY <1>5, <2>1 DEF Receives, t
    <3>4. SendsLastBootstrap'
      <4>1. SUFFICES ASSUME NEW i \in 1..Len(t)
                     PROVE  /\ t[i] \in Sent
                            /\ t[i] = "bootstrap" <=> i = Len(t)
                            /\ t[i] = "storage" => wiz.confirmed \in {"device", "defaulted"}
        BY <3>2, <3>3 DEF SendsLastBootstrap
      <4> QED BY <3>2, <1>0 DEF FormInv, SendsLastBootstrap
    <3> QED BY <1>0, <1>5, <3>4 DEF Receives, FormInv, Shape
  <2>2. CASE wiz'.plan \in {wiz.plan, <<>>}
    BY <1>0, <1>5, <2>2 DEF Receives, FormInv, SendsLastBootstrap, Shape
  <2> QED BY <1>5, <2>1, <2>2 DEF Receives
<1> QED BY <1>1, <1>2, <1>3, <1>4, <1>5, WizardCases DEF FormInv

(* The wizard keeps its form, whatever the daemon and the panel do.          *)
LEMMA NextForm ==
  ASSUME Types, FormInv, [Next]_wizVars
  PROVE  FormInv'
<1>1. CASE wiz' = wiz
  BY <1>1 DEF FormInv, SendsLastBootstrap, Chosen
<1> QED BY <1>1, FormStep DEF Next, PanelRequest, wizVars

(* What the wizard's own fields say of each other, in every state.           *)
THEOREM FormHolds == Spec => []FormInv
<1>1. ASSUME Types, FormInv, [Next]_wizVars PROVE FormInv'
  BY <1>1, NextForm
<1>2. WizInit => FormInv
  BY DEF WizInit, Off, FormInv, SendsLastBootstrap, Chosen
<1> QED BY <1>1, <1>2, TypesHold, PTL DEF Spec

(* What the wizard has asked for and not yet collected.                      *)
KeyAsked == InFlight(Wizard) /\ call[Wizard].kind \in {"key", "noKey"}
AskInv ==
  /\ calls = 0 => call[Panel] = Idle
  /\ wiz.step = "generate" /\ wiz.sent => call[Wizard].at = "idle" \/ KeyAsked
  /\ wiz.busy /\ wiz.sent => call[Wizard].at = "idle" \/ (InFlight(Wizard) /\ call[Wizard].kind = Head(wiz.plan))
  /\ KeyAsked => wiz.step \notin Seeded
  /\ wiz.step \in Seeded /\ ~wiz.sent => call[Wizard].at = "idle"

(* The parties and who of them looks at answers.                             *)
LEMMA Named ==
  /\ Wizard \in Clients /\ Panel \in Clients /\ Wizard # Panel /\ Watching = {Wizard}
  /\ Parties = {Wizard, Panel, Updater} /\ Updater # Wizard /\ Updater # Panel
  /\ Wizard \in Parties /\ Panel \in Parties /\ Updater \in Parties
BY WizardAndPanel, UpdaterIsNoClient DEF Parties

(* What a request does to everybody's state: a key is never answered at once *)
(* with success.                                                             *)
LEMMA RequestCall ==
  ASSUME Types, NEW c \in Clients, NEW kind \in Kinds, Request(c, kind)
  PROVE  /\ \A d \in Parties : d # c => call'[d] = call[d] \/ call'[d] = Idle
         /\ \/ call'[c].at = "idle"
            \/ InFlight(c)' /\ call'[c].kind = kind
            \/ InFlight(c)' /\ kind = "key" /\ call'[c].kind = "noKey"
            \/ kind = "connect"
         /\ kind = "key" => ~(call'[c].at = "idle" /\ call'[c].ans = "ok")
         /\ dkm' = dkm \/ (kind = "key" /\ dkm' = TRUE)
<1>0. DaemonTypes /\ c \in Parties
  BY DEF Types, Parties
<1>1. CASE kind = "reboot" /\ Stop
  <2>1. \A d \in Parties : call'[d] = Idle
    BY <1>1 DEF Stop
  <2> QED BY <1>0, <1>1, <2>1, NoJobIs DEF Stop
<1>2. CASE Asked(c, kind)
  <2>1. CASE \E ans \in {"ok", "refused"} : Reply(c, ans) /\ (kind = "key" => ans = "refused") /\ UNCHANGED dkm
    BY <1>0, <2>1, Replied, NoJobIs
  <2>2. CASE \E k \in Kinds : Proceed(c, k) /\ (k = kind \/ (kind = "key" /\ k = "noKey"))
             /\ (dkm' = dkm \/ (kind = "key" /\ dkm' = TRUE))
    BY <1>0, <2>2, Proceeded DEF InFlight
  <2>3. CASE /\ kind = "connect" /\ (\A d \in Parties : d # c => call'[d] = call[d]) /\ UNCHANGED dkm
    BY <2>3
  <2>4. "noKey" \in Kinds /\ "key" \in Kinds /\ "key" \notin JobKinds
    BY DEF Kinds, RecoveryKinds, JobKinds
  <2> QED BY <1>2, <2>1, <2>2, <2>3, <2>4 DEF Asked
<1> QED BY <1>0, <1>1, <1>2, RequestEffect

(* A step of the daemon takes a client's request on, ends it, or leaves it;  *)
(* a key that was not made never ends with success.                          *)
LEMMA SystemCall ==
  ASSUME Types, BaseInv, System, NEW c \in Clients
  PROVE  \/ call'[c] = call[c] \/ call'[c] = Idle
         \/ InFlight(c) /\ InFlight(c)' /\ call'[c].kind = call[c].kind
         \/ /\ InFlight(c) \/ call[c].at = "connect"
            /\ call'[c].at = "idle" /\ call'[c].kind = "none"
            /\ InFlight(c) /\ call[c].kind = "noKey" => call'[c].ans # "ok"
<1>0. DaemonTypes /\ c \in Parties /\ c # Updater /\ Updater \in Parties
  BY UpdaterIsNoClient DEF Types, Parties
<1> DEFINE Goal == \/ call'[c] = call[c] \/ call'[c] = Idle
                   \/ InFlight(c) /\ InFlight(c)' /\ call'[c].kind = call[c].kind
                   \/ /\ InFlight(c) \/ call[c].at = "connect"
                      /\ call'[c].at = "idle" /\ call'[c].kind = "none"
                      /\ InFlight(c) /\ call[c].kind = "noKey" => call'[c].ans # "ok"
<1>1. ASSUME NEW o \in Parties, Handler(o) PROVE Goal
  <2>1. CASE o # c
    BY <1>1, <2>1, <1>0, GetEffect, AssignEffect, StoreEffect DEF Handler
  <2>2. ASSUME o = c, NEW ans \in {"ok", "refused"}, Reply(c, ans), call[c].kind = "noKey" => ans = "refused", InFlight(c)
        PROVE  Goal
    BY <1>0, <2>2, Replied, NoJobIs
  <2>3. CASE o = c /\ GetState(c)
    BY <2>3, <1>0, GetEffect DEF InFlight
  <2>4. CASE o = c /\ Assign(c)
    <3>1. InFlight(c)
      BY <2>4 DEF Assign, InFlight
    <3>2. CASE Reply(c, Answer(c))
      BY <2>2, <2>4, <3>1, <3>2 DEF Answer
    <3>3. CASE call'[c].at = "store" /\ call'[c].kind = call[c].kind
      BY <3>1, <3>3 DEF InFlight
    <3> QED BY <3>2, <3>3, <1>0, <2>4, AssignEffect
  <2>5. CASE o = c /\ StoreRow(c)
    <3>1. InFlight(c)
      BY <2>5 DEF StoreRow, InFlight
    <3>2. Reply(c, Answer(c)) \/ Reply(c, "refused")
      BY <2>5, <1>0, StoreEffect
    <3> QED BY <2>2, <2>5, <3>1, <3>2 DEF Answer
  <2> QED BY <1>1, <2>1, <2>3, <2>4, <2>5 DEF Handler
<1>2. ASSUME NEW o \in Clients, Connect(o) PROVE Goal
  <2>1. o \in Parties /\ call[o].at = "connect" /\ \E ans \in {"ok", "refused"} : Reply(o, ans)
    BY <1>2 DEF Connect, Parties
  <2>2. CASE o # c
    BY <1>0, <2>1, <2>2, Replied
  <2>3. CASE o = c
    <3>1. ~InFlight(c)
      BY <2>1, <2>3 DEF InFlight
    <3> QED BY <1>0, <2>1, <2>3, <3>1, Replied
  <2> QED BY <2>2, <2>3
<1>3. CASE Reboot \/ Crash \/ EnterRecovery
  BY <1>0, <1>3 DEF Reboot, Crash, EnterRecovery, Stop
<1>4. ASSUME UpdaterStep, ~Reboot PROVE call'[c] = call[c]
  <2>0. job.kind \in Kinds
    BY <1>0, StepNames DEF DaemonTypes, Works
  <2>1. ASSUME NEW step, NEW kind \in Kinds, NEW next, Change(step, kind, next) PROVE call'[c] = call[c]
    BY <1>0, <2>1, ChangeEffect
  <2>2. CASE SmallJob \/ Change("extra", "extra", "finish") \/ Finish
    BY <2>0, <2>1, <2>2, StepNames DEF SmallJob, Finish
  <2>3. CASE TakeJob \/ SetPendingNetwork \/ Bootstrap \/ TryConnect \/ InitSystem \/ CloseDB \/ InitStorageDevice
    BY <2>3 DEF TakeJob, SetPendingNetwork, Bootstrap, TryConnect, InitSystem, CloseDB, InitStorageDevice
  <2>4. CASE CopyOut \/ ApplyOverlay \/ CopyBack \/ Reoverlay \/ AddSource \/ Choose("extras", {"extra", "finish"})
    BY <2>4 DEF CopyOut, ApplyOverlay, CopyBack, Reoverlay, AddSource, Choose
  <2> QED BY <1>4, <2>2, <2>3, <2>4 DEF UpdaterStep, Extras
<1>5. CASE Boot
  BY <1>5 DEF Boot, Start, DidEnterRecovery, UnforceRecovery
<1> QED BY <1>1, <1>2, <1>3, <1>4, <1>5 DEF System

(* The daemon's steps keep what the wizard waits for.                        *)
LEMMA AskSystem ==
  ASSUME Types, BaseInv, AskInv, System, UNCHANGED <<wiz, calls>>
  PROVE  AskInv'
<1>1. call[Panel] = Idle => call'[Panel] = Idle
  BY Named, SystemCall, NoJobIs DEF InFlight
<1>2. KeyAsked' => KeyAsked
  BY Named, SystemCall, NoJobIs DEF KeyAsked, InFlight
<1>3. call[Wizard].at = "idle" => call'[Wizard].at = "idle"
  BY Named, SystemCall, NoJobIs DEF InFlight
<1>4. KeyAsked => call'[Wizard].at = "idle" \/ KeyAsked'
  BY Named, SystemCall, NoJobIs DEF KeyAsked, InFlight
<1>5. InFlight(Wizard) => call'[Wizard].at = "idle" \/ (InFlight(Wizard)' /\ call'[Wizard].kind = call[Wizard].kind)
  BY Named, SystemCall, NoJobIs DEF InFlight
<1> QED BY <1>1, <1>2, <1>3, <1>4, <1>5 DEF AskInv

(* A request of the panel leaves the wizard's alone, or takes the daemon     *)
(* down.                                                                     *)
LEMMA AskPanel ==
  ASSUME Types, AskInv, PanelRequest
  PROVE  AskInv'
<1>1. calls \in Nat /\ calls' = calls + 1 /\ UNCHANGED wiz
  BY DEF PanelRequest, Types, WizardTypes
<1>2. PICK kind \in Kinds : Request(Panel, kind)
  BY DEF PanelRequest, Routes, Kinds
<1>3. call'[Wizard] = call[Wizard] \/ call'[Wizard] = Idle
  BY <1>2, Named, RequestCall
<1> QED BY <1>1, <1>3, NoJobIs DEF AskInv, KeyAsked, InFlight

(* The wizard's steps keep what it waits for.                                *)
LEMMA AskWizard ==
  ASSUME Types, BaseInv, FormInv, AskInv, WizardStep
  PROVE  AskInv'
<1>0. UNCHANGED calls /\ wiz.plan \in Seq(RecoveryKinds) /\ Shape
  BY WizardCases DEF FormInv, Types, WizardTypes, Wizards
<1>1. ASSUME Browses PROVE AskInv'
  BY <1>0, <1>1 DEF Browses, AskInv, KeyAsked, InFlight, vars, Shape, Seeded, FormInv
<1>2. ASSUME NEW net \in BOOLEAN, Chooses(net) PROVE AskInv'
  BY <1>0, <1>2 DEF Chooses, AskInv, KeyAsked, InFlight, vars, Seeded, FormInv
<1>3. ASSUME Generates PROVE AskInv'
  <2>1. Request(Wizard, "key") /\ "key" \in Kinds /\ wiz'.step = "generate" /\ ~wiz'.busy
    BY <1>0, <1>3 DEF Generates, Kinds, RecoveryKinds, Shape
  <2>2. call'[Wizard].at = "idle" \/ KeyAsked'
    BY <2>1, Named, RequestCall DEF KeyAsked
  <2>3. call[Panel] = Idle => call'[Panel] = Idle
    BY <2>1, Named, RequestCall
  <2> QED BY <1>0, <2>1, <2>2, <2>3 DEF AskInv, Seeded
<1>4. ASSUME Generated \/ Receives PROVE AskInv'
  <2>1. ~wiz'.sent /\ call'[Wizard] = Idle /\ call'[Panel] = call[Panel]
    BY <1>4, Named, CollectedCall DEF Generated, Receives, Types
  <2> QED BY <1>0, <2>1, NoJobIs DEF AskInv, KeyAsked, InFlight
<1>5. ASSUME Sends PROVE AskInv'
  <2>1. /\ wiz.step = "finalizing" /\ wiz'.step = wiz.step /\ wiz'.plan = wiz.plan /\ wiz'.sent
        /\ Request(Wizard, Head(wiz.plan)) /\ wiz.plan # <<>>
    BY <1>0, <1>5 DEF Sends, Shape
  <2>2. Head(wiz.plan) \in Sent
    <3>1. Head(wiz.plan) = wiz.plan[1] /\ 1 \in DOMAIN wiz.plan
      BY <1>0, <2>1
    <3> QED BY <3>1 DEF FormInv, SendsLastBootstrap
  <2>3. Head(wiz.plan) \in Kinds /\ Head(wiz.plan) \notin {"key", "connect"}
    BY <2>2 DEF Sent, Kinds, RecoveryKinds
  <2>4. call'[Wizard].at = "idle" \/ (InFlight(Wizard)' /\ call'[Wizard].kind = Head(wiz.plan))
    BY <2>1, <2>3, Named, RequestCall
  <2>5. call[Panel] = Idle => call'[Panel] = Idle
    BY <2>1, <2>3, Named, RequestCall
  <2>6. ~KeyAsked'
    BY <2>2, <2>4 DEF KeyAsked, InFlight, Sent
  <2> QED BY <1>0, <2>1, <2>4, <2>5, <2>6 DEF AskInv
<1>6. ASSUME GivesUp \/ Completes PROVE AskInv'
  BY <1>0, <1>6 DEF GivesUp, Completes, AskInv, KeyAsked, InFlight, vars, Shape, Seeded
<1> QED BY <1>1, <1>2, <1>3, <1>4, <1>5, <1>6, WizardCases DEF FormInv

(* Every step keeps what the wizard waits for.                               *)
LEMMA AskStep ==
  ASSUME Types, BaseInv, FormInv, AskInv, [Next]_wizVars
  PROVE  AskInv'
<1>1. CASE UNCHANGED wizVars
  BY <1>1 DEF wizVars, vars, AskInv, KeyAsked, InFlight
<1> QED BY <1>1, AskSystem, AskPanel, AskWizard DEF Next

(* What is in flight for the wizard is what its screen says it asked for; a  *)
(* panel that sent nothing is idle.                                          *)
THEOREM AskHolds == Spec => []AskInv
<1>1. ASSUME Types, BaseInv, FormInv, AskInv, [Next]_wizVars PROVE AskInv'
  BY <1>1, AskStep
<1>2. WizInit => AskInv
  <2> SUFFICES ASSUME WizInit PROVE AskInv
    OBVIOUS
  <2>1. call[Panel] = Idle /\ call[Wizard] = Idle /\ wiz = Off
    BY Named DEF WizInit, Init
  <2> QED BY <2>1, NoJobIs DEF AskInv, KeyAsked, InFlight, Off
<1> QED BY <1>1, <1>2, BaseHolds, TypesHold, FormHolds, PTL DEF Spec

(* Storage that somebody has asked for and nobody has prepared yet: in a     *)
(* request, in memory, on a disk, in the copy, in a job.                     *)
WantsStorage(c) == InFlight(c) /\ (call[c].kind = "storage" \/ call[c].got.storage)
(* It is somewhere if it is in flight, in memory, saved, or in the running   *)
(* job.                                                                      *)
StorageSomewhere ==
  \/ mem.box.storage \/ temp.rows.box.storage \/ job.storage
  \/ \E d \in {"base", "device"} : data[d].rows.box.storage
  \/ \E c \in Parties : WantsStorage(c)

(* A party that goes on as it was wants storage only if it did.              *)
LEMMA WantsSame ==
  ASSUME NEW c, call'[c] = call[c] \/ ~InFlight(c)', WantsStorage(c)'
  PROVE  WantsStorage(c)
BY DEF WantsStorage, InFlight

(* Stopping the process makes nobody want storage who did not.               *)
LEMMA StopStorage ==
  ASSUME Stop, UNCHANGED temp, \A d \in {"base", "device"} : data'[d].rows = data[d].rows
  PROVE  ~(\E c \in Parties : WantsStorage(c)') /\ (StorageSomewhere' => StorageSomewhere)
<1>1. mem' = Fresh /\ job' = NoJob /\ \A c \in Parties : call'[c] = Idle
  BY DEF Stop
<1>2. ~mem'.box.storage
  BY <1>1, NoJobIs DEF Fresh
<1>3. \A c \in Parties : ~WantsStorage(c)'
  BY <1>1, NoJobIs DEF WantsStorage, InFlight
<1> QED BY <1>1, <1>2, <1>3, NoJobIs DEF StorageSomewhere

(* No request but the one for storage brings the storage flag into the       *)
(* system.                                                                   *)
LEMMA RequestStorage ==
  ASSUME Types, NEW c \in Clients, NEW kind \in Kinds, kind # "storage", Request(c, kind)
  PROVE  StorageSomewhere' => StorageSomewhere
<1>0. DaemonTypes /\ c \in Parties
  BY DEF Types, Parties
<1>1. CASE Stop /\ UNCHANGED <<data, temp>>
  BY <1>1, StopStorage
<1>2. CASE DaemonFrame /\ Asked(c, kind)
  <2>1. \A d \in Parties : d # c => call'[d] = call[d]
    <3>1. ASSUME NEW ans \in {"ok", "refused"}, Reply(c, ans) PROVE \A d \in Parties : d # c => call'[d] = call[d]
      BY <1>0, <3>1, Replied
    <3>2. ASSUME NEW k \in Kinds, Proceed(c, k) PROVE \A d \in Parties : d # c => call'[d] = call[d]
      BY <1>0, <3>2, Proceeded
    <3> QED BY <1>2, <3>1, <3>2 DEF Asked, Kinds, RecoveryKinds, NormalKinds
  <2>2. ~WantsStorage(c)'
    <3>1. ASSUME NEW ans \in {"ok", "refused"}, Reply(c, ans) PROVE ~WantsStorage(c)'
      BY <1>0, <3>1, Replied DEF WantsStorage, InFlight
    <3>2. ASSUME NEW k \in Kinds, Proceed(c, k), k # "storage" PROVE ~WantsStorage(c)'
      BY <1>0, <3>2, Proceeded, NoJobIs DEF WantsStorage
    <3> QED BY <1>2, <3>1, <3>2, NoJobIs DEF Asked, Kinds, RecoveryKinds, NormalKinds, WantsStorage, InFlight
  <2>3. \A d \in Parties : WantsStorage(d)' => WantsStorage(d)
    BY <2>1, <2>2, WantsSame
  <2> QED BY <1>2, <2>3 DEF DaemonFrame, StorageSomewhere
<1> QED BY <1>0, <1>1, <1>2, RequestEffect

(* A read-modify-write brings in no storage flag that was not in flight, in  *)
(* memory or asked for.                                                      *)
LEMMA HandlerStorage ==
  ASSUME Types, BaseInv, NEW c \in Parties, Handler(c)
  PROVE  StorageSomewhere' => StorageSomewhere
<1> DEFINE new == Changed(call[c].kind, call[c].got)
<1>0. DaemonTypes /\ InFlight(c)
  BY DEF Handler, GetState, Assign, StoreRow, InFlight, Types
<1>1. \A o \in Parties : InFlight(o) =>
        call[o].kind \in Writes /\ call[o].got \in Box
        /\ (Changed(call[o].kind, call[o].got).storage => WantsStorage(o))
  <2>1. SUFFICES ASSUME NEW o \in Parties, InFlight(o)
                 PROVE  /\ call[o].kind \in Writes /\ call[o].got \in Box
                        /\ Changed(call[o].kind, call[o].got).storage => WantsStorage(o)
    OBVIOUS
  <2>2. call[o].kind \in Writes /\ call[o].got \in Box
    BY <2>1, <1>0, KindsInFlight DEF BaseInv, DaemonTypes, Calls
  <2> QED BY <2>1, <2>2, ChangedFacts DEF WantsStorage
<1>2. ASSUME GetState(c) PROVE StorageSomewhere' => StorageSomewhere
  <2>1. PICK b \in Reads : call'[c].at = "assign" /\ call'[c].kind = call[c].kind /\ call'[c].got = b
    BY <1>2, GetEffect
  <2>2. DaemonFrame /\ \A d \in Parties : d # c => call'[d] = call[d]
    BY <1>2, GetEffect
  <2>3. b.storage => StorageSomewhere
    <3>1. CASE b = mem.box
      BY <3>1 DEF StorageSomewhere
    <3>2. ASSUME NEW o \in Parties, call[o].at = "assign",
                 b.storage => mem.box.storage \/ Changed(call[o].kind, call[o].got).storage
          PROVE  b.storage => StorageSomewhere
      BY <1>1, <3>2 DEF StorageSomewhere, InFlight
    <3> QED BY <3>1, <3>2, ReadFacts
  <2>4. \A d \in Parties : WantsStorage(d)' => StorageSomewhere
    <3>1. WantsStorage(c)' => StorageSomewhere
      BY <1>0, <2>1, <2>3 DEF WantsStorage, StorageSomewhere
    <3> QED BY <2>2, <3>1, WantsSame DEF StorageSomewhere
  <2> QED BY <2>2, <2>4 DEF DaemonFrame, StorageSomewhere
<1>3. ASSUME Assign(c) PROVE StorageSomewhere' => StorageSomewhere
  <2>1. UNCHANGED <<data, temp, job>> /\ \A d \in Parties : d # c => call'[d] = call[d]
    BY <1>3, AssignEffect
  <2>2. mem' = mem \/ mem'.box = new
    BY <1>0, <1>3, AssignEffect DEF DaemonTypes, RowsSet
  <2>3. WantsStorage(c)' => WantsStorage(c)
    <3>1. Reply(c, Answer(c)) => ~WantsStorage(c)'
      BY <1>0, Replied DEF Answer, WantsStorage, InFlight
    <3> QED BY <1>0, <1>3, <3>1, AssignEffect DEF WantsStorage, InFlight
  <2>4. \A d \in Parties : WantsStorage(d)' => WantsStorage(d)
    BY <2>1, <2>3, WantsSame
  <2> QED BY <1>0, <1>1, <2>1, <2>2, <2>4 DEF StorageSomewhere
<1>4. ASSUME StoreRow(c) PROVE StorageSomewhere' => StorageSomewhere
  <2>1. UNCHANGED <<mem, temp>> /\ (job' = job \/ job' = NoJob) /\ \A d \in Parties : d # c => call'[d] = call[d]
    BY <1>4, StoreEffect
  <2>2. new \in Box
    BY <1>0, <1>1, ChangedType
  <2>3. \A d \in {"base", "device"} : data'[d] = data[d] \/ data'[d].rows.box = new
    <3>1. data' = [data EXCEPT ![mounted].rows.box = new] => data'[mounted].rows.box = new
          /\ \A d \in {"base", "device"} : d # mounted => data'[d] = data[d]
      BY <1>0, <2>2, BoxWritten
    <3> QED BY <3>1, <1>4, StoreEffect
  <2>4. ~WantsStorage(c)'
    <3>1. Reply(c, Answer(c)) \/ Reply(c, "refused") => ~WantsStorage(c)'
      BY <1>0, Replied DEF Answer, WantsStorage, InFlight
    <3> QED BY <1>4, <3>1, StoreEffect, NoJobIs DEF WantsStorage, InFlight
  <2>5. \A d \in Parties : WantsStorage(d)' => WantsStorage(d)
    BY <2>1, <2>4, WantsSame
  <2> QED BY <1>0, <1>1, <2>1, <2>3, <2>5, NoJobIs DEF StorageSomewhere
<1> QED BY <1>2, <1>3, <1>4 DEF Handler

(* The updater brings in no storage flag that was not there.                 *)
LEMMA UpdaterStorage ==
  ASSUME Types, BaseInv, UpdaterStep, ~Reboot
  PROVE  StorageSomewhere' => StorageSomewhere
<1>0. DaemonTypes /\ job.kind \in Kinds /\ mounted \in {"base", "device"} /\ Updater \in Parties
  BY StepNames DEF Types, DaemonTypes, Works, Parties
<1>u. ASSUME UNCHANGED call PROVE \A c \in Parties : WantsStorage(c)' => WantsStorage(c)
  BY <1>u, WantsSame
<1>1. ASSUME SmallJob \/ Extras \/ Finish PROVE StorageSomewhere' => StorageSomewhere
  <2>1. ASSUME NEW step \in {"change", "extra", "finish"}, NEW kind \in Kinds, kind # "storage",
               NEW next \in {"end", "finish", "reboot"}, Change(step, kind, next)
        PROVE  StorageSomewhere' => StorageSomewhere
    <3>1. /\ UNCHANGED <<mem, data, temp>> /\ (job'.storage => job.storage)
          /\ \A c \in Parties : c # Updater => call'[c] = call[c]
          /\ \/ call'[Updater].at = "get" /\ call'[Updater].kind = kind /\ call'[Updater].got = NoBox
             \/ call'[Updater] = Idle
      BY <1>0, <2>1, ChangeEffect, GoEffect, NoJobIs
    <3>2. ~WantsStorage(Updater)'
      BY <2>1, <3>1, NoJobIs DEF WantsStorage, InFlight
    <3>3. \A c \in Parties : WantsStorage(c)' => WantsStorage(c)
      BY <3>1, <3>2, WantsSame
    <3> QED BY <3>1, <3>3 DEF StorageSomewhere
  <2>2. ASSUME Choose("extras", {"extra", "finish"}) PROVE StorageSomewhere' => StorageSomewhere
    <3>1. UNCHANGED <<mem, data, temp, call>> /\ job'.storage = job.storage
      BY <1>0, <2>2, GoEffect DEF Choose, disks
    <3> QED BY <3>1, <1>u DEF StorageSomewhere
  <2>3. SmallJob => Change("change", job.kind, "end") /\ job.kind # "storage"
    BY DEF SmallJob, Change, At, BaseInv, CallInv
  <2> QED BY <1>0, <1>1, <2>1, <2>2, <2>3, StepNames DEF Extras, Finish
<1>2. ASSUME TakeJob \/ InitSystem \/ CloseDB \/ Reoverlay \/ Bootstrap PROVE StorageSomewhere' => StorageSomewhere
  <2>1. UNCHANGED <<mem, data, temp, call>>
    BY <1>2 DEF TakeJob, InitSystem, CloseDB, Reoverlay, Bootstrap, disks
  <2>2. job'.storage => job.storage \/ mem.box.storage
    <3>1. CASE TakeJob
      BY <3>1 DEF TakeJob, NoJob
    <3>2. CASE Bootstrap
      BY <1>0, <3>2, NoJobIs DEF Bootstrap, DaemonTypes, Works
    <3>3. CASE InitSystem \/ CloseDB \/ Reoverlay
      BY <1>0, <3>3, GoEffect, NoJobIs DEF InitSystem, CloseDB, Reoverlay, Failed
    <3> QED BY <1>2, <3>1, <3>2, <3>3
  <2> QED BY <2>1, <2>2, <1>u DEF StorageSomewhere
<1>3. ASSUME SetPendingNetwork \/ TryConnect \/ AddSource PROVE StorageSomewhere' => StorageSomewhere
  <2>1. UNCHANGED <<temp, call>>
    BY <1>3 DEF SetPendingNetwork, TryConnect, AddSource
  <2>2. job'.storage => job.storage
    <3>1. CASE SetPendingNetwork
      BY <1>0, <3>1, NoJobIs DEF SetPendingNetwork, DaemonTypes, Works
    <3>2. CASE TryConnect \/ AddSource
      BY <1>0, <3>2, GoEffect, NoJobIs DEF TryConnect, AddSource
    <3> QED BY <1>3, <3>1, <3>2
  <2>3. mem'.box = mem.box /\ \A d \in {"base", "device"} : data'[d].rows.box = data[d].rows.box
    <3>1. CASE TryConnect
      <4>1. SwapOutcome
        BY <1>0, <3>1, SwapEffect DEF TryConnect
      <4> QED BY <4>1 DEF SwapOutcome
    <3>2. CASE AddSource
      <4>1. mem'.box = mem.box
        BY <1>0, <3>2 DEF AddSource, DaemonTypes, RowsSet
      <4> QED BY <1>0, <3>2, <4>1, SrcWritten DEF AddSource
    <3>3. CASE SetPendingNetwork
      <4>1. [job.net EXCEPT !.pending = TRUE] \in Net
        BY <1>0 DEF DaemonTypes, Works, Net
      <4>2. mem'.box = mem.box /\ mem' \in RowsSet
        BY <1>0, <3>3, <4>1, NetTypes DEF SetPendingNetwork, DaemonTypes, RowsSet
      <4>3. CASE data' = [data EXCEPT ![mounted].rows.net = mem'.net]
        <5>1. mem'.net \in Net
          BY <4>2 DEF RowsSet
        <5> QED BY <1>0, <4>2, <4>3, <5>1, NetWritten
      <4> QED BY <3>3, <4>2, <4>3 DEF SetPendingNetwork
    <3> QED BY <1>3, <3>1, <3>2, <3>3
  <2> QED BY <2>1, <2>2, <2>3, <1>u DEF StorageSomewhere
<1>4. ASSUME InitStorageDevice \/ CopyOut \/ ApplyOverlay \/ CopyBack PROVE StorageSomewhere' => StorageSomewhere
  <2>1. UNCHANGED <<mem, call>>
    BY <1>4 DEF InitStorageDevice, CopyOut, ApplyOverlay, CopyBack
  <2>2. job'.storage => job.storage
    BY <1>0, <1>4, GoEffect, NoJobIs DEF InitStorageDevice, CopyOut, ApplyOverlay, CopyBack, Failed
  <2>3. temp' \in {temp, Empty, data[mounted]}
    BY <1>4 DEF InitStorageDevice, CopyOut, ApplyOverlay, CopyBack
  <2>4. \A d \in {"base", "device"} : data'[d] = data[d] \/ data'[d] = Empty \/ data'[d].rows = temp.rows
    <3>1. CASE InitStorageDevice
      BY <1>0, <3>1 DEF InitStorageDevice, DaemonTypes
    <3>2. CASE CopyBack
      <4>1. data' = data \/ data' = [data EXCEPT !["device"] = [temp EXCEPT !.force = @ \/ data.device.force]]
        BY <3>2 DEF CopyBack
      <4> QED BY <1>0, <4>1 DEF DaemonTypes, Contents
    <3>3. CASE CopyOut \/ ApplyOverlay
      BY <3>3 DEF CopyOut, ApplyOverlay
    <3> QED BY <1>4, <3>1, <3>2, <3>3
  <2> QED BY <1>0, <2>1, <2>2, <2>3, <2>4, <1>u, EmptyIs DEF StorageSomewhere
<1> QED BY <1>1, <1>2, <1>3, <1>4 DEF UpdaterStep

(* The daemon's steps bring in no storage flag that was not there.           *)
LEMMA SystemStorage ==
  ASSUME Types, BaseInv, System
  PROVE  StorageSomewhere' => StorageSomewhere
<1>1. ASSUME NEW c \in Clients, Connect(c) PROVE StorageSomewhere' => StorageSomewhere
  <2>1. DaemonTypes /\ c \in Parties /\ UNCHANGED <<temp, job>>
    BY <1>1 DEF Connect, jobs, Types, Parties
  <2>2. SwapOutcome
    BY <1>1, <2>1, SwapEffect DEF Connect
  <2>3. \A d \in Parties : WantsStorage(d)' => WantsStorage(d)
    <3>1. \A d \in Parties : call'[d] = call[d] \/ ~InFlight(d)'
      BY <1>1, <2>1, Replied DEF Connect, InFlight
    <3> QED BY <3>1, WantsSame
  <2> QED BY <2>1, <2>2, <2>3 DEF SwapOutcome, StorageSomewhere
<1>2. CASE Reboot \/ Crash \/ EnterRecovery
  <2>1. Stop /\ UNCHANGED temp /\ \A d \in {"base", "device"} : data'[d].rows = data[d].rows
    BY <1>2 DEF Reboot, Crash, EnterRecovery, disks, Types, DaemonTypes, Contents
  <2> QED BY <2>1, StopStorage
<1>3. CASE Boot
  <2>1. UNCHANGED <<call, job, temp>>
    BY <1>3, Started DEF Boot, DidEnterRecovery, UnforceRecovery, jobs, Types
  <2>2. \A d \in {"base", "device"} : data'[d].rows = data[d].rows
    <3>1. CASE Start
      BY <3>1, Started DEF Types
    <3>2. CASE DidEnterRecovery \/ UnforceRecovery
      BY <3>2 DEF DidEnterRecovery, UnforceRecovery, Types, DaemonTypes, Contents
    <3> QED BY <1>3, <3>1, <3>2 DEF Boot
  <2>3. mem' = mem \/ \E d \in {"base", "device"} : mem'.box = data[d].rows.box
    <3>1. CASE Start
      <4>1. mounted' \in {"base", "device"} /\ mem'.box = data[mounted'].rows.box
        BY <3>1, Started DEF Types
      <4> QED BY <4>1
    <3> QED BY <1>3, <3>1 DEF Boot, DidEnterRecovery, UnforceRecovery
  <2>4. \A c \in Parties : WantsStorage(c)' => WantsStorage(c)
    BY <2>1, WantsSame
  <2> QED BY <2>1, <2>2, <2>3, <2>4 DEF StorageSomewhere
<1> QED BY <1>1, <1>2, <1>3, HandlerStorage, UpdaterStorage DEF System

(* The key: who asked for it, that it was made, and that nothing else        *)
(* happens before.                                                           *)
KeyCall == InFlight(Wizard) /\ call[Wizard].kind = "key"
KeyMade == wiz.step = "generate" /\ wiz.sent /\ Answered("ok")
Early == ~dkm \/ KeyCall \/ KeyMade \/ wiz.step \in {"seed", "network"}
Unsaved ==
  KeyCall => /\ call[Wizard].at \in {"get", "assign"} => "key" \notin mem.box.facts
             /\ call[Wizard].at = "assign" => "key" \notin call[Wizard].got.facts
Quiet ==
  /\ queue = <<>> /\ job = NoJob /\ call[Updater] = Idle
  /\ call[Wizard].at = "idle" \/ KeyAsked
  /\ ~StorageSomewhere
SeedInv ==
  /\ KeyCall \/ KeyMade \/ wiz.step \in Seeded => dkm
  /\ calls = 0 /\ (KeyMade \/ wiz.step \in Seeded) => "key" \in acked
  /\ calls = 0 => Unsaved
  /\ calls = 0 /\ Early => Quiet
  /\ calls = 0 /\ StorageSomewhere => wiz.confirmed \in {"device", "defaulted"}

(* No step of the daemon forgets the master key, nor the confirmation of the *)
(* key or the configured flag.                                               *)
LEMMA KeyStays ==
  ASSUME Types, System
  PROVE  dkm' = dkm /\ (\A f \in {"key", "configured"} : f \in acked => f \in acked')
<1> DEFINE Same == UNCHANGED <<dkm, acked>>
<1>0. job.kind \in Kinds
  BY StepNames DEF Types, DaemonTypes, Works
<1>1. ASSUME NEW c \in Parties, GetState(c) PROVE Same
  BY <1>1 DEF GetState, history
<1>2. ASSUME NEW c \in Parties, Assign(c) PROVE dkm' = dkm /\ (\A f \in {"key", "configured"} : f \in acked => f \in acked')
  BY <1>2, AssignEffect, Tables DEF Withdrawn
<1>3. ASSUME NEW c \in Parties, StoreRow(c) PROVE dkm' = dkm /\ (\A f \in {"key", "configured"} : f \in acked => f \in acked')
  BY <1>3, StoreEffect DEF Confirmed
<1>4. ASSUME NEW c \in Clients, Connect(c) PROVE Same
  BY <1>4 DEF Connect, history
<1>5. Reboot \/ Crash \/ EnterRecovery => Same
  BY DEF Reboot, Crash, EnterRecovery, Stop
<1>6. Boot => Same
  BY DEF Boot, Start, DidEnterRecovery, UnforceRecovery, history
<1>7. ASSUME NEW step, NEW kind \in Kinds, NEW next, Change(step, kind, next) PROVE Same
  BY <1>7, ChangeEffect
<1>8. SmallJob \/ Change("extra", "extra", "finish") \/ Finish => Same
  BY <1>0, <1>7, StepNames DEF SmallJob, Finish
<1>9. TakeJob \/ SetPendingNetwork \/ Bootstrap \/ TryConnect \/ InitSystem \/ CloseDB \/ InitStorageDevice => Same
  BY DEF TakeJob, SetPendingNetwork, Bootstrap, TryConnect, InitSystem, CloseDB, InitStorageDevice, history
<1>10. CopyOut \/ ApplyOverlay \/ CopyBack \/ Reoverlay \/ AddSource \/ Choose("extras", {"extra", "finish"}) => Same
  BY DEF CopyOut, ApplyOverlay, CopyBack, Reoverlay, AddSource, Choose, history
<1>11. UpdaterStep => Same
  BY <1>5, <1>8, <1>9, <1>10 DEF UpdaterStep, Extras
<1> QED BY <1>1, <1>2, <1>3, <1>4, <1>5, <1>6, <1>11 DEF System, Handler

(* If setup has not gone beyond the seed after a step of the daemon, it had  *)
(* not before it.                                                            *)
LEMMA EarlyBefore ==
  ASSUME Types, BaseInv, AskInv, System, UNCHANGED wiz
  PROVE  /\ KeyCall' => KeyCall /\ InFlight(Wizard)
         /\ KeyMade' => KeyMade \/ (KeyCall /\ call'[Wizard].at = "idle")
         /\ Early' => Early
<1>1. KeyCall' => KeyCall
  BY Named, SystemCall, NoJobIs DEF KeyCall, InFlight
<1>2. KeyMade' => KeyMade \/ (KeyCall /\ call'[Wizard].at = "idle")
  <2>1. SUFFICES ASSUME KeyMade' PROVE KeyMade \/ (KeyCall /\ call'[Wizard].at = "idle")
    OBVIOUS
  <2>2. wiz.step = "generate" /\ wiz.sent /\ call'[Wizard].at = "idle" /\ call'[Wizard].ans = "ok"
    BY <2>1 DEF KeyMade, Answered
  <2>3. call[Wizard].at = "idle" \/ KeyAsked
    BY <2>2 DEF AskInv
  <2>4. CASE call'[Wizard] = call[Wizard]
    BY <2>2, <2>4 DEF KeyMade, Answered
  <2>5. CASE call'[Wizard] # call[Wizard]
    <3>1. InFlight(Wizard) /\ call[Wizard].kind # "noKey"
      BY <2>2, <2>3, <2>5, Named, SystemCall, NoJobIs DEF InFlight, KeyAsked
    <3> QED BY <2>2, <2>3, <3>1 DEF KeyAsked, KeyCall, InFlight
  <2> QED BY <2>4, <2>5
<1>3. dkm' = dkm
  BY KeyStays
<1> QED BY <1>1, <1>2, <1>3 DEF Early, KeyCall

(* While setup has not gone beyond the seed and the panel is silent, only    *)
(* the wizard's own key is in flight.                                        *)
LEMMA EarlyAlone ==
  ASSUME Types, BaseInv, AskInv, Quiet, calls = 0, System
  PROVE  Handler(Wizard) \/ Boot \/ Crash \/ EnterRecovery
<1>1. call[Panel].at = "idle" /\ call[Updater].at = "idle" /\ job.at = "none" /\ queue = <<>>
  BY NoJobIs DEF AskInv, Quiet
<1>2. call[Wizard].at # "connect"
  BY DEF Quiet, KeyAsked, InFlight
<1>3. ASSUME NEW c \in Parties, Handler(c) PROVE c = Wizard
  BY <1>1, <1>3, Named DEF Handler, GetState, Assign, StoreRow
<1>4. \A c \in Clients : ~Connect(c)
  BY <1>1, <1>2, WizardAndPanel DEF Connect
<1>5. ~UpdaterStep
  BY <1>1 DEF UpdaterStep, TakeJob, SmallJob, SetPendingNetwork, Bootstrap, TryConnect, InitSystem, CloseDB,
              InitStorageDevice, CopyOut, ApplyOverlay, CopyBack, Reoverlay, AddSource, Extras, Finish, Reboot,
              Change, Choose, At
<1> QED BY <1>3, <1>4, <1>5 DEF System

(* A step of the daemon in such a state keeps it, and a key that ends with   *)
(* success is confirmed.                                                     *)
LEMMA QuietSystem ==
  ASSUME Types, BaseInv, AskInv, Quiet, Unsaved, calls = 0, System, UNCHANGED wiz
  PROVE  /\ Quiet' /\ Unsaved'
         /\ KeyCall /\ KeyMade' => "key" \in acked'
<1>0. DaemonTypes /\ Wizard \in Parties /\ Wizard # Updater /\ Wizard \in Watching
  BY Named DEF Types
<1>1. ~StorageSomewhere'
  BY SystemStorage DEF Quiet
<1>2. ASSUME Handler(Wizard)
      PROVE  Quiet' /\ Unsaved' /\ (KeyCall /\ KeyMade' => "key" \in acked')
  <2>1. KeyAsked /\ InFlight(Wizard)
    BY <1>2 DEF Quiet, KeyAsked, Handler, GetState, Assign, StoreRow, InFlight
  <2>2. call[Wizard].kind \in Writes /\ call[Wizard].got \in Box
    BY <1>0, <2>1, KindsInFlight DEF BaseInv, DaemonTypes, Calls
  <2>3. call'[Updater] = call[Updater] /\ call[Panel].at # "assign" /\ call[Updater].at # "assign"
    BY <1>0, <1>2, Named, GetEffect, AssignEffect, StoreEffect, NoJobIs DEF Handler, Quiet, AskInv
  <2>4. After(Wizard) => queue' = queue
    BY <2>1 DEF After, KeyAsked
  <2>5. ASSUME GetState(Wizard) PROVE Quiet' /\ Unsaved' /\ ~KeyMade'
    <3>1. PICK b \in Reads : call'[Wizard].at = "assign" /\ call'[Wizard].kind = call[Wizard].kind /\ call'[Wizard].got = b
      BY <1>0, <2>5, GetEffect
    <3>2. DaemonFrame /\ UNCHANGED queue /\ call[Wizard].at = "get"
      BY <1>0, <2>5, GetEffect
    <3>3. b = mem.box
      <4>1. \A o \in Parties : call[o].at # "assign"
        BY <2>3, <3>2, Named
      <4> QED BY <4>1, ReadFacts
    <3>4. KeyAsked'
      BY <2>1, <3>1 DEF KeyAsked, InFlight
    <3>5. Quiet'
      BY <1>1, <2>3, <3>2, <3>4 DEF Quiet, DaemonFrame
    <3>6. Unsaved'
      BY <2>1, <3>1, <3>2, <3>3 DEF Unsaved, KeyCall, InFlight, DaemonFrame
    <3>7. ~KeyMade'
      BY <3>1 DEF KeyMade, Answered
    <3> QED BY <3>5, <3>6, <3>7
  <2>6. ASSUME Assign(Wizard) PROVE Quiet' /\ Unsaved' /\ ~(KeyCall /\ KeyMade')
    <3>1. call[Wizard].at = "assign" /\ UNCHANGED job
      BY <1>0, <2>6, AssignEffect
    <3>2. CASE /\ Changed(call[Wizard].kind, call[Wizard].got) = call[Wizard].got
               /\ After(Wizard) /\ Reply(Wizard, Answer(Wizard))
      <4>1. call'[Wizard].at = "idle" /\ UNCHANGED queue
        BY <1>0, <2>4, <3>2, Replied DEF Answer
      <4>2. ~KeyCall
        BY <2>2, <3>1, <3>2, ChangedFacts DEF Unsaved, KeyCall
      <4>3. Quiet'
        BY <1>1, <2>3, <3>1, <4>1 DEF Quiet
      <4> QED BY <4>1, <4>2, <4>3 DEF Unsaved, KeyCall, InFlight
    <3>3. CASE UNCHANGED queue /\ call'[Wizard].at = "store" /\ call'[Wizard].kind = call[Wizard].kind
      <4>1. KeyAsked' /\ ~KeyMade'
        BY <2>1, <3>3 DEF KeyAsked, InFlight, KeyMade, Answered
      <4>2. Quiet'
        BY <1>1, <2>3, <3>1, <3>3, <4>1 DEF Quiet
      <4> QED BY <3>3, <4>1, <4>2 DEF Unsaved
    <3> QED BY <1>0, <2>6, <3>2, <3>3, AssignEffect
  <2>7. ASSUME StoreRow(Wizard) PROVE Quiet' /\ Unsaved' /\ (KeyCall /\ KeyMade' => "key" \in acked')
    <3>1. UNCHANGED job /\ (Reply(Wizard, Answer(Wizard)) \/ Reply(Wizard, "refused")) /\ UNCHANGED queue
      BY <1>0, <2>4, <2>7, StoreEffect
    <3>2. call'[Wizard].at = "idle"
      BY <1>0, <3>1, Replied DEF Answer
    <3>3. KeyCall /\ KeyMade' => "key" \in acked'
      <4>1. Reply(Wizard, "refused") => ~KeyMade'
        BY <1>0, Replied DEF KeyMade, Answered
      <4>2. KeyCall /\ Confirmed(call[Wizard].kind) => "key" \in acked'
        BY Tables DEF KeyCall, Confirmed
      <4> QED BY <1>0, <2>7, <4>1, <4>2, StoreEffect
    <3>4. Quiet'
      BY <1>1, <2>3, <3>1, <3>2 DEF Quiet
    <3> QED BY <3>2, <3>3, <3>4 DEF Unsaved, KeyCall, InFlight
  <2> QED BY <1>2, <2>5, <2>6, <2>7 DEF Handler
<1>3. ASSUME Boot PROVE Quiet' /\ Unsaved' /\ ~KeyCall
  <2>1. ~Running /\ UNCHANGED <<call, queue, job>>
    BY <1>3, Started DEF Boot, DidEnterRecovery, UnforceRecovery, Running, jobs, Types
  <2>2. call[Wizard] = Idle
    BY <2>1, <1>0 DEF BaseInv, CallInv
  <2> QED BY <1>1, <2>1, <2>2, NoJobIs DEF Quiet, Unsaved, KeyCall, InFlight
<1>4. ASSUME Crash \/ EnterRecovery PROVE Quiet' /\ Unsaved' /\ ~KeyMade'
  <2>1. queue' = <<>> /\ job' = NoJob /\ \A c \in Parties : call'[c] = Idle
    BY <1>4 DEF Crash, EnterRecovery, Stop
  <2> QED BY <1>1, <2>1, Named, NoJobIs DEF Quiet, Unsaved, KeyCall, KeyMade, Answered, InFlight
<1> QED BY <1>2, <1>3, <1>4, EarlyAlone

(* The daemon's steps keep SeedInv.                                          *)
LEMMA SeedSystem ==
  ASSUME Types, BaseInv, AskInv, SeedInv, System, UNCHANGED <<wiz, calls>>
  PROVE  SeedInv'
<1>1. KeyCall' \/ KeyMade' \/ wiz'.step \in Seeded => dkm'
  BY EarlyBefore, KeyStays DEF SeedInv
<1>2. KeyCall => Early
  BY DEF Early
<1>3. calls = 0 => Unsaved'
  <2>1. CASE KeyCall
    BY <1>2, <2>1, QuietSystem DEF SeedInv
  <2>2. CASE ~KeyCall
    BY <2>2, EarlyBefore DEF Unsaved
  <2> QED BY <2>1, <2>2
<1>4. calls = 0 /\ Early' => Quiet'
  BY EarlyBefore, QuietSystem DEF SeedInv
<1>5. calls = 0 /\ (KeyMade' \/ wiz'.step \in Seeded) => "key" \in acked'
  BY <1>2, EarlyBefore, QuietSystem, KeyStays DEF SeedInv
<1> QED BY <1>1, <1>3, <1>4, <1>5, SystemStorage DEF SeedInv

(* A request of the panel keeps SeedInv, which then says less.               *)
LEMMA SeedPanel ==
  ASSUME Types, SeedInv, PanelRequest
  PROVE  SeedInv'
<1>1. calls \in Nat /\ calls' = calls + 1 /\ UNCHANGED wiz
  BY DEF PanelRequest, Types, WizardTypes
<1>2. PICK kind \in Kinds : Request(Panel, kind)
  BY DEF PanelRequest, Routes, Kinds
<1>3. (call'[Wizard] = call[Wizard] \/ call'[Wizard] = Idle) /\ (dkm => dkm')
  BY <1>2, Named, RequestCall
<1> QED BY <1>1, <1>3, NoJobIs DEF SeedInv, KeyCall, KeyMade, Answered, InFlight

(* The wizard's steps keep SeedInv: a seed is shown after a successful       *)
(* answer only, and storage asked for only when confirmed.                   *)
LEMMA SeedWizard ==
  ASSUME Types, BaseInv, FormInv, AskInv, SeedInv, WizardStep
  PROVE  SeedInv' /\ (Early' => Early) /\ (KeyMade' => KeyMade)
<1>0. UNCHANGED calls /\ Shape /\ DaemonTypes /\ wiz.plan \in Seq(RecoveryKinds) /\ Wizard \in Watching
  BY WizardCases, Named DEF FormInv, Types, WizardTypes, Wizards
<1>v. ASSUME UNCHANGED vars
      PROVE  /\ dkm' = dkm /\ acked' = acked /\ (KeyCall' <=> KeyCall) /\ (KeyAsked' <=> KeyAsked) /\ (Quiet' <=> Quiet)
             /\ (Unsaved' <=> Unsaved) /\ (StorageSomewhere' <=> StorageSomewhere)
             /\ \A ans : Answered(ans)' <=> Answered(ans)
  BY <1>v DEF vars, KeyCall, KeyAsked, Quiet, Unsaved, StorageSomewhere, WantsStorage, InFlight, Answered
<1>1. ASSUME Browses PROVE SeedInv' /\ (Early' => Early) /\ (KeyMade' => KeyMade)
  <2>1. UNCHANGED vars
    BY <1>1 DEF Browses
  <2>2. wiz'.step \in Seeded => wiz.step \in Seeded
    BY <1>1 DEF Browses, Seeded
  <2>3. wiz'.step = "generate" => wiz.step = "generate" /\ wiz'.sent = wiz.sent
    BY <1>1 DEF Browses
  <2>4. KeyMade' => KeyMade
    BY <2>1, <2>3, <1>v DEF KeyMade
  <2>5. wiz'.step \in {"seed", "network"} => wiz.step \in {"seed", "network"}
    BY <1>1 DEF Browses, Seeded
  <2>6. Early' => Early
    BY <2>1, <2>4, <2>5, <1>v DEF Early
  <2>7. wiz'.confirmed = wiz.confirmed
    BY <1>1 DEF Browses
  <2> QED BY <1>0, <1>v, <2>1, <2>2, <2>4, <2>6, <2>7 DEF SeedInv
<1>2. ASSUME NEW net \in BOOLEAN, Chooses(net) PROVE SeedInv' /\ (Early' => Early) /\ (KeyMade' => KeyMade)
  <2>1. UNCHANGED vars /\ wiz.step = "network" /\ wiz'.step = "finalizing"
    BY <1>2 DEF Chooses
  <2>2. wiz.step \in Seeded /\ Early
    BY <2>1 DEF Seeded, Early
  <2>3. ~KeyMade'
    BY <2>1 DEF KeyMade
  <2> QED BY <1>0, <1>v, <2>1, <2>2, <2>3 DEF SeedInv, Quiet
<1>3. ASSUME Generates PROVE SeedInv' /\ (Early' => Early) /\ (KeyMade' => KeyMade)
  <2>1. /\ Request(Wizard, "key") /\ "key" \in Kinds /\ wiz'.step = "generate" /\ wiz'.sent
        /\ wiz'.confirmed = wiz.confirmed /\ "key" # "storage" /\ call[Wizard].at = "idle"
    BY <1>3 DEF Generates, Kinds, RecoveryKinds, Request
  <2>2. ~KeyMade'
    BY <2>1, Named, RequestCall DEF KeyMade, Answered
  <2>3. StorageSomewhere' => StorageSomewhere
    BY <2>1, Named, RequestStorage
  <2>4. wiz'.step \notin Seeded \cup {"seed", "network"}
    BY <2>1 DEF Seeded
  <2>5. DaemonFrame /\ Asked(Wizard, "key")
    BY <1>0, <2>1, Named, RequestEffect
  <2>6. \/ Reply(Wizard, "refused") /\ UNCHANGED <<dkm, queue>>
        \/ Proceed(Wizard, "key") /\ ~dkm /\ dkm' = TRUE /\ "key" \notin mem.box.facts /\ UNCHANGED queue
        \/ Proceed(Wizard, "noKey") /\ UNCHANGED <<dkm, queue>>
    BY <2>5 DEF Asked, JobKinds
  <2>7. \/ call'[Wizard].at = "idle" /\ UNCHANGED <<dkm, queue>>
        \/ /\ call'[Wizard].at = "get" /\ call'[Wizard].kind = "key" /\ ~dkm /\ dkm' = TRUE
           /\ "key" \notin mem.box.facts /\ UNCHANGED queue
        \/ call'[Wizard].at = "get" /\ call'[Wizard].kind = "noKey" /\ UNCHANGED <<dkm, queue>>
    <3>1. Wizard \in Parties /\ {"key", "noKey"} \subseteq Kinds
      BY Named DEF Kinds, RecoveryKinds
    <3>2. Reply(Wizard, "refused") => call'[Wizard].at = "idle"
      BY <1>0, <3>1, Replied
    <3>3. \A k \in {"key", "noKey"} : Proceed(Wizard, k) => call'[Wizard].at = "get" /\ call'[Wizard].kind = k
      BY <1>0, <3>1, Proceeded
    <3> QED BY <2>6, <3>2, <3>3
  <2>8. call'[Updater] = call[Updater]
    <3>1. Wizard \in Parties /\ Updater \in Parties /\ Updater # Wizard /\ {"key", "noKey"} \subseteq Kinds
      BY Named DEF Kinds, RecoveryKinds
    <3>2. Reply(Wizard, "refused") => call'[Updater] = call[Updater]
      BY <1>0, <3>1, Replied
    <3>3. \A k \in {"key", "noKey"} : Proceed(Wizard, k) => call'[Updater] = call[Updater]
      BY <1>0, <3>1, Proceeded
    <3> QED BY <2>6, <3>2, <3>3
  <2>9. Early' => Early
    BY <2>2, <2>4, <2>7 DEF Early, KeyCall, InFlight
  <2>10. call'[Wizard].at = "idle" \/ KeyAsked'
    BY <2>7 DEF KeyAsked, InFlight
  <2>11. Quiet => Quiet'
    BY <2>3, <2>5, <2>7, <2>8, <2>10 DEF Quiet, DaemonFrame
  <2>12. KeyCall' => dkm' /\ "key" \notin mem'.box.facts /\ call'[Wizard].at = "get"
    BY <2>5, <2>7 DEF KeyCall, InFlight, DaemonFrame
  <2> QED BY <1>0, <2>1, <2>2, <2>3, <2>4, <2>9, <2>11, <2>12 DEF SeedInv, Unsaved
<1>4. ASSUME Generated PROVE SeedInv' /\ (Early' => Early) /\ (KeyMade' => KeyMade)
  <2>1. /\ Collect /\ OnlyCall /\ ~wiz'.sent /\ wiz'.confirmed = wiz.confirmed
        /\ \/ KeyMade /\ wiz'.step = "seed"
           \/ wiz'.step = "generate"
    BY <1>4 DEF Generated, KeyMade
  <2>2. call'[Wizard] = Idle /\ \A d \in Parties : d # Wizard => call'[d] = call[d]
    BY <1>0, <2>1, CollectedCall
  <2>3. ~KeyMade' /\ ~KeyCall'
    BY <2>1, <2>2, NoJobIs DEF KeyMade, KeyCall, InFlight
  <2>4. UNCHANGED <<mem, data, temp, queue, job, dkm, acked>>
    BY <2>1 DEF OnlyCall, disks, jobs, history
  <2>5. \A d \in Parties : WantsStorage(d)' => WantsStorage(d)
    <3>1. \A d \in Parties : call'[d] = call[d] \/ ~InFlight(d)'
      BY <2>2, NoJobIs DEF InFlight
    <3> QED BY <3>1, WantsSame
  <2>6. StorageSomewhere' => StorageSomewhere
    BY <2>4, <2>5 DEF StorageSomewhere
  <2>7. Quiet => Quiet'
    BY <2>2, <2>4, <2>6, Named, NoJobIs DEF Quiet
  <2>8. Early' => Early
    BY <2>1, <2>3, <2>4 DEF Early
  <2>9. wiz'.step \in Seeded => KeyMade
    BY <2>1 DEF Seeded
  <2> QED BY <1>0, <2>1, <2>3, <2>4, <2>6, <2>7, <2>8, <2>9 DEF SeedInv, Unsaved
<1>5. ASSUME Sends \/ GivesUp \/ Receives \/ Completes PROVE SeedInv' /\ (Early' => Early) /\ (KeyMade' => KeyMade)
  <2>1. wiz.step = "finalizing" /\ wiz'.step \in {"finalizing", "complete"} /\ wiz'.confirmed = wiz.confirmed
    BY <1>0, <1>5 DEF Sends, GivesUp, Receives, Completes, Shape
  <2>2. dkm /\ (calls = 0 => "key" \in acked) /\ ~KeyAsked
    BY <2>1 DEF SeedInv, Seeded, AskInv
  <2>3. /\ dkm' = dkm /\ acked' = acked /\ ~KeyCall'
        /\ StorageSomewhere' => StorageSomewhere \/ wiz.confirmed \in {"device", "defaulted"}
    <3>1. CASE UNCHANGED vars
      BY <1>v, <2>2, <3>1 DEF KeyAsked, KeyCall
    <3>2. CASE Receives
      <4>1. call'[Wizard] = Idle /\ (\A d \in Parties : d # Wizard => call'[d] = call[d])
            /\ UNCHANGED <<mem, data, temp, queue, job, dkm, acked>>
        BY <1>0, <3>2, CollectedCall DEF Receives, OnlyCall, disks, jobs, history
      <4>2. \A d \in Parties : WantsStorage(d)' => WantsStorage(d)
        <5>1. \A d \in Parties : call'[d] = call[d] \/ ~InFlight(d)'
          BY <4>1, NoJobIs DEF InFlight
        <5> QED BY <5>1, WantsSame
      <4> QED BY <4>1, <4>2, NoJobIs DEF StorageSomewhere, KeyCall, InFlight
    <3>3. CASE Sends
      <4> DEFINE k == Head(wiz.plan)
      <4>1. k = wiz.plan[1] /\ 1 \in DOMAIN wiz.plan /\ Request(Wizard, k)
        BY <1>0, <3>3 DEF Sends
      <4> HIDE DEF k
      <4>2. k \in Sent /\ (k = "storage" => wiz.confirmed \in {"device", "defaulted"})
        BY <4>1 DEF FormInv, SendsLastBootstrap
      <4>3. k \in Kinds /\ k \notin {"key", "connect"}
        BY <4>2 DEF Sent, Kinds, RecoveryKinds
      <4>4. dkm' = dkm /\ ~KeyCall'
        <5>1. call'[Wizard].at = "idle" \/ call'[Wizard].kind = k
          BY <4>1, <4>3, Named, RequestCall
        <5>2. dkm' = dkm
          BY <4>1, <4>3, Named, RequestCall
        <5> QED BY <4>3, <5>1, <5>2 DEF KeyCall, InFlight
      <4>5. acked' = acked
        BY <1>0, <4>1, <4>3, Named, RequestEffect DEF DaemonFrame, Stop
      <4>6. k # "storage" => (StorageSomewhere' => StorageSomewhere)
        BY <4>1, <4>3, Named, RequestStorage
      <4> QED BY <4>2, <4>4, <4>5, <4>6
    <3> QED BY <1>5, <3>1, <3>2, <3>3 DEF GivesUp, Completes
  <2>4. ~KeyMade' /\ ~Early' /\ wiz'.step \in Seeded
    BY <2>1, <2>2, <2>3 DEF KeyMade, Early, Seeded
  <2> QED BY <1>0, <2>1, <2>2, <2>3, <2>4 DEF SeedInv, Unsaved
<1> QED BY <1>1, <1>2, <1>3, <1>4, <1>5, WizardCases DEF FormInv

(* Every step keeps SeedInv.                                                 *)
LEMMA SeedStep ==
  ASSUME Types, BaseInv, FormInv, AskInv, SeedInv, [Next]_wizVars
  PROVE  SeedInv'
<1>1. CASE UNCHANGED wizVars
  BY <1>1 DEF wizVars, vars, SeedInv, KeyCall, KeyMade, Early, KeyAsked, Quiet, Unsaved, StorageSomewhere,
       WantsStorage, InFlight, Answered
<1> QED BY <1>1, SeedSystem, SeedPanel, SeedWizard DEF Next

(* The key behind every seed that is shown, and the confirmation behind      *)
(* every request for storage.                                                *)
THEOREM SeedHolds == Spec => []SeedInv
<1>1. ASSUME Types, BaseInv, FormInv, AskInv, SeedInv, [Next]_wizVars PROVE SeedInv'
  BY <1>1, SeedStep
<1>2. WizInit => SeedInv
  <2> SUFFICES ASSUME WizInit PROVE SeedInv
    OBVIOUS
  <2>1. \A c \in Parties : call[c] = Idle
    BY DEF WizInit, Init
  <2>2. /\ wiz = Off /\ queue = <<>> /\ job = NoJob /\ mem = Fresh /\ temp = Empty
        /\ data = [base |-> [Empty EXCEPT !.tables = TRUE, !.booted = TRUE], device |-> Empty]
    BY DEF WizInit, Init
  <2>3. Off.step = "off"
    BY DEF Off
  <2>4. Fresh.box.storage = FALSE
    BY DEF Fresh, NoBox
  <2>5. \A d \in {"base", "device"} : data[d].rows = Fresh
    <3>1. Empty.rows = Fresh /\ [Empty EXCEPT !.tables = TRUE, !.booted = TRUE].rows = Fresh
      BY DEF Empty
    <3>2. data["base"].rows = Fresh /\ data["device"].rows = Fresh
      BY <2>2, <3>1
    <3> QED BY <3>2
  <2>6. ~StorageSomewhere
    BY <2>1, <2>2, <2>4, <2>5, NoJobIs, EmptyIs DEF StorageSomewhere, WantsStorage, InFlight
  <2>7. ~KeyCall /\ ~KeyMade /\ wiz.step \notin Seeded
    BY <2>1, <2>2, <2>3, Named, NoJobIs DEF KeyCall, KeyMade, InFlight, Seeded
  <2>8. Quiet
    BY <2>1, <2>2, <2>6, Named, NoJobIs DEF Quiet
  <2> QED BY <2>6, <2>7, <2>8 DEF SeedInv, Unsaved
<1> QED BY <1>1, <1>2, BaseHolds, TypesHold, FormHolds, AskHolds, PTL DEF Spec

(* A user who is shown a seed phrase has a master key, and its flag is saved *)
(* if no other client was at work: a create that never reached the key       *)
(* manager does not get that far (cmd/dbx-setup, pkg/web/keys.go).           *)
THEOREM SeedShown == Spec => []SeedMeansKey
<1>1. SeedInv => SeedMeansKey
  BY DEF SeedInv, SeedMeansKey, Seeded
<1> QED BY <1>1, SeedHolds, PTL

(* A device is formatted only after Enter on that device, in whatever order  *)
(* the wizard's lists arrive, unless one without the boot medium arrived     *)
(* after Enter and its first device was selected (cmd/dbx-setup/model.go,    *)
(* pkg/system/bootstrap.go).                                                 *)
THEOREM FormatConfirmed == Spec => []FormatsOnlyConfirmed
<1>1. SeedInv /\ BaseInv => FormatsOnlyConfirmed
  BY DEF SeedInv, BaseInv, CallInv, FormatsOnlyConfirmed, StorageSomewhere
<1> QED BY <1>1, SeedHolds, BaseHolds, PTL

(* A setup without trouble and with nobody else at work. Until it asks for   *)
(* the bootstrap the wizard has the box to itself: the box waits in          *)
(* recovery, no update is torn, the key is recorded, and so is the network   *)
(* unless it is still to be sent.                                            *)
Untroubled == calls = 0 /\ faults = 0 /\ crashes = 0
Sending == wiz.busy /\ wiz.plan # <<>> /\ ~(wiz.sent /\ Head(wiz.plan) = "bootstrap")
InStep == /\ call[Wizard].at = "assign" => call[Wizard].got = mem.box
          /\ call[Wizard].at = "store" => mem.box = Changed(call[Wizard].kind, call[Wizard].got)
Waiting == /\ mode = "recovery" /\ "configured" \notin mem.box.facts
           /\ call[Updater] = Idle /\ job.at \in {"none", "pending", "pend"}
           /\ \A k \in JobNames : Queued(k) => k = "pending"
NetComing == \/ "net" \in mem.box.facts
             \/ \E i \in DOMAIN wiz.plan : wiz.plan[i] = "network" /\ ~(i = 1 /\ wiz.sent /\ Answered("ok"))
AloneInv ==
  Untroubled /\ (Early \/ Sending) =>
    /\ Waiting /\ InStep
    /\ KeyMade \/ wiz.step \in {"seed", "network"} \/ Sending => "key" \in mem.box.facts
    /\ Sending /\ wiz.net => NetComing

(* At most one failure and one crash more.                                   *)
Counted == faults' \in {faults, faults + 1} /\ crashes' \in {crashes, crashes + 1}

(* A step of the daemon counts at most one more failure and one more crash.  *)
LEMMA TroubleSystem ==
  ASSUME Types, System
  PROVE  Counted
<1>0. job.kind \in Kinds
  BY StepNames DEF Types, DaemonTypes, Works
<1>1. ASSUME NEW c \in Parties, Handler(c) PROVE Counted
  BY <1>1, GetEffect, AssignEffect, StoreEffect DEF Handler, DaemonFrame, Counted, Fault
<1>2. ASSUME NEW c \in Clients, Connect(c) PROVE Counted
  BY <1>2 DEF Connect, ConnectFails, Fault, Counted
<1>3. Reboot \/ Crash \/ EnterRecovery => Counted
  BY DEF Reboot, Crash, EnterRecovery, Stop, Counted
<1>4. ASSUME Boot PROVE Counted
  <2>1. CASE Start
    BY <2>1, Started DEF Fault, Counted, Types
  <2>2. CASE DidEnterRecovery \/ UnforceRecovery
    BY <2>2 DEF DidEnterRecovery, UnforceRecovery, Fault, Counted
  <2> QED BY <1>4, <2>1, <2>2 DEF Boot
<1>5. ASSUME NEW step, NEW kind \in Kinds, NEW next, Change(step, kind, next) PROVE Counted
  BY <1>5 DEF Change, Fault, Counted
<1>6. SmallJob \/ Change("extra", "extra", "finish") \/ Finish => Counted
  BY <1>0, <1>5, StepNames DEF SmallJob, Finish
<1>7. TakeJob \/ SetPendingNetwork \/ Bootstrap \/ InitSystem \/ CloseDB \/ InitStorageDevice => Counted
  BY DEF TakeJob, SetPendingNetwork, Bootstrap, InitSystem, CloseDB, InitStorageDevice, Fault, Counted
<1>8. CopyOut \/ ApplyOverlay \/ CopyBack \/ Reoverlay \/ AddSource \/ Choose("extras", {"extra", "finish"}) => Counted
  BY DEF CopyOut, ApplyOverlay, CopyBack, Reoverlay, AddSource, Choose, Fault, Counted
<1>9. TryConnect => Counted
  BY DEF TryConnect, ConnectFails, Fault, Counted
<1>10. UpdaterStep => Counted
  BY <1>3, <1>6, <1>7, <1>8, <1>9 DEF UpdaterStep, Extras
<1> QED BY <1>1, <1>2, <1>3, <1>4, <1>10 DEF System

(* No trouble after a step means none before it.                             *)
LEMMA UntroubledBefore ==
  ASSUME Types, Untroubled', Counted, UNCHANGED calls
  PROVE  Untroubled /\ UNCHANGED <<faults, crashes>>
BY DEF Types, DaemonTypes, Untroubled, Counted

(* Until the bootstrap is asked for, the wizard's request is at rest or      *)
(* within a read-modify-write.                                               *)
LEMMA AtRest ==
  ASSUME Types, AskInv, SeedInv, calls = 0, Early \/ Sending
  PROVE  call[Wizard].at = "idle" \/ InFlight(Wizard)
<1>1. CASE Early
  BY <1>1 DEF SeedInv, Quiet, KeyAsked
<1>2. CASE Sending
  BY <1>2 DEF Sending, AskInv, Types, Shape, Seeded
<1> QED BY <1>1, <1>2

(* With the wizard alone in recovery, the daemon only serves its request or  *)
(* runs the network's job.                                                   *)
LEMMA AloneSteps ==
  ASSUME Types, BaseInv, AskInv, calls = 0, Waiting, call[Wizard].at # "connect", System
  PROVE  Handler(Wizard) \/ TakeJob \/ SetPendingNetwork \/ (Crash \/ EnterRecovery)
<1>1. call[Panel].at = "idle" /\ call[Updater].at = "idle" /\ mode = "recovery" /\ job.at \in {"none", "pending", "pend"}
  BY NoJobIs DEF AskInv, Waiting
<1>2. ASSUME NEW c \in Parties, Handler(c) PROVE c = Wizard
  BY <1>1, <1>2, Named DEF Handler, GetState, Assign, StoreRow
<1>3. \A c \in Clients : ~Connect(c)
  BY <1>1, WizardAndPanel DEF Connect
<1>4. UpdaterStep => TakeJob \/ SetPendingNetwork
  BY <1>1 DEF UpdaterStep, SmallJob, Bootstrap, TryConnect, InitSystem, CloseDB, InitStorageDevice, CopyOut,
              ApplyOverlay, CopyBack, Reoverlay, AddSource, Extras, Finish, Reboot, Change, Choose, At
<1>5. ~Boot
  BY <1>1 DEF Boot, Start, DidEnterRecovery, UnforceRecovery
<1> QED BY <1>2, <1>3, <1>4, <1>5 DEF System

(* A step of the wizard's request then loses no fact, and its success means  *)
(* the fact is in memory.                                                    *)
LEMMA AloneHandler ==
  ASSUME Types, BaseInv, AskInv, calls = 0, Waiting, InStep, Handler(Wizard)
  PROVE  /\ Waiting' /\ InStep' /\ InFlight(Wizard)
         /\ \A f \in {"key", "net"} : f \in mem.box.facts => f \in mem'.box.facts
         /\ Answered("ok")' /\ call[Wizard].kind = "key" => "key" \in mem'.box.facts
         /\ Answered("ok")' /\ call[Wizard].kind = "network" => "net" \in mem'.box.facts
<1> DEFINE kind == call[Wizard].kind
           got == call[Wizard].got
           new == Changed(kind, got)
<1>0. DaemonTypes /\ Wizard \in Parties /\ Wizard \in Clients /\ Wizard # Updater /\ Wizard \in Watching /\ InFlight(Wizard)
  BY Named DEF Types, Handler, GetState, Assign, StoreRow, InFlight
<1>1. kind \in Written /\ kind \in Writes /\ got \in Box
  BY <1>0 DEF BaseInv, CallInv, DaemonTypes, Calls, Writes
<1>2. /\ "configured" \in new.facts <=> "configured" \in got.facts
      /\ "key" \in new.facts <=> "key" \in got.facts \/ kind \in {"key", "noKey"}
      /\ "net" \in new.facts <=> "net" \in got.facts \/ kind = "network"
  BY <1>1, ChangedFacts DEF Written
<1>3. call'[Updater] = Idle /\ UNCHANGED <<mode, job>>
  BY <1>0, Named, GetEffect, AssignEffect, StoreEffect DEF Handler, Waiting, DaemonFrame
<1>4. ASSUME After(Wizard), "configured" \notin got.facts PROVE queue' = queue \/ queue' = Append(queue, "pending")
  BY <1>4 DEF After
<1>5. ASSUME queue' = queue \/ queue' = Append(queue, "pending"), "configured" \notin mem'.box.facts PROVE Waiting'
  <2>1. "pending" \in JobNames
    BY DEF JobNames
  <2>2. \A k \in JobNames : Queued(k)' => Queued(k) \/ k = "pending"
    BY <1>0, <1>5, <2>1, QueueFacts
  <2> QED BY <1>3, <1>5, <2>2 DEF Waiting
<1>6. ASSUME GetState(Wizard)
      PROVE  /\ Waiting' /\ InStep' /\ mem' = mem /\ ~Answered("ok")'
  <2>1. PICK b \in Reads : call'[Wizard].at = "assign" /\ call'[Wizard].got = b
    BY <1>0, <1>6, GetEffect
  <2>2. DaemonFrame /\ UNCHANGED queue /\ call[Wizard].at = "get"
    BY <1>0, <1>6, GetEffect
  <2>3. b = mem.box
    <3>1. \A o \in Parties : call[o].at # "assign"
      BY <2>2, Named, NoJobIs DEF Waiting, AskInv
    <3> QED BY <3>1, ReadFacts
  <2> QED BY <1>5, <2>1, <2>2, <2>3 DEF InStep, DaemonFrame, Answered, Waiting
<1>7. ASSUME Assign(Wizard)
      PROVE  /\ Waiting' /\ InStep' /\ (mem' = mem \/ mem'.box = new)
             /\ mem.box = got
             /\ Answered("ok")' => new = mem.box
  <2>1. call[Wizard].at = "assign" /\ mem.box = got /\ "configured" \notin got.facts
    BY <1>7 DEF Assign, InStep, Waiting
  <2>2. CASE UNCHANGED mem /\ new = got /\ After(Wizard) /\ Reply(Wizard, Answer(Wizard))
    <3>1. call'[Wizard].at = "idle"
      BY <1>0, <2>2, Replied DEF Answer
    <3> QED BY <1>4, <1>5, <2>1, <2>2, <3>1 DEF InStep, Waiting
  <2>3. CASE /\ mem' = [mem EXCEPT !.box = new] /\ UNCHANGED queue
             /\ call'[Wizard].at = "store" /\ call'[Wizard].kind = kind /\ call'[Wizard].got = got
    <3>1. mem'.box = new
      BY <1>0, <2>3 DEF DaemonTypes, RowsSet
    <3> QED BY <1>2, <1>5, <2>1, <2>3, <3>1 DEF InStep, Answered
  <2> QED BY <1>0, <1>7, <2>2, <2>3, AssignEffect
<1>8. ASSUME StoreRow(Wizard) PROVE Waiting' /\ InStep' /\ mem' = mem /\ mem.box = new
  <2>1. call[Wizard].at = "store" /\ mem.box = new /\ mem' = mem /\ "configured" \notin got.facts
    BY <1>2, <1>0, <1>8, StoreEffect DEF InStep, Waiting
  <2>2. After(Wizard) \/ UNCHANGED queue
    BY <1>0, <1>8, StoreEffect
  <2>3. call'[Wizard].at = "idle"
    <3>1. Reply(Wizard, Answer(Wizard)) \/ Reply(Wizard, "refused")
      BY <1>0, <1>8, StoreEffect
    <3> QED BY <1>0, <3>1, Replied DEF Answer
  <2> QED BY <1>4, <1>5, <2>1, <2>2, <2>3 DEF InStep, Waiting
<1> QED BY <1>0, <1>2, <1>6, <1>7, <1>8 DEF Handler

(* The daemon's steps keep AloneInv.                                         *)
LEMMA AloneSystem ==
  ASSUME Types, BaseInv, AskInv, SeedInv, AloneInv, System, UNCHANGED <<wiz, calls>>
  PROVE  AloneInv'
<1>1. SUFFICES ASSUME Untroubled', Early' \/ Sending'
               PROVE  /\ Waiting' /\ InStep'
                      /\ KeyMade' \/ wiz.step \in {"seed", "network"} \/ Sending => "key" \in mem'.box.facts
                      /\ Sending /\ wiz.net => NetComing'
  BY DEF AloneInv, Sending
<1>2. Untroubled /\ crashes' = crashes /\ calls = 0 /\ crashes = 0
  BY <1>1, TroubleSystem, UntroubledBefore DEF Untroubled
<1>3. Early \/ Sending
  BY <1>1, EarlyBefore DEF Sending
<1>4. /\ Waiting /\ InStep
      /\ KeyMade \/ wiz.step \in {"seed", "network"} \/ Sending => "key" \in mem.box.facts
      /\ Sending /\ wiz.net => NetComing
  BY <1>2, <1>3 DEF AloneInv
<1>5. call[Wizard].at # "connect" /\ DaemonTypes
  BY <1>2, <1>3, AtRest DEF InFlight, Types
<1>6. CASE Handler(Wizard)
  <2>1. /\ Waiting' /\ InStep' /\ InFlight(Wizard)
        /\ \A f \in {"key", "net"} : f \in mem.box.facts => f \in mem'.box.facts
        /\ Answered("ok")' /\ call[Wizard].kind = "key" => "key" \in mem'.box.facts
        /\ Answered("ok")' /\ call[Wizard].kind = "network" => "net" \in mem'.box.facts
    BY <1>2, <1>4, <1>6, AloneHandler
  <2>2. KeyMade' => "key" \in mem'.box.facts
    <3>1. KeyMade => FALSE
      BY <2>1 DEF KeyMade, Answered, InFlight
    <3>2. KeyMade' => KeyCall /\ Answered("ok")'
      BY <3>1, EarlyBefore DEF KeyMade
    <3> QED BY <2>1, <3>2 DEF KeyCall
  <2>3. Sending /\ wiz.net => NetComing'
    <3>1. SUFFICES ASSUME Sending, wiz.net, "net" \notin mem'.box.facts PROVE NetComing'
      BY DEF NetComing
    <3>2. PICK i \in DOMAIN wiz.plan : wiz.plan[i] = "network"
      BY <1>4, <2>1, <3>1 DEF NetComing
    <3>3. CASE wiz.sent /\ i = 1
      <4>1. wiz.plan \in Seq(RecoveryKinds)
        BY DEF Types, WizardTypes, Wizards
      <4>2. call[Wizard].kind = "network"
        BY <2>1, <3>1, <3>2, <3>3, <4>1 DEF AskInv, InFlight, Sending
      <4> QED BY <2>1, <3>1, <3>2, <3>3, <4>2 DEF NetComing
    <3>4. CASE ~(wiz.sent /\ i = 1)
      BY <3>2, <3>4 DEF NetComing
    <3> QED BY <3>3, <3>4
  <2> QED BY <1>4, <2>1, <2>2, <2>3
<1>7. CASE TakeJob \/ SetPendingNetwork
  <2>1. UNCHANGED <<call, mode>> /\ mem'.box = mem.box
    <3>1. CASE TakeJob
      BY <3>1 DEF TakeJob
    <3>2. CASE SetPendingNetwork
      <4>1. [job.net EXCEPT !.pending = TRUE] \in Net
        BY <1>5 DEF DaemonTypes, Works, Net
      <4> QED BY <1>5, <3>2, <4>1 DEF SetPendingNetwork, DaemonTypes, RowsSet
    <3> QED BY <1>7, <3>1, <3>2
  <2>2. job'.at \in {"none", "pending", "pend"} /\ \A k \in JobNames : Queued(k)' => Queued(k)
    <3>1. CASE TakeJob
      <4>1. queue # <<>> /\ queue' = Tail(queue) /\ Queued(Head(queue)) /\ Head(queue) \in JobNames
        BY <1>5, <3>1, QueueFacts DEF TakeJob, DaemonTypes
      <4>2. Head(queue) = "pending"
        BY <1>4, <4>1 DEF Waiting
      <4>3. job'.at = "pending"
        BY <3>1, <4>2 DEF TakeJob, FirstStep, NoJob
      <4> QED BY <1>5, <4>1, <4>3, QueueFacts
    <3>2. CASE SetPendingNetwork
      <4>1. queue' = queue
        BY <3>2 DEF SetPendingNetwork
      <4>2. job'.at \in {"none", "pend"}
        BY <1>5, <3>2, NoJobIs DEF SetPendingNetwork, DaemonTypes, Works
      <4> QED BY <1>5, <4>1, <4>2, QueueFacts
    <3> QED BY <1>7, <3>1, <3>2
  <2>3. Waiting' /\ InStep'
    BY <1>4, <2>1, <2>2 DEF Waiting, InStep
  <2>4. (KeyMade' <=> KeyMade) /\ (NetComing' <=> NetComing)
    BY <2>1 DEF KeyMade, NetComing, Answered
  <2> QED BY <1>4, <2>1, <2>3, <2>4
<1>8. ~(Crash \/ EnterRecovery)
  BY <1>2, <1>5 DEF Crash, EnterRecovery, DaemonTypes
<1> QED BY <1>2, <1>4, <1>5, <1>6, <1>7, <1>8, AloneSteps

(* A request counts at most one failure.                                     *)
LEMMA TroubleRequest ==
  ASSUME DaemonTypes, NEW c \in Clients, NEW kind \in Kinds, Request(c, kind)
  PROVE  Counted
BY RequestEffect DEF Stop, DaemonFrame, Asked, Counted, Fault

(* The wizard's steps keep AloneInv: it asks for the next setting only after *)
(* the last succeeded.                                                       *)
LEMMA AloneWizard ==
  ASSUME Types, BaseInv, FormInv, AskInv, SeedInv, AloneInv, WizardStep
  PROVE  AloneInv'
<1> DEFINE Good == /\ Waiting /\ InStep
                   /\ KeyMade \/ wiz.step \in {"seed", "network"} \/ Sending => "key" \in mem.box.facts
                   /\ Sending /\ wiz.net => NetComing
<1>0. UNCHANGED calls /\ Shape /\ DaemonTypes /\ wiz.plan \in Seq(RecoveryKinds) /\ wiz.net \in BOOLEAN
  BY WizardCases DEF FormInv, Types, WizardTypes, Wizards
<1>1. SUFFICES ASSUME Untroubled', Early' \/ Sending' PROVE Good'
  BY DEF AloneInv
<1>2. (Early' => Early) /\ (KeyMade' => KeyMade)
  BY SeedWizard
<1>3. wiz.step \in Seeded /\ Early => wiz.step \in {"seed", "network"}
  BY DEF SeedInv, AskInv, Early, KeyCall, KeyAsked, KeyMade, Seeded
<1>4. ASSUME Counted, Early \/ Sending PROVE Good
  BY <1>0, <1>1, <1>4, UntroubledBefore DEF AloneInv
<1>5. UNCHANGED <<faults, crashes>> => Counted
  BY DEF Counted
<1>6. ASSUME UNCHANGED vars
      PROVE  /\ (Waiting' <=> Waiting) /\ (InStep' <=> InStep) /\ mem' = mem /\ Counted
             /\ \A ans : Answered(ans)' <=> Answered(ans)
  BY <1>5, <1>6 DEF vars, Waiting, InStep, Answered, Queued
<1>7. ASSUME Waiting, mem' = mem, mode' = mode, job' = job, queue' = queue, call'[Updater] = call[Updater],
             call'[Wizard].at \in {"idle", "get"}
      PROVE  Waiting' /\ InStep'
  BY <1>7 DEF Waiting, InStep, Queued
<1>8. ASSUME Collect, OnlyCall, Waiting
      PROVE  Waiting' /\ InStep' /\ mem' = mem
  BY <1>0, <1>7, <1>8, CollectedCall, Named, NoJobIs DEF OnlyCall, disks, jobs, history
<1>10. ASSUME Browses PROVE Good'
  <2>1. Sending' => /\ Sending /\ wiz'.plan = wiz.plan /\ wiz'.net = wiz.net /\ wiz'.sent = wiz.sent
    BY <1>0, <1>10 DEF Browses, Sending
  <2>2. wiz'.step \in {"seed", "network"} => wiz.step \in {"seed", "network"}
    BY <1>10 DEF Browses, Seeded
  <2>3. Good /\ UNCHANGED vars
    BY <1>1, <1>2, <1>4, <1>6, <1>10, <2>1 DEF Browses
  <2>4. Sending' => (NetComing' <=> NetComing)
    BY <1>6, <2>1, <2>3 DEF NetComing
  <2> QED BY <1>2, <1>6, <2>1, <2>2, <2>3, <2>4
<1>11. ASSUME NEW net \in BOOLEAN, Chooses(net) PROVE Good'
  <2>1. UNCHANGED vars /\ wiz.step = "network" /\ wiz'.net = net
    BY <1>11 DEF Chooses
  <2>2. Good /\ "key" \in mem.box.facts
    BY <1>4, <1>6, <2>1 DEF Early
  <2>3. net => NetComing'
    <3> DEFINE p == Plan(net)
    <3>0. p \in Seq(Sent) /\ Len(p) = (IF net THEN 4 ELSE 3) /\ (net => p[3] = "network")
      BY PlanIs
    <3> HIDE DEF p
    <3>1. net => 3 \in DOMAIN p /\ p[3] = "network"
      BY <3>0
    <3>2. wiz'.plan = p
      BY <1>11 DEF Chooses, p
    <3> QED BY <3>1, <3>2 DEF NetComing
  <2> QED BY <1>6, <2>1, <2>2, <2>3
<1>12. ASSUME Generates PROVE Good'
  <2>1. Request(Wizard, "key") /\ "key" \in Kinds /\ wiz'.step = "generate" /\ ~wiz'.busy
    BY <1>0, <1>12 DEF Generates, Kinds, RecoveryKinds, Shape
  <2>2. Counted /\ Good
    BY <1>0, <1>1, <1>2, <1>4, <2>1, Named, TroubleRequest DEF Sending
  <2>3. ~KeyMade'
    BY <2>1, Named, RequestCall DEF KeyMade, Answered
  <2>4. DaemonFrame /\ queue' = queue /\ call'[Updater] = call[Updater] /\ call'[Wizard].at \in {"idle", "get"}
    <3>1. DaemonFrame /\ Asked(Wizard, "key")
      BY <1>0, <2>1, Named, RequestEffect
    <3>2. (Reply(Wizard, "refused") \/ Proceed(Wizard, "key") \/ Proceed(Wizard, "noKey")) /\ queue' = queue
      BY <3>1 DEF Asked, JobKinds
    <3>3. "noKey" \in Kinds
      BY DEF Kinds
    <3> QED BY <1>0, <2>1, <3>1, <3>2, <3>3, Named, Replied, Proceeded
  <2> QED BY <1>7, <2>1, <2>2, <2>3, <2>4 DEF DaemonFrame, Sending
<1>13. ASSUME Generated PROVE Good'
  <2>1. wiz.step = "generate" /\ wiz.sent /\ ~wiz'.sent /\ ~wiz'.busy /\ Counted
    BY <1>0, <1>5, <1>13 DEF Generated, OnlyCall, Shape
  <2>2. Good
    BY <1>1, <1>2, <1>4, <2>1 DEF Sending
  <2>3. wiz'.step \in {"seed", "network"} => KeyMade
    BY <1>13 DEF Generated, KeyMade
  <2> QED BY <1>8, <1>13, <2>1, <2>2, <2>3 DEF Generated, KeyMade, Sending
<1>14. ASSUME Sends \/ GivesUp \/ Receives \/ Completes
       PROVE  ~Early /\ Sending' /\ wiz'.busy /\ wiz.busy /\ wiz'.step = "finalizing" /\ wiz'.net = wiz.net
  <2>1. wiz.step = "finalizing" /\ wiz.busy
    BY <1>0, <1>14 DEF Sends, GivesUp, Receives, Completes, Shape
  <2>2. ~Early
    BY <1>3, <2>1 DEF Seeded
  <2> QED BY <1>1, <1>2, <1>14, <2>1, <2>2 DEF Sends, GivesUp, Receives, Completes, Sending
<1>15. ASSUME Sends PROVE Good'
  <2> DEFINE k == Head(wiz.plan)
  <2>1. /\ k = wiz.plan[1] /\ 1 \in DOMAIN wiz.plan /\ Request(Wizard, k) /\ wiz'.sent /\ ~wiz.sent
        /\ wiz'.plan = wiz.plan /\ Head(wiz'.plan) = k /\ Sending
    BY <1>0, <1>15 DEF Sends, Sending
  <2> HIDE DEF k
  <2>2. k \in {"keymap", "storage", "bootMedia", "network"}
    <3>1. k \in Sent
      BY <2>1 DEF FormInv, SendsLastBootstrap
    <3>2. k # "bootstrap"
      BY <1>14, <1>15, <2>1 DEF Sending
    <3> QED BY <3>1, <3>2 DEF Sent
  <2>3. k \in Kinds
    BY <2>2 DEF Kinds, RecoveryKinds
  <2>4. Good
    BY <1>0, <1>4, <2>1, <2>3, Named, TroubleRequest
  <2>5. /\ DaemonFrame /\ queue' = queue
        /\ Reply(Wizard, "refused") \/ Proceed(Wizard, k) \/ (k = "bootMedia" /\ Reply(Wizard, "ok"))
    <3>1. DaemonFrame /\ Asked(Wizard, k)
      BY <1>0, <2>1, <2>2, <2>3, Named, RequestEffect
    <3> QED BY <2>2, <3>1 DEF Asked, JobKinds
  <2>6. /\ call'[Updater] = call[Updater] /\ call'[Wizard].at \in {"idle", "get"}
        /\ Answered("ok")' => k = "bootMedia"
    <3>1. Reply(Wizard, "refused") => call'[Wizard].ans = "refused"
      BY <1>0, Named, Replied
    <3>2. Proceed(Wizard, k) => call'[Wizard].at = "get"
      BY <1>0, <2>3, Named, Proceeded
    <3>3. Answered("ok")' => k = "bootMedia"
      BY <2>5, <3>1, <3>2 DEF Answered
    <3>4. call'[Updater] = call[Updater] /\ call'[Wizard].at \in {"idle", "get"}
      BY <1>0, <2>3, <2>5, Named, Replied, Proceeded
    <3> QED BY <3>3, <3>4
  <2>7. wiz.net => NetComing'
    <3>1. SUFFICES ASSUME wiz.net, "net" \notin mem.box.facts PROVE NetComing'
      BY <2>5 DEF NetComing, DaemonFrame
    <3>2. PICK i \in DOMAIN wiz.plan : wiz.plan[i] = "network"
      BY <2>1, <2>4, <3>1 DEF NetComing
    <3>3. i = 1 => k = "network"
      BY <2>1, <3>2
    <3> QED BY <2>1, <2>6, <3>2, <3>3 DEF NetComing
  <2> QED BY <1>7, <1>14, <1>15, <2>1, <2>4, <2>5, <2>6, <2>7 DEF DaemonFrame
<1>16. ASSUME Receives PROVE Good'
  <2> DEFINE t == Tail(wiz.plan)
  <2>0. wiz.plan # <<>>
    BY <1>16 DEF Receives
  <2>1. /\ Len(t) = Len(wiz.plan) - 1 /\ Head(wiz.plan) = wiz.plan[1] /\ Len(wiz.plan) \in Nat
        /\ t \in Seq(RecoveryKinds)
        /\ \A i \in 1..Len(t) : t[i] = wiz.plan[i + 1]
    BY <1>0, <2>0, Tailed
  <2>2. wiz'.plan = t /\ t # <<>> /\ Answered("ok") /\ wiz.sent /\ ~wiz'.sent /\ Counted
    <3>1. wiz'.plan # <<>> /\ wiz'.busy
      BY <1>14, <1>16 DEF Sending
    <3> QED BY <1>5, <1>16, <3>1 DEF Receives, OnlyCall
  <2> HIDE DEF t
  <2>3. Len(t) # 0 /\ Len(wiz.plan) # 1 /\ 1 \in DOMAIN wiz.plan
    BY <1>0, <2>1, <2>2
  <2>4. Head(wiz.plan) # "bootstrap"
    BY <2>1, <2>3 DEF FormInv, SendsLastBootstrap
  <2>5. Sending
    BY <1>14, <1>16, <2>0, <2>4 DEF Sending
  <2>6. Good /\ Waiting' /\ InStep' /\ mem' = mem
    BY <1>4, <1>8, <1>16, <2>2, <2>5 DEF Receives
  <2>7. wiz.net => NetComing'
    <3>1. SUFFICES ASSUME wiz.net, "net" \notin mem.box.facts PROVE NetComing'
      BY <2>6 DEF NetComing
    <3>2. PICK i \in DOMAIN wiz.plan : wiz.plan[i] = "network" /\ i # 1
      BY <2>2, <2>5, <2>6, <3>1 DEF NetComing
    <3>3. i - 1 \in 1..Len(t) /\ t[i - 1] = "network"
      BY <1>0, <2>1, <3>2
    <3>4. i - 1 \in DOMAIN wiz'.plan /\ wiz'.plan[i - 1] = "network"
      BY <2>1, <2>2, <3>3
    <3> QED BY <2>2, <3>4 DEF NetComing
  <2> QED BY <1>14, <1>16, <2>2, <2>5, <2>6, <2>7
<1>17. ~Completes
  BY <1>14 DEF Completes
<1>18. ~GivesUp
  <2>1. GivesUp => Sending /\ Counted /\ ~Running
    BY <1>6 DEF GivesUp, Sending
  <2> QED BY <1>4, <2>1 DEF Waiting, Running
<1> QED BY <1>10, <1>11, <1>12, <1>13, <1>15, <1>16, <1>17, <1>18, WizardCases DEF FormInv

(* Every step keeps AloneInv.                                                *)
LEMMA AloneStep ==
  ASSUME Types, BaseInv, FormInv, AskInv, SeedInv, AloneInv, [Next]_wizVars
  PROVE  AloneInv'
<1>1. CASE UNCHANGED wizVars
  BY <1>1 DEF wizVars, vars, AloneInv, Untroubled, Early, KeyCall, KeyMade, Sending, Waiting, InStep, NetComing,
       Answered, InFlight, Queued
<1>2. CASE PanelRequest
  BY <1>2 DEF PanelRequest, Types, WizardTypes, AloneInv, Untroubled
<1> QED BY <1>1, <1>2, AloneWizard, AloneSystem DEF Next

(* Without trouble the wizard has the box to itself until it asks for the    *)
(* bootstrap: the box waits in recovery with the key's flag, and the         *)
(* network's is saved or still to be sent.                                   *)
THEOREM AloneHolds == Spec => []AloneInv
<1>1. ASSUME Types, BaseInv, FormInv, AskInv, SeedInv, AloneInv, [Next]_wizVars PROVE AloneInv'
  BY <1>1, AloneStep
<1>2. WizInit => AloneInv
  <2> SUFFICES ASSUME WizInit PROVE AloneInv
    OBVIOUS
  <2>1. call[Wizard] = Idle /\ call[Updater] = Idle /\ wiz = Off /\ mem = Fresh /\ queue = <<>> /\ job = NoJob /\ mode = "recovery"
    BY Named DEF WizInit, Init
  <2>2. ~wiz.busy /\ wiz.step = "off" /\ mem.box.facts = {}
    BY <2>1 DEF Off, Fresh, NoBox
  <2>3. Waiting
    BY <2>1, <2>2, NoJobIs DEF Waiting, Queued
  <2> QED BY <2>1, <2>2, <2>3, NoJobIs DEF AloneInv, InStep, KeyMade, Sending
<1> QED BY <1>1, <1>2, BaseHolds, TypesHold, FormHolds, AskHolds, SeedHolds, PTL DEF Spec

(* Until the configured flag is confirmed the box does not leave recovery,   *)
(* and the wizard's own bootstrap is accepted.                               *)
Leaves == mode # "recovery" \/ job.at = "reboot"
Stored == call[Updater].at = "done" /\ call[Updater].kind = "configured"
Asks == wiz.net /\ wiz.busy /\ wiz.sent /\ wiz.plan # <<>> /\ Head(wiz.plan) = "bootstrap"
Ends == wiz.net /\ ((wiz.busy /\ wiz.plan = <<>>) \/ wiz.step = "complete")
Unconfigured == ~Leaves /\ ~Stored /\ (Asks => Answered("ok")) /\ (Ends => wiz.accepted)
AcceptedInv == Untroubled /\ "configured" \notin acked => Unconfigured

(* The daemon changes an idle client's answer only by going down.            *)
LEMMA IdleStays ==
  ASSUME Types, System, NEW c \in Clients, call[c].at = "idle"
  PROVE  call'[c] = call[c] \/ Reboot \/ Crash \/ EnterRecovery
<1>0. DaemonTypes /\ c \in Parties /\ c # Updater /\ Updater \in Parties
  BY UpdaterIsNoClient DEF Types, Parties
<1>1. ASSUME NEW o \in Parties, Handler(o) PROVE call'[c] = call[c]
  BY <1>0, <1>1, GetEffect, AssignEffect, StoreEffect DEF Handler
<1>2. ASSUME NEW o \in Clients, Connect(o) PROVE call'[c] = call[c]
  <2>1. o \in Parties /\ o # c /\ \E ans \in {"ok", "refused"} : Reply(o, ans)
    BY <1>2 DEF Connect, Parties
  <2> QED BY <1>0, <2>1, Replied
<1>3. ASSUME UpdaterStep, ~Reboot PROVE call'[c] = call[c]
  <2>0. job.kind \in Kinds
    BY <1>0, StepNames DEF DaemonTypes, Works
  <2>1. ASSUME NEW step, NEW kind \in Kinds, NEW next, Change(step, kind, next) PROVE call'[c] = call[c]
    BY <1>0, <2>1, ChangeEffect
  <2>2. CASE SmallJob \/ Change("extra", "extra", "finish") \/ Finish
    BY <2>0, <2>1, <2>2, StepNames DEF SmallJob, Finish
  <2>3. CASE TakeJob \/ SetPendingNetwork \/ Bootstrap \/ TryConnect \/ InitSystem \/ CloseDB \/ InitStorageDevice
    BY <2>3 DEF TakeJob, SetPendingNetwork, Bootstrap, TryConnect, InitSystem, CloseDB, InitStorageDevice
  <2>4. CASE CopyOut \/ ApplyOverlay \/ CopyBack \/ Reoverlay \/ AddSource \/ Choose("extras", {"extra", "finish"})
    BY <2>4 DEF CopyOut, ApplyOverlay, CopyBack, Reoverlay, AddSource, Choose
  <2> QED BY <1>3, <2>2, <2>3, <2>4 DEF UpdaterStep, Extras
<1>4. Boot => call'[c] = call[c]
  BY DEF Boot, Start, DidEnterRecovery, UnforceRecovery
<1> QED BY <1>1, <1>2, <1>3, <1>4 DEF System

(* Without a crash, the box leaves recovery only after a bootstrap has       *)
(* stored the configured flag.                                               *)
LEMMA RebootsAfterBootstrap ==
  ASSUME Types, BaseInv, System, ~Crash, ~EnterRecovery
  PROVE  Leaves' => Leaves \/ Stored
<1> USE DEF Leaves, Stored
<1> DEFINE Goal == /\ mode' # "recovery" => mode # "recovery" \/ job.at = "reboot"
                   /\ job'.at = "reboot" =>
                        job.at = "reboot" \/ (call[Updater].at = "done" /\ call[Updater].kind = "configured")
<1>0. DaemonTypes /\ job \in Works /\ NoJob.at = "none" /\ CallInv
  BY NoJobIs DEF Types, DaemonTypes, BaseInv
<1>1. ASSUME NEW o \in Parties, Handler(o) PROVE Goal
  <2>1. mode' = mode /\ job' \in {job, NoJob}
    BY <1>1, GetEffect, AssignEffect, StoreEffect DEF Handler, DaemonFrame
  <2> QED BY <1>0, <2>1
<1>2. ASSUME NEW o \in Clients, Connect(o) PROVE Goal
  BY <1>2 DEF Connect, jobs
<1>3. CASE Reboot
  BY <1>0, <1>3 DEF Reboot, At, Stop
<1>4. CASE Boot
  BY <1>4 DEF Boot, Start, DidEnterRecovery, UnforceRecovery, jobs
<1>5. ASSUME NEW step, Go(step), step # "reboot" PROVE job'.at # "reboot"
  BY <1>0, <1>5, GoEffect
<1>6. ASSUME TakeJob \/ SetPendingNetwork \/ Bootstrap PROVE Goal
  <2>1. CASE TakeJob
    BY <2>1 DEF TakeJob, FirstStep, NoJob
  <2>2. CASE SetPendingNetwork
    BY <1>0, <2>2 DEF SetPendingNetwork, Works
  <2>3. CASE Bootstrap
    BY <1>0, <2>3 DEF Bootstrap, Works
  <2> QED BY <1>6, <2>1, <2>2, <2>3
<1>7. ASSUME TryConnect \/ InitSystem \/ CloseDB \/ InitStorageDevice PROVE Goal
  BY <1>0, <1>5, <1>7 DEF TryConnect, InitSystem, CloseDB, InitStorageDevice, Failed
<1>8. ASSUME CopyOut \/ ApplyOverlay \/ CopyBack \/ Reoverlay \/ AddSource \/ Choose("extras", {"extra", "finish"}) PROVE Goal
  BY <1>0, <1>5, <1>8 DEF CopyOut, ApplyOverlay, CopyBack, Reoverlay, AddSource, Choose, Failed
<1>9. ASSUME SmallJob \/ Change("extra", "extra", "finish") \/ Finish PROVE Goal
  <2>1. mode' = mode /\ (job' \in {job, NoJob} \/ (Finish /\ call[Updater].at = "done") \/ Go("finish"))
    BY <1>9 DEF SmallJob, Finish, Change
  <2>2. Finish /\ call[Updater].at = "done" => call[Updater].kind = "configured"
    BY <1>0 DEF Finish, Change, At, CallInv
  <2> QED BY <1>0, <1>5, <2>1, <2>2
<1> QED BY <1>1, <1>2, <1>3, <1>4, <1>6, <1>7, <1>8, <1>9 DEF System, UpdaterStep, Extras

(* The bootstrap's last write ends only when it is saved, and is then        *)
(* confirmed.                                                                *)
LEMMA DoneStored ==
  ASSUME Types, BaseInv, System, Stored'
  PROVE  Stored \/ "configured" \in acked'
<1> USE DEF Stored
<1>0. DaemonTypes /\ Updater \in Parties /\ Idle.at = "idle"
  BY Named, NoJobIs DEF Types
<1>1. ASSUME NEW o \in Parties, Handler(o), o # Updater PROVE call'[Updater] = call[Updater]
  BY <1>0, <1>1, GetEffect, AssignEffect, StoreEffect DEF Handler
<1>2. ~GetState(Updater)
  BY <1>0, GetEffect
<1>3. ~Assign(Updater)
  <2>1. Assign(Updater) => call'[Updater].kind = call[Updater].kind /\ call[Updater].kind \in Skips
    BY <1>0, AssignEffect
  <2> QED BY <2>1 DEF Skips
<1>4. ASSUME StoreRow(Updater) PROVE "configured" \in acked'
  <2>1. Confirmed(call[Updater].kind) /\ call'[Updater].kind = call[Updater].kind
    <3>1. \/ Confirmed(call[Updater].kind) /\ call'[Updater].kind = call[Updater].kind
          \/ Reply(Updater, "refused")
          \/ call'[Updater] = Idle
      BY <1>0, <1>4, StoreEffect
    <3>2. ~Reply(Updater, "refused") /\ call'[Updater] # Idle
      BY <1>0, Replied
    <3> QED BY <3>1, <3>2
  <2> QED BY <2>1, Tables DEF Confirmed
<1>5. ASSUME NEW o \in Clients, Connect(o) PROVE call'[Updater] = call[Updater]
  <2>1. o \in Parties /\ o # Updater /\ \E ans \in {"ok", "refused"} : Reply(o, ans)
    BY <1>5, UpdaterIsNoClient DEF Connect, Parties
  <2> QED BY <1>0, <2>1, Replied
<1>6. ~(Reboot \/ Crash \/ EnterRecovery)
  BY <1>0 DEF Reboot, Crash, EnterRecovery, Stop
<1>7. Boot => call'[Updater] = call[Updater]
  BY DEF Boot, Start, DidEnterRecovery, UnforceRecovery
<1>8. ASSUME NEW step, NEW kind, NEW next PROVE ~Change(step, kind, next)
  <2>1. CASE call' = [call EXCEPT ![Updater] = [Idle EXCEPT !.at = "get", !.kind = kind]]
    BY <1>0, <2>1 DEF DaemonTypes, Idle
  <2>2. CASE call' = [call EXCEPT ![Updater] = Idle]
    BY <1>0, <2>2 DEF DaemonTypes
  <2> QED BY <2>1, <2>2 DEF Change
<1>9. UpdaterStep => call'[Updater] = call[Updater]
  <2>1. ~(SmallJob \/ Change("extra", "extra", "finish") \/ Finish)
    BY <1>8 DEF SmallJob, Finish
  <2>2. TakeJob \/ SetPendingNetwork \/ Bootstrap \/ TryConnect \/ InitSystem \/ CloseDB \/ InitStorageDevice => call' = call
    BY DEF TakeJob, SetPendingNetwork, Bootstrap, TryConnect, InitSystem, CloseDB, InitStorageDevice
  <2>3. CopyOut \/ ApplyOverlay \/ CopyBack \/ Reoverlay \/ AddSource \/ Choose("extras", {"extra", "finish"}) => call' = call
    BY DEF CopyOut, ApplyOverlay, CopyBack, Reoverlay, AddSource, Choose
  <2> QED BY <1>6, <2>1, <2>2, <2>3 DEF UpdaterStep, Extras
<1> QED BY <1>1, <1>2, <1>3, <1>4, <1>5, <1>6, <1>7, <1>9 DEF System, Handler

(* The daemon's steps keep AcceptedInv.                                      *)
LEMMA AcceptedSystem ==
  ASSUME Types, BaseInv, AcceptedInv, System, UNCHANGED <<wiz, calls>>
  PROVE  AcceptedInv'
<1>1. SUFFICES ASSUME Untroubled', "configured" \notin acked' PROVE Unconfigured'
  BY DEF AcceptedInv
<1>2. Untroubled /\ crashes' = crashes /\ crashes \in Nat
  BY <1>1, TroubleSystem, UntroubledBefore DEF Types, DaemonTypes
<1>3. ~Crash /\ ~EnterRecovery
  BY <1>2 DEF Crash, EnterRecovery
<1>4. "configured" \notin acked
  BY <1>1, KeyStays
<1>5. Unconfigured /\ ~Reboot
  BY <1>2, <1>4 DEF Reboot, At, AcceptedInv, Unconfigured, Leaves
<1>6. call[Wizard].at = "idle" => call'[Wizard] = call[Wizard]
  BY <1>3, <1>5, Named, IdleStays
<1>7. ~Leaves' /\ ~Stored'
  BY <1>1, <1>3, <1>5, RebootsAfterBootstrap, DoneStored DEF Unconfigured
<1>8. (Asks' => Answered("ok")') /\ (Ends' => wiz'.accepted)
  BY <1>5, <1>6 DEF Unconfigured, Asks, Ends, Answered
<1> QED BY <1>7, <1>8 DEF Unconfigured

(* A bootstrap asked for in recovery, with key and network recorded, is      *)
(* accepted.                                                                 *)
LEMMA BootstrapTaken ==
  ASSUME DaemonTypes, Waiting, {"key", "net"} \subseteq mem.box.facts, Request(Wizard, "bootstrap")
  PROVE  Answered("ok")'
<1>1. ~RefusesBootstrap
  BY DEF RefusesBootstrap, Waiting
<1>2. Reply(Wizard, "ok")
  BY <1>1 DEF Request, StartWrite, StartJob, JobKinds
<1> QED BY <1>2, Named, Replied DEF Answered

(* The wizard's steps keep AcceptedInv.                                      *)
LEMMA AcceptedWizard ==
  ASSUME Types, BaseInv, FormInv, AskInv, SeedInv, AloneInv, AcceptedInv, WizardStep
  PROVE  AcceptedInv'
<1>0. UNCHANGED calls /\ Shape /\ DaemonTypes /\ wiz.plan \in Seq(RecoveryKinds) /\ wiz.net \in BOOLEAN
  BY WizardCases DEF FormInv, Types, WizardTypes, Wizards
<1>1. SUFFICES ASSUME Untroubled', "configured" \notin acked' PROVE Unconfigured'
  BY DEF AcceptedInv
<1>2. ASSUME Counted, acked' = acked PROVE Unconfigured /\ Untroubled
  <2>1. Untroubled /\ "configured" \notin acked
    BY <1>0, <1>1, <1>2, UntroubledBefore
  <2> QED BY <2>1 DEF AcceptedInv
<1> USE DEF Unconfigured, Leaves, Stored, Asks, Ends
<1>3. ASSUME UNCHANGED vars PROVE Unconfigured /\ Untroubled /\ (~Leaves /\ ~Stored)' /\ (Answered("ok")' <=> Answered("ok"))
  BY <1>2, <1>3 DEF vars, Counted, Answered
<1>4. ASSUME Collect, OnlyCall PROVE Unconfigured /\ Untroubled /\ (~Leaves /\ ~Stored)'
  <2>1. Unconfigured /\ Untroubled
    BY <1>2, <1>4 DEF OnlyCall, Counted, history
  <2>2. call'[Updater] = call[Updater]
    BY <1>0, <1>4, CollectedCall, Named
  <2> QED BY <1>4, <2>1, <2>2 DEF OnlyCall, jobs
<1>5. ASSUME NEW k \in Kinds \ {"reboot"}, Request(Wizard, k) PROVE Unconfigured /\ Untroubled /\ (~Leaves /\ ~Stored)'
  <2>1. DaemonFrame /\ Counted
    BY <1>0, <1>5, Named, RequestEffect, TroubleRequest
  <2>2. Unconfigured /\ Untroubled
    BY <1>2, <2>1 DEF DaemonFrame
  <2>3. call'[Updater] = call[Updater] \/ call'[Updater] = Idle
    BY <1>5, Named, RequestCall
  <2> QED BY <2>1, <2>2, <2>3, NoJobIs DEF DaemonFrame
<1>10. ASSUME Browses PROVE Unconfigured'
  <2>1. (Asks' => Asks) /\ (Ends' => Ends /\ wiz'.accepted = wiz.accepted)
    BY <1>0, <1>10 DEF Browses, Seeded
  <2> QED BY <1>3, <1>10, <2>1 DEF Browses
<1>11. ASSUME NEW net \in BOOLEAN, Chooses(net) PROVE Unconfigured'
  <2> DEFINE p == Plan(net)
  <2>0. p \in Seq(Sent) /\ Len(p) = (IF net THEN 4 ELSE 3)
    BY PlanIs
  <2> HIDE DEF p
  <2>1. p # <<>>
    <3>1. Len(p) # 0
      BY <2>0
    <3> QED BY <3>1
  <2>2. wiz'.plan = p /\ ~wiz'.sent /\ wiz'.step = "finalizing" /\ UNCHANGED vars
    BY <1>11 DEF Chooses, p, FormInv
  <2> QED BY <1>3, <2>1, <2>2
<1>12. ASSUME Generates PROVE Unconfigured'
  <2>1. "key" \in Kinds \ {"reboot"} /\ Request(Wizard, "key") /\ ~wiz'.busy /\ wiz'.step = "generate"
    BY <1>0, <1>12 DEF Generates, Kinds, RecoveryKinds, Shape
  <2> QED BY <1>5, <2>1
<1>13. ASSUME Generated PROVE Unconfigured'
  BY <1>0, <1>4, <1>13 DEF Generated, Shape
<1>14. ASSUME Sends PROVE Unconfigured'
  <2> DEFINE k == Head(wiz.plan)
  <2>1. /\ k = wiz.plan[1] /\ 1 \in DOMAIN wiz.plan /\ Request(Wizard, k) /\ wiz.plan # <<>> /\ wiz.step = "finalizing"
        /\ wiz'.plan = wiz.plan /\ wiz'.net = wiz.net /\ wiz'.step = wiz.step /\ Head(wiz'.plan) = k /\ Sending
    BY <1>0, <1>14 DEF Sends, Sending, Shape
  <2> HIDE DEF k
  <2>2. k \in Sent /\ k \in Kinds \ {"reboot"}
    <3>1. k \in Sent
      BY <2>1 DEF FormInv, SendsLastBootstrap
    <3> QED BY <3>1 DEF Sent, Kinds, RecoveryKinds
  <2>3. Unconfigured /\ Untroubled /\ (~Leaves /\ ~Stored)'
    BY <1>5, <2>1, <2>2
  <2>4. ASSUME wiz.net, k = "bootstrap" PROVE Answered("ok")'
    <3>1. Waiting /\ "key" \in mem.box.facts /\ NetComing
      BY <2>1, <2>3, <2>4 DEF AloneInv
    <3>2. Len(wiz.plan) = 1
      BY <2>1, <2>4 DEF FormInv, SendsLastBootstrap
    <3>3. "net" \in mem.box.facts
      <4>1. \A i \in DOMAIN wiz.plan : i = 1
        BY <1>0, <3>2
      <4> QED BY <2>1, <2>4, <3>1, <4>1 DEF NetComing
    <3> QED BY <1>0, <2>1, <2>4, <3>1, <3>3, BootstrapTaken
  <2> QED BY <2>1, <2>3, <2>4
<1>15. ASSUME GivesUp PROVE Unconfigured'
  BY <1>3, <1>15 DEF GivesUp, Running
<1>16. ASSUME Receives PROVE Unconfigured'
  <2>1. /\ wiz.step = "finalizing" /\ wiz'.step = "finalizing" /\ ~wiz'.sent /\ wiz.plan # <<>> /\ wiz'.net = wiz.net
        /\ Collect /\ OnlyCall /\ wiz.busy /\ wiz.sent
    BY <1>0, <1>16 DEF Receives, Shape
  <2>2. ASSUME Ends' PROVE wiz'.accepted
    <3>1. wiz'.plan = <<>> /\ wiz'.busy /\ wiz.net
      BY <2>1, <2>2
    <3>2. CASE Answered("ok") /\ wiz'.plan = Tail(wiz.plan) /\ wiz'.accepted = (Head(wiz.plan) = "bootstrap")
      <4> DEFINE t == Tail(wiz.plan)
      <4>1. Len(t) = Len(wiz.plan) - 1 /\ Head(wiz.plan) = wiz.plan[1] /\ Len(wiz.plan) \in Nat
        BY <1>0, <2>1, Tailed
      <4> HIDE DEF t
      <4>2. t = <<>>
        BY <3>1, <3>2 DEF t
      <4>3. Len(wiz.plan) = 1 /\ 1 \in DOMAIN wiz.plan
        BY <1>0, <4>1, <4>2
      <4> QED BY <3>2, <4>1, <4>3 DEF FormInv, SendsLastBootstrap
    <3>3. CASE Answered("refused") \/ Broken
      <4>1. Head(wiz.plan) = "bootstrap"
        BY <1>16, <2>1, <3>1, <3>2 DEF Receives
      <4>2. Answered("ok")
        BY <1>4, <2>1, <3>1, <4>1
      <4> QED BY <3>3, <4>2 DEF Answered, Broken, Idle
    <3> QED BY <1>16, <3>2, <3>3 DEF Receives
  <2> QED BY <1>4, <2>1, <2>2
<1>17. ASSUME Completes PROVE Unconfigured'
  BY <1>3, <1>17 DEF Completes
<1> QED BY <1>10, <1>11, <1>12, <1>13, <1>14, <1>15, <1>16, <1>17, WizardCases DEF FormInv

(* Every step keeps AcceptedInv.                                             *)
LEMMA AcceptedStep ==
  ASSUME Types, BaseInv, FormInv, AskInv, SeedInv, AloneInv, AcceptedInv, [Next]_wizVars
  PROVE  AcceptedInv'
<1>1. CASE UNCHANGED wizVars
  BY <1>1 DEF wizVars, vars, AcceptedInv, Untroubled, Unconfigured, Leaves, Stored, Asks, Ends, Answered
<1>2. CASE PanelRequest
  BY <1>2 DEF PanelRequest, Types, WizardTypes, AcceptedInv, Untroubled
<1> QED BY <1>1, <1>2, AcceptedWizard, AcceptedSystem DEF Next

(* Without trouble the wizard's bootstrap is accepted, or the box has been   *)
(* configured meanwhile.                                                     *)
THEOREM AcceptedHolds == Spec => []AcceptedInv
<1>1. ASSUME Types, BaseInv, FormInv, AskInv, SeedInv, AloneInv, AcceptedInv, [Next]_wizVars PROVE AcceptedInv'
  BY <1>1, AcceptedStep
<1>2. WizInit => AcceptedInv
  <2> SUFFICES ASSUME WizInit PROVE AcceptedInv
    OBVIOUS
  <2>1. call[Updater] = Idle /\ wiz = Off /\ job = NoJob /\ mode = "recovery"
    BY Named DEF WizInit, Init
  <2> QED BY <2>1, NoJobIs DEF AcceptedInv, Off, Unconfigured, Leaves, Stored, Asks, Ends
<1> QED BY <1>1, <1>2, BaseHolds, TypesHold, FormHolds, AskHolds, SeedHolds, AloneHolds, PTL DEF Spec

(* "Complete" on the screen means that the daemon took the bootstrap, if a   *)
(* network was chosen, no step failed and nobody else was at work, although  *)
(* the wizard ignores that last answer (cmd/dbx-setup/commands.go).          *)
THEOREM CompleteAccepted == Spec => []CompleteMeansAccepted
<1>1. Types /\ AcceptedInv => CompleteMeansAccepted
  BY DEF Types, DaemonTypes, WizardTypes, AcceptedInv, Untroubled, Unconfigured, Ends,
         CompleteMeansAccepted
<1> QED BY <1>1, AcceptedHolds, TypesHold, PTL

=============================================================================
