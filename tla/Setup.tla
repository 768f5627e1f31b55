------------------------------- MODULE Setup -------------------------------
(***************************************************************************)
(* Setting up a box: the state manager and its database, the HTTP handlers *)
(* that read, change and write back its Dogebox section without a lock     *)
(* (pkg/web/setup.go, keys.go, network.go, ssh.go, binary_caches.go), the  *)
(* initial bootstrap with the move of the data directory to the storage    *)
(* device (pkg/system/bootstrap.go), recovery mode and the boots between.  *)
(*                                                                         *)
(* A yes/no field of the Dogebox section is a member of `facts` ("named"   *)
(* stands for host name, keymap and time zone, "extra" for SSH and binary  *)
(* caches, "pin" for the sidebar and the welcome flag); a disk is what the *)
(* data directory holds when that disk is mounted there.  One storage      *)
(* device is modelled besides the boot medium.                             *)
(***************************************************************************)
EXTENDS Naturals, Sequences, FiniteSets

CONSTANTS Clients,     \* who sends requests, one at a time each
          Watching,    \* the clients that look at the answers
          Updater,     \* the goroutine that runs the jobs
          MaxTrouble   \* failures and crashes, together

ASSUME UpdaterIsNoClient == Updater \notin Clients

VARIABLES mem,         \* what the state manager holds: box, net, src
          data,        \* the two disks: the same as rows, and the flag files
          mounted,     \* the disk under the data directory
          overlay,     \* the system configuration mounts the device at boot
          temp,        \* the temporary copy a bootstrap makes
          db,          \* the database is open
          dkm,         \* the key manager holds a master key
          call,        \* the request or job step each party is in
          queue, job,  \* the updater's jobs
          mode,        \* what the process runs as
          faults, crashes,
          acked,       \* facts that an answer or a finished job has confirmed
          lost,        \* one read-modify-write has overwritten another
          interrupted, \* the move to the device was cut short
          forgotten,   \* a start could not read back the current network
          unmarked     \* this start could not write or remove its recovery files

vars == <<mem, data, mounted, overlay, temp, db, dkm, call, queue, job, mode,
          faults, crashes, acked, lost, interrupted, forgotten, unmarked>>
history == <<acked, lost, interrupted, forgotten, unmarked>>
disks   == <<data, mounted, overlay, temp, db>>
jobs    == <<queue, job>>

Parties == Clients \cup {Updater}
Facts == {"key", "net", "configured", "named", "extra", "pin"}
Box == [facts : SUBSET Facts, storage : BOOLEAN]
Net == [pending : BOOLEAN, current : BOOLEAN]
NoBox == [facts |-> {}, storage |-> FALSE]
Fresh == [box |-> NoBox, net |-> [pending |-> FALSE, current |-> FALSE], src |-> FALSE]

(* What a data directory holds: the rows, whether their tables exist, and   *)
(* the files of recovery.go.                                                *)
Empty == [rows |-> Fresh, tables |-> FALSE, force |-> FALSE, booted |-> FALSE]

Adds == [hostname |-> "named", keymap |-> "named", key |-> "key", noKey |-> "key", network |-> "net",
         extra |-> "extra", pin |-> "pin", configured |-> "configured"]
Removes == [noExtra |-> "extra", unpin |-> "pin"]

(* The assignment a handler or a job makes to its copy of the section.      *)
Changed(kind, box) ==
  IF kind = "storage" THEN [box EXCEPT !.storage = TRUE]
  ELSE IF kind \in DOMAIN Adds THEN [box EXCEPT !.facts = @ \cup {Adds[kind]}]
  ELSE [box EXCEPT !.facts = @ \ {Removes[kind]}]

(* An addition is confirmed when it is stored; a removal is under way from   *)
(* its assignment on, and may take effect later even if it is refused.       *)
Withdrawn(kind) == acked' = IF kind \in DOMAIN Removes THEN acked \ {Removes[kind]} ELSE acked
Confirmed(kind) == acked' = IF kind \in DOMAIN Adds THEN acked \cup {Adds[kind]} ELSE acked

JobKinds == {"extra", "noExtra"}
RecoveryKinds == {"hostname", "keymap", "storage", "bootMedia", "key", "network", "connect",
                  "bootstrap", "extra", "noExtra", "reboot"}
NormalKinds == {"pin", "unpin"}
Routes == IF mode = "normal" THEN RecoveryKinds \cup NormalKinds ELSE RecoveryKinds

Idle == [at |-> "idle", kind |-> "none", got |-> NoBox, ans |-> "none"]
NoJob == [kind |-> "none", at |-> "none", storage |-> FALSE, net |-> Fresh.net]
Running == mode \in {"recovery", "normal"}
Rows == data[mounted].rows
CanWrite == db /\ data[mounted].tables
Fault == faults + crashes < MaxTrouble /\ faults' = faults + 1

Init ==
  /\ mem = Fresh
  /\ data = [base |-> [Empty EXCEPT !.tables = TRUE, !.booted = TRUE], device |-> Empty]
  /\ mounted = "base" /\ overlay = FALSE /\ temp = Empty /\ db = TRUE
  /\ dkm = FALSE
  /\ call = [c \in Parties |-> Idle]
  /\ queue = <<>> /\ job = NoJob
  /\ mode = "recovery"
  /\ faults = 0 /\ crashes = 0
  /\ acked = {} /\ lost = FALSE /\ interrupted = FALSE /\ forgotten = FALSE /\ unmarked = FALSE

-----------------------------------------------------------------------------
(* HTTP requests: the checks before the handler's copy of the state.         *)

Reply(c, ans) == call' = [call EXCEPT ![c] = IF c \in Watching THEN [Idle EXCEPT !.ans = ans] ELSE Idle]
Proceed(c, kind) == call' = [call EXCEPT ![c] = [Idle EXCEPT !.at = "get", !.kind = kind]]

RefusesBootstrap == \/ mode = "normal"
                    \/ "configured" \in mem.box.facts
                    \/ ~({"key", "net"} \subseteq mem.box.facts)

(* setStorageDevice, for the device and for the boot medium.                 *)
RefusesStorage == "configured" \in mem.box.facts

(* Handlers that read, change and write back the section.                    *)
StartWrite(c, kind) ==
  /\ kind \in {"hostname", "keymap", "network", "pin", "unpin", "storage"}
  /\ IF kind = "storage" /\ RefusesStorage
     THEN Reply(c, "refused") ELSE Proceed(c, kind)
  /\ UNCHANGED <<mem, disks, dkm, jobs, mode, faults, crashes, history>>

(* createMasterKey.  The key manager refuses a second key; a call that does  *)
(* not reach it is answered as if a key had been created.                    *)
createMasterKey(c) ==
  /\ \/ "key" \in mem.box.facts /\ Reply(c, "refused") /\ UNCHANGED <<dkm, faults>>
     \/ "key" \notin mem.box.facts /\ dkm /\ Reply(c, "refused") /\ UNCHANGED <<dkm, faults>>
     \/ "key" \notin mem.box.facts /\ ~dkm /\ dkm' = TRUE /\ Proceed(c, "key") /\ UNCHANGED faults
     \/ "key" \notin mem.box.facts /\ Fault /\ Proceed(c, "noKey") /\ UNCHANGED dkm
  /\ UNCHANGED <<mem, disks, jobs, mode, crashes, history>>

(* Requests that only add a job; the boot medium is accepted as storage and  *)
(* changes nothing.                                                          *)
StartJob(c, kind) ==
  /\ kind \in JobKinds \cup {"bootstrap", "bootMedia"}
  /\ \/ kind \in JobKinds /\ queue' = Append(queue, kind) /\ Reply(c, "ok")
     \/ kind = "bootstrap" /\ RefusesBootstrap /\ Reply(c, "refused") /\ UNCHANGED queue
     \/ kind = "bootstrap" /\ ~RefusesBootstrap /\ Reply(c, "ok") /\ queue' = Append(queue, kind)
     \/ /\ kind = "bootMedia" /\ UNCHANGED queue
        /\ Reply(c, IF RefusesStorage THEN "refused" ELSE "ok")
  /\ UNCHANGED <<mem, disks, dkm, job, mode, faults, crashes, history>>

(* connectNetwork: TryConnect with the network section read before it        *)
(* connects.                                                                 *)
StartConnect(c) ==
  /\ IF mem.net.pending
     THEN call' = [call EXCEPT ![c] = [Idle EXCEPT !.at = "connect", !.kind = "connect"]]
     ELSE Reply(c, "refused")
  /\ UNCHANGED <<mem, disks, dkm, jobs, mode, faults, crashes, history>>

(* Mutants: not saved; a new section in which the current network is absent. *)
SwapUnsaved == mem' = [mem EXCEPT !.net = [pending |-> FALSE, current |-> TRUE]] /\ data' = data
SwapNil == mem' = [mem EXCEPT !.net = [pending |-> FALSE]] /\ data' = data

SwapNetwork ==
  /\ mem' = [mem EXCEPT !.net = [pending |-> FALSE, current |-> TRUE]]
  /\ data' = IF CanWrite THEN [data EXCEPT ![mounted].rows.net = mem'.net] ELSE data

(* Either it does not connect, or what it then holds is not saved.           *)
ConnectFails ==
  Fault /\ mem' \in {mem, [mem EXCEPT !.net = [pending |-> FALSE, current |-> TRUE]]} /\ UNCHANGED data

Connect(c) ==
  /\ call[c].at = "connect"
  /\ \/ SwapNetwork /\ Reply(c, IF CanWrite THEN "ok" ELSE "refused") /\ UNCHANGED faults
     \/ ConnectFails /\ Reply(c, "refused")
  /\ UNCHANGED <<mounted, overlay, temp, db, dkm, jobs, mode, crashes, history>>

-----------------------------------------------------------------------------
(* The three steps of `x := sm.Get().Dogebox; x.f = ...; sm.SetDogebox(x)`,  *)
(* by a handler or by the updater's job.                                     *)

(* A copy taken while another goroutine assigns may mix old and new fields.  *)
Reads == {mem.box} \cup
  UNION {{[facts |-> f, storage |-> s] :
            f \in {g \in SUBSET (mem.box.facts \cup Changed(call[o].kind, call[o].got).facts) :
                     mem.box.facts \cap Changed(call[o].kind, call[o].got).facts \subseteq g},
            s \in {mem.box.storage, Changed(call[o].kind, call[o].got).storage}} :
         o \in {p \in Parties : call[p].at = "assign"}}

GetState(c) ==
  /\ call[c].at = "get"
  /\ \E b \in Reads : call' = [call EXCEPT ![c].got = b, ![c].at = "assign"]
  /\ UNCHANGED <<mem, disks, dkm, jobs, mode, faults, crashes, history>>

(* What a handler does after its write: set-pending adds the network's job,  *)
(* a keymap of a configured box is applied by a job.                         *)
After(c) ==
  queue' = CASE call[c].kind = "network" -> Append(queue, "pending")
             [] call[c].kind = "keymap" /\ "configured" \in call[c].got.facts -> Append(queue, "keymap")
             [] OTHER -> queue

(* Mutant: the session is made without asking the key manager.               *)
AnswerOK(c) == "ok"

(* createMasterKey ends by authenticating with the new password, which the   *)
(* key manager accepts only if it made the key.                              *)
Answer(c) == IF call[c].kind = "noKey" THEN "refused" ELSE "ok"

(* These write nothing when the flag already has its value.                  *)
Skips == {"key", "noKey", "network", "pin", "unpin"}

Assign(c) ==
  /\ call[c].at = "assign"
  /\ LET new == Changed(call[c].kind, call[c].got) IN
       \/ /\ call[c].kind \in Skips /\ new = call[c].got
          /\ IF c = Updater THEN call' = [call EXCEPT ![c].at = "done"] /\ UNCHANGED queue
                            ELSE After(c) /\ Reply(c, Answer(c))
          /\ UNCHANGED <<mem, lost, acked>>
       \/ /\ call[c].kind \notin Skips \/ new # call[c].got
          /\ mem' = [mem EXCEPT !.box = new]
          /\ lost' = (lost \/ mem.box # call[c].got)
          /\ Withdrawn(call[c].kind)
          /\ call' = [call EXCEPT ![c].at = "store"]
          /\ UNCHANGED queue
  /\ UNCHANGED <<disks, dkm, job, mode, faults, crashes, interrupted, forgotten, unmarked>>

StoreRow(c) ==
  /\ call[c].at = "store"
  /\ LET new == Changed(call[c].kind, call[c].got) IN
       \/ /\ CanWrite
          /\ data' = [data EXCEPT ![mounted].rows.box = new]
          /\ lost' = (lost \/ mem.box # new)
          /\ Confirmed(call[c].kind)
          /\ \/ c = Updater /\ call' = [call EXCEPT ![c].at = "done"] /\ UNCHANGED <<queue, faults>>
             \/ c # Updater /\ After(c) /\ Reply(c, Answer(c)) /\ UNCHANGED faults
             \/ call[c].kind = "key" /\ Fault /\ Reply(c, "refused") /\ UNCHANGED queue
          /\ UNCHANGED job
       \/ /\ IF CanWrite THEN Fault ELSE UNCHANGED faults
          /\ IF c = Updater THEN call' = [call EXCEPT ![c] = Idle] /\ job' = NoJob
                            ELSE Reply(c, "refused") /\ UNCHANGED job
          /\ UNCHANGED <<data, lost, acked, queue>>
  /\ UNCHANGED <<mem, mounted, overlay, temp, db, dkm, mode, crashes, interrupted, forgotten, unmarked>>

-----------------------------------------------------------------------------
(* The updater.                                                              *)

FirstStep(kind) == IF kind \in {"bootstrap", "pending"} THEN kind ELSE "change"

TakeJob ==
  /\ Running /\ job = NoJob /\ queue # <<>>
  /\ job' = [NoJob EXCEPT !.kind = Head(queue), !.at = FirstStep(Head(queue))]
  /\ queue' = Tail(queue)
  /\ UNCHANGED <<mem, disks, dkm, call, mode, faults, crashes, history>>

At(step) == Running /\ job.at = step
Go(step) == job' = [job EXCEPT !.at = step]

(* A failed step ends the job; initialBootstrap's defer reopens the database *)
Failed == job' = NoJob /\ db' = TRUE

(* SetPendingNetwork, with the copy it takes of the network section.         *)
SetPendingNetwork ==
  /\ \/ /\ At("pending")
        /\ \/ job' = [job EXCEPT !.at = "pend", !.net = mem.net] /\ UNCHANGED faults
           \/ Fault /\ job' = NoJob
        /\ UNCHANGED <<mem, data>>
     \/ /\ At("pend") /\ job' = NoJob
        /\ mem' = [mem EXCEPT !.net = [job.net EXCEPT !.pending = TRUE]]
        /\ data' = IF CanWrite THEN [data EXCEPT ![mounted].rows.net = mem'.net] ELSE data
        /\ UNCHANGED faults
  /\ UNCHANGED <<mounted, overlay, temp, db, dkm, call, queue, mode, crashes, history>>

(* A job's own read-modify-write, then the patch that applies it.            *)
Change(step, kind, next) ==
  /\ At(step)
  /\ \/ /\ call[Updater].at = "idle"
        /\ call' = [call EXCEPT ![Updater] = [Idle EXCEPT !.at = "get", !.kind = kind]]
        /\ UNCHANGED <<job, faults>>
     \/ /\ call[Updater].at = "done"
        /\ call' = [call EXCEPT ![Updater] = Idle]
        /\ \/ (IF next = "end" THEN job' = NoJob ELSE Go(next)) /\ UNCHANGED faults
           \/ kind # "configured" /\ Fault /\ job' = NoJob
  /\ UNCHANGED <<mem, disks, dkm, queue, mode, crashes, history>>

SmallJob == Change("change", job.kind, "end")

Bootstrap ==
  /\ At("bootstrap")
  /\ IF "configured" \in mem.box.facts \/ ~({"key", "net"} \subseteq mem.box.facts) \/ ~mem.net.pending
     THEN job' = NoJob
     ELSE job' = [job EXCEPT !.at = "connect", !.storage = mem.box.storage]
  /\ UNCHANGED <<mem, disks, dkm, call, queue, mode, faults, crashes, history>>

(* TryConnect saves the network as current, then the system is initialised   *)
(* with the state read when the job began.                                   *)
TryConnect ==
  /\ At("connect")
  /\ \/ /\ SwapNetwork
        /\ IF CanWrite THEN Go("init") ELSE job' = NoJob
        /\ UNCHANGED faults
     \/ ConnectFails /\ job' = NoJob
  /\ UNCHANGED <<mounted, overlay, temp, db, dkm, call, queue, mode, crashes, history>>

InitSystem ==
  /\ At("init")
  /\ \/ Go(IF job.storage THEN "close" ELSE "source") /\ UNCHANGED faults
     \/ Fault /\ job' = NoJob
  /\ UNCHANGED <<mem, disks, dkm, call, queue, mode, crashes, history>>

(* Mutant: the database stays open while its file is copied.                 *)
CloseNothing ==
  /\ At("close") /\ Go("format")
  /\ UNCHANGED <<mem, disks, dkm, call, queue, mode, faults, crashes, history>>

CloseDB ==
  /\ At("close")
  /\ db' = FALSE /\ Go("format")
  /\ UNCHANGED <<mem, data, mounted, overlay, temp, dkm, call, queue, mode, faults, crashes, history>>

(* parted refuses a device in use.                                           *)
InitStorageDevice ==
  /\ At("format")
  /\ \/ mounted # "device" /\ data' = [data EXCEPT !.device = Empty] /\ Go("copy") /\ UNCHANGED <<faults, db>>
     \/ mounted = "device" /\ Failed /\ UNCHANGED <<data, faults>>
     \/ Fault /\ Failed /\ data' \in {data, [data EXCEPT !.device = IF mounted = "device" THEN @ ELSE Empty]}
  /\ UNCHANGED <<mem, mounted, overlay, temp, dkm, call, queue, mode, crashes, history>>

CopyOut ==
  /\ At("copy")
  /\ \/ temp' = data[mounted] /\ Go("overlay") /\ UNCHANGED <<faults, db>>
     \/ Fault /\ Failed /\ UNCHANGED temp
  /\ UNCHANGED <<mem, data, mounted, overlay, dkm, call, queue, mode, crashes, history>>

ApplyOverlay ==
  /\ At("overlay")
  /\ \/ mounted' = "device" /\ overlay' = TRUE /\ Go("copyBack") /\ UNCHANGED <<faults, db>>
     \/ Fault /\ Failed /\ UNCHANGED <<mounted, overlay>>
  /\ UNCHANGED <<mem, data, temp, dkm, call, queue, mode, crashes, history>>

(* Mutant: only the database is copied back, not the files beside it.        *)
CopyBackRows ==
  /\ At("copyBack")
  /\ \/ /\ data' = [data EXCEPT !.device = [temp EXCEPT !.force = data.device.force, !.booted = FALSE]]
        /\ Go("reoverlay") /\ UNCHANGED <<faults, db, interrupted>>
     \/ Fault /\ Failed /\ interrupted' = TRUE /\ UNCHANGED data
  /\ temp' = Empty
  /\ UNCHANGED <<mem, mounted, overlay, dkm, call, queue, mode, crashes, acked, lost,
                 forgotten, unmarked>>

(* Files that were made on the device since are kept; the copy is not read   *)
(* again.                                                                    *)
CopyBack ==
  /\ At("copyBack")
  /\ \/ /\ data' = [data EXCEPT !.device = [temp EXCEPT !.force = @ \/ data.device.force]]
        /\ Go("reoverlay") /\ UNCHANGED <<faults, db, interrupted>>
     \/ Fault /\ Failed /\ interrupted' = TRUE /\ UNCHANGED data
  /\ temp' = Empty
  /\ UNCHANGED <<mem, mounted, overlay, dkm, call, queue, mode, crashes, acked, lost,
                 forgotten, unmarked>>

(* Mutant: the database is not opened again.                                 *)
ReoverlayClosed ==
  /\ At("reoverlay") /\ Go("source")
  /\ UNCHANGED <<mem, disks, dkm, call, queue, mode, faults, crashes, history>>

Reoverlay ==
  /\ At("reoverlay")
  /\ \/ db' = TRUE /\ Go("source") /\ UNCHANGED faults
     \/ Fault /\ Failed
  /\ UNCHANGED <<mem, data, mounted, overlay, temp, dkm, call, queue, mode, crashes, history>>

(* The default source: a second one at the same address is an error, and one *)
(* that could not be saved stays in memory.                                  *)
AddSource ==
  /\ At("source")
  /\ \/ mem.src /\ job' = NoJob /\ UNCHANGED <<mem, data, faults>>
     \/ /\ ~mem.src /\ mem' = [mem EXCEPT !.src = TRUE]
        /\ IF CanWrite THEN data' = [data EXCEPT ![mounted].rows.src = TRUE] /\ Go("extras")
                       ELSE job' = NoJob /\ UNCHANGED data
        /\ UNCHANGED faults
     \/ Fault /\ job' = NoJob /\ mem' \in {mem, [mem EXCEPT !.src = TRUE]} /\ UNCHANGED data
  /\ UNCHANGED <<mounted, overlay, temp, db, dkm, call, queue, mode, crashes, history>>

(* An SSH key, then the foundation's caches, when the request asks for them. *)
Choose(step, nexts) ==
  /\ At(step) /\ \E next \in nexts : Go(next)
  /\ UNCHANGED <<mem, disks, dkm, call, queue, mode, faults, crashes, history>>

Extras == \/ Choose("extras", {"extra", "finish"})
          \/ Change("extra", "extra", "finish")

Finish == Change("finish", "configured", "reboot")

-----------------------------------------------------------------------------
(* Stopping and starting.                                                    *)

Stop ==
  /\ mode' = "down" /\ call' = [c \in Parties |-> Idle]
  /\ queue' = <<>> /\ job' = NoJob
  /\ interrupted' = (interrupted \/ job.at = "copyBack")
  /\ mem' = Fresh
  /\ UNCHANGED <<dkm, faults, acked, lost,
                 forgotten, unmarked>>

(* Five seconds after a bootstrap, or when a client asks.                    *)
Reboot == At("reboot") /\ Stop /\ UNCHANGED <<disks, crashes>>
HostReboot(c) == Running /\ Stop /\ UNCHANGED <<disks, crashes>>
Crash == mode # "down" /\ faults + crashes < MaxTrouble /\ crashes' = crashes + 1 /\ Stop /\ UNCHANGED disks

(* `dbx enter-recovery-mode`: the flag file, then a reboot.                  *)
EnterRecovery ==
  /\ Running /\ ~data[mounted].force /\ faults + crashes < MaxTrouble /\ crashes' = crashes + 1
  /\ data' = [data EXCEPT ![mounted].force = TRUE]
  /\ Stop /\ UNCHANGED <<mounted, overlay, temp, db>>

ShouldEnterRecovery(disk, outside) ==
  outside \/ "configured" \notin disk.rows.box.facts \/ disk.force

(* What NewStateManager makes of the rows: a network section that has a       *)
(* network in it cannot be decoded, and the daemon goes on without one.       *)
Loaded(rows) == [rows EXCEPT !.net = Fresh.net]

(* main: load the state, decide the mode, and remove or write the files; the *)
(* booted flag is written after the force flag is gone.  An error of either  *)
(* is logged, and the daemon goes on in that mode.                           *)
Start ==
  /\ mode = "down"
  /\ LET m == IF overlay THEN "device" ELSE "base" IN
       /\ mounted' = m /\ db' = TRUE /\ mem' = Loaded(data[m].rows)
       /\ forgotten' = (forgotten \/ data[m].rows.net.current)
       /\ \/ /\ \E outside \in BOOLEAN :
                 mode' = IF ShouldEnterRecovery(data[m], outside) THEN "entering" ELSE "leaving"
             /\ data' = [data EXCEPT ![m].tables = TRUE, ![m].force = FALSE]
             /\ unmarked' = FALSE /\ UNCHANGED faults
          \/ /\ data[m].force /\ Fault /\ mode' = "recovery" /\ unmarked' = TRUE
             /\ data' = [data EXCEPT ![m].tables = TRUE]
  /\ UNCHANGED <<overlay, temp, dkm, call, jobs, crashes, acked, lost, interrupted>>

DidEnterRecovery ==
  /\ mode = "entering" /\ mode' = "recovery"
  /\ \/ data' = [data EXCEPT ![mounted].booted = TRUE] /\ UNCHANGED <<faults, unmarked>>
     \/ Fault /\ unmarked' = TRUE /\ UNCHANGED data
  /\ UNCHANGED <<mem, mounted, overlay, temp, db, dkm, call, jobs, crashes, acked, lost, interrupted, forgotten>>

UnforceRecovery ==
  /\ mode = "leaving" /\ mode' = "normal"
  /\ \/ data' = [data EXCEPT ![mounted].booted = FALSE] /\ UNCHANGED <<faults, unmarked>>
     \/ data[mounted].booted /\ Fault /\ unmarked' = TRUE /\ UNCHANGED data
  /\ UNCHANGED <<mem, mounted, overlay, temp, db, dkm, call, jobs, crashes, acked, lost, interrupted, forgotten>>

Request(c, kind) ==
  /\ Running /\ call[c].at = "idle" /\ kind \in Routes
  /\ \/ StartWrite(c, kind)
     \/ kind = "key" /\ createMasterKey(c)
     \/ StartJob(c, kind)
     \/ kind = "connect" /\ StartConnect(c)
     \/ kind = "reboot" /\ HostReboot(c)

Handler(c) == GetState(c) \/ Assign(c) \/ StoreRow(c)
UpdaterStep == \/ TakeJob \/ SmallJob \/ SetPendingNetwork \/ Bootstrap \/ TryConnect \/ InitSystem
               \/ CloseDB \/ InitStorageDevice \/ CopyOut \/ ApplyOverlay \/ CopyBack \/ Reoverlay
               \/ AddSource \/ Extras \/ Finish \/ Reboot
Boot == Start \/ DidEnterRecovery \/ UnforceRecovery
System == \/ \E c \in Parties : Handler(c)
          \/ \E c \in Clients : Connect(c)
          \/ UpdaterStep \/ Boot \/ Crash \/ EnterRecovery

-----------------------------------------------------------------------------
TypeOK ==
  /\ mem \in [box : Box, net : Net, src : BOOLEAN]
  /\ data \in [{"base", "device"} -> [rows : [box : Box, net : Net, src : BOOLEAN],
                                     tables : BOOLEAN, force : BOOLEAN, booted : BOOLEAN]]
  /\ mounted \in {"base", "device"}
  /\ {overlay, db, dkm, lost, interrupted, forgotten, unmarked} \subseteq BOOLEAN
  /\ \A c \in Parties :
       /\ call[c].at \in {"idle", "get", "assign", "store", "connect", "done"}
       /\ call[c].got \in Box /\ call[c].ans \in {"none", "ok", "refused"}
  /\ job.storage \in BOOLEAN /\ job.net \in Net /\ acked \subseteq Facts
  /\ mode \in {"recovery", "normal", "down", "entering", "leaving"}

(* IsRecoveryMode is asked by another process (`dbx can-pup-start`) of the   *)
(* database and the files.  A daemon that runs in recovery is seen to, even  *)
(* after the bootstrap it has just finished; one that runs normally is not,  *)
(* unless recovery was asked for the next boot.  Only where an error of the  *)
(* files was logged and passed over when the daemon started may they differ. *)
IsRecoveryMode(disk) == ShouldEnterRecovery(disk, FALSE) \/ disk.booted
ModeAgrees ==
  /\ mode = "recovery" => IsRecoveryMode(data[mounted]) \/ unmarked
  /\ mode = "normal" => ~IsRecoveryMode(data[mounted]) \/ data[mounted].force \/ unmarked

(* A box recorded as configured has a network and the default source on the  *)
(* same disk, and the key and network flags unless an update was lost.  The  *)
(* network is its current one, until a start has failed to read that back: a *)
(* network chosen after it is saved as pending, over the current one.        *)
ConfiguredIsComplete ==
  \A d \in {"base", "device"} :
    "configured" \in data[d].rows.box.facts =>
      /\ data[d].rows.src
      /\ data[d].rows.net.current \/ (forgotten /\ data[d].rows.net.pending)
      /\ lost \/ {"key", "net"} \subseteq data[d].rows.box.facts

(* What an answer or a finished job has confirmed is on the disk the box     *)
(* boots from, across the move of the data directory to the device; not when *)
(* two unlocked updates met or the move was cut short.                       *)
AckedDurable ==
  lost \/ interrupted \/ job.at = "copyBack"
    \/ acked \subseteq data[IF overlay THEN "device" ELSE "base"].rows.box.facts
=============================================================================
