---------------------------- MODULE SetupWizard ----------------------------
(***************************************************************************)
(* The terminal wizard (cmd/dbx-setup) against the daemon of Setup, while  *)
(* a second frontend (the web panel) sends requests of its own.  The       *)
(* wizard's lists are fetched asynchronously and each answer resets the    *)
(* selection; its last command sends the settings one after the other.     *)
(***************************************************************************)
EXTENDS Setup

CONSTANTS Wizard, Panel, MaxCalls, MaxWizards

ASSUME WizardAndPanel == Clients = {Wizard, Panel} /\ Wizard # Panel /\ Watching = {Wizard}

VARIABLES wiz,         \* the wizard's model
          calls,       \* requests the panel has sent
          wizards      \* times the wizard was started

wizVars == <<vars, wiz, calls, wizards>>

Off == [step |-> "off", have |-> {}, fetching |-> {}, disks |-> {}, storage |-> "none",
        chosen |-> "none", confirmed |-> "none", net |-> FALSE, busy |-> FALSE, sent |-> FALSE,
        plan |-> <<>>, accepted |-> FALSE]

WizInit == Init /\ wiz = Off /\ calls = 0 /\ wizards = 0

OnlyWizard == UNCHANGED <<vars, calls, wizards>>
To(step) == [wiz EXCEPT !.step = step]

(* The program starts and asks whether the box is configured.               *)
Launch ==
  /\ wiz.step = "off" /\ wizards < MaxWizards
  /\ wizards' = wizards + 1 /\ wiz' = To("checking")
  /\ UNCHANGED <<vars, calls>>

CheckBootstrap ==
  /\ wiz.step = "checking"
  /\ wiz' = IF ~Running \/ "configured" \in mem.box.facts THEN To("configured")
            ELSE To("ready")
  /\ OnlyWizard

Quit == wiz.step \notin {"off", "finalizing"} /\ wiz' = [Off EXCEPT !.confirmed = wiz.confirmed]
        /\ OnlyWizard

Media == {"boot", "device"}

(* Mutant: the first device is the default, the boot medium if there is none. *)
DefaultFirst(listed) == IF "device" \in listed THEN "device" ELSE IF listed = {} THEN wiz.storage ELSE "boot"

(* The disk an answer selects, whatever was selected: the boot medium or, of *)
(* a list that does not have it, the first device.                           *)
Default(listed) == IF "boot" \in listed THEN "boot" ELSE IF listed = {} THEN wiz.storage ELSE "device"

(* What the user has pressed Enter on; no longer that, once a later answer   *)
(* has selected a device by default.                                         *)
StillChosen(listed) ==
  IF wiz.chosen # "none" /\ listed = {"device"} THEN "defaulted" ELSE wiz.chosen

(* An answer to a fetch, or its failure.  The lists of keymaps and of        *)
(* networks only decide whether one is sent, which Plan and ChooseNetwork    *)
(* leave open.                                                               *)
Fetched(list) ==
  /\ list \in wiz.fetching
  /\ LET answered == [wiz EXCEPT !.fetching = @ \ {list}, !.have = @ \cup {list}] IN
       \/ Running /\ list = "timezones" /\ wiz' = answered
       \/ /\ Running /\ list = "disks"
          /\ \E listed \in SUBSET Media :
               wiz' = [answered EXCEPT !.disks = listed, !.storage = Default(listed),
                                       !.chosen = StillChosen(listed)]
       \/ ~Running /\ wiz' = [wiz EXCEPT !.fetching = @ \ {list}]
  /\ OnlyWizard

(* The steps before the key exists; "password" stands for the binary caches  *)
(* and the two password prompts.                                             *)
Path == <<"ready", "keyboard", "timezone", "storage", "password">>
On(i) == wiz.step = Path[i]

(* Enter: leaving the keyboard asks for the time zones, leaving the time     *)
(* zone for the disks, which a default must then be chosen from.             *)
Enter(i) ==
  /\ i < Len(Path) /\ On(i)
  /\ wiz.step = "timezone" => "timezones" \in wiz.have
  /\ wiz.step = "storage" => wiz.storage # "none"
  /\ wiz' = [To(Path[i + 1]) EXCEPT
       !.fetching = CASE wiz.step = "keyboard" -> @ \cup {"timezones"}
                      [] wiz.step = "timezone" -> @ \cup {"disks"}
                      [] OTHER -> @,
       !.chosen = IF wiz.step = "storage" THEN wiz.storage ELSE @]
  /\ OnlyWizard

Back(i) == i > 2 /\ On(i) /\ wiz' = To(Path[i - 1]) /\ OnlyWizard

(* Up and down in the list of disks.                                         *)
SelectDisk ==
  /\ wiz.step = "storage" /\ wiz.storage \in wiz.disks
  /\ \E d \in wiz.disks : wiz' = [wiz EXCEPT !.storage = d]
  /\ OnlyWizard

(* Requests of the wizard, and how each ends: with the handler's answer, or  *)
(* with a broken connection when the daemon went down.                       *)
Ask(kind) == Running /\ Request(Wizard, kind)
Answered(ans) == call[Wizard].at = "idle" /\ call[Wizard].ans = ans
Collect == call' = [call EXCEPT ![Wizard] = Idle]
Broken == call[Wizard] = Idle

OnlyCall == UNCHANGED <<mem, disks, dkm, jobs, mode, faults, crashes, history, calls, wizards>>

GenerateKey ==
  /\ wiz.step = "password" /\ Ask("key")
  /\ wiz' = [To("generate") EXCEPT !.sent = TRUE] /\ UNCHANGED <<calls, wizards>>

(* An error leaves the wizard on this step, where no key does anything.      *)
SeedGenerated ==
  /\ wiz.step = "generate" /\ wiz.sent
  /\ \/ Answered("ok") /\ wiz' = [To("seed") EXCEPT !.sent = FALSE]
     \/ (Answered("refused") \/ Broken) /\ wiz' = [wiz EXCEPT !.sent = FALSE]
  /\ Collect /\ OnlyCall

(* The seed is shown and one word of it asked for, then the network chosen   *)
(* or skipped.                                                               *)
ConfirmSeed ==
  /\ wiz.step = "seed"
  /\ wiz' = To("network")
  /\ OnlyWizard
BackToSeed == wiz.step = "network" /\ wiz' = To("seed") /\ OnlyWizard

(* Mutant: the bootstrap is asked for before the network is sent.            *)
PlanEarly(net) == <<"bootMedia", "bootstrap">> \o (IF net THEN <<"network">> ELSE <<>>)

(* Host name, keymap and time zone are three like requests; one stands here. *)
Plan(net) == <<"keymap">>
  \o <<IF wiz.storage = "boot" THEN "bootMedia" ELSE "storage">>
  \o (IF net THEN <<"network">> ELSE <<>>) \o <<"bootstrap">>

(* The last command works on a copy of the model: later answers change       *)
(* nothing it sends.                                                         *)
ChooseNetwork(net) ==
  /\ wiz.step = "network"
  /\ wiz' = [To("finalizing") EXCEPT !.net = net, !.busy = TRUE, !.plan = Plan(net),
                                     !.confirmed = wiz.chosen, !.have = {}, !.fetching = {},
                                     !.disks = {}]
  /\ OnlyWizard

(* finalizeSetupCmd: one request at a time; the first that fails ends it,    *)
(* except the last, whose answer is not looked at.                           *)
Send ==
  /\ wiz.busy /\ ~wiz.sent /\ wiz.plan # <<>>
  /\ \/ Ask(Head(wiz.plan)) /\ wiz' = [wiz EXCEPT !.sent = TRUE]
     \/ /\ ~Running /\ UNCHANGED vars
        /\ wiz' = IF Head(wiz.plan) = "bootstrap" THEN [wiz EXCEPT !.plan = <<>>]
                                                  ELSE [wiz EXCEPT !.busy = FALSE]
  /\ UNCHANGED <<calls, wizards>>

Receive ==
  /\ wiz.busy /\ wiz.sent
  /\ \/ /\ Answered("ok")
        /\ wiz' = [wiz EXCEPT !.sent = FALSE, !.plan = Tail(@), !.accepted = Head(wiz.plan) = "bootstrap"]
     \/ /\ Answered("refused") \/ Broken
        /\ wiz' = IF Head(wiz.plan) = "bootstrap" THEN [wiz EXCEPT !.sent = FALSE, !.plan = <<>>]
                                                  ELSE [wiz EXCEPT !.sent = FALSE, !.busy = FALSE]
  /\ Collect /\ OnlyCall

Complete ==
  /\ wiz.busy /\ wiz.plan = <<>>
  /\ wiz' = [To("complete") EXCEPT !.busy = FALSE]
  /\ OnlyWizard

(* The panel sends any request; its answers need no action of ours.          *)
PanelRequest ==
  /\ calls < MaxCalls /\ calls' = calls + 1
  /\ \E kind \in Routes : Request(Panel, kind)
  /\ UNCHANGED <<wiz, wizards>>

Finalize == Send \/ Receive \/ Complete
WizardStep ==
  \/ Launch \/ CheckBootstrap \/ Quit \/ SelectDisk
  \/ \E l \in {"timezones", "disks"} : Fetched(l)
  \/ \E i \in DOMAIN Path : Enter(i) \/ Back(i)
  \/ \E net \in BOOLEAN : ChooseNetwork(net)
  \/ GenerateKey \/ SeedGenerated \/ ConfirmSeed \/ BackToSeed \/ Finalize

Next == \/ WizardStep \/ PanelRequest
        \/ System /\ UNCHANGED <<wiz, calls, wizards>>

Spec == WizInit /\ [][Next]_wizVars

(* The daemon's goroutines and the wizard's last command keep running; what  *)
(* a user may do, and a crash, never has to happen.                          *)
FairSpec == /\ Spec
            /\ \A c \in Parties : WF_wizVars(Handler(c) /\ UNCHANGED <<wiz, calls, wizards>>)
            /\ WF_wizVars(UpdaterStep /\ UNCHANGED <<wiz, calls, wizards>>)
            /\ WF_wizVars(Boot /\ UNCHANGED <<wiz, calls, wizards>>)
            /\ WF_wizVars(Finalize)

-----------------------------------------------------------------------------
(* A user who is shown a seed phrase has a master key in the key manager,    *)
(* and its flag is saved unless another client was setting it too: a create  *)
(* that never reached the key manager does not get that far.                 *)
SeedMeansKey ==
  wiz.step \in {"seed", "network", "finalizing", "complete"} => dkm /\ (calls = 0 => "key" \in acked)

(* Nothing is formatted that the user has not confirmed: whatever order the  *)
(* lists arrive in, a device is only prepared after Enter on that device, or *)
(* when a list without the boot medium arrived after Enter: that selects its *)
(* first device.                                                             *)
FormatsOnlyConfirmed == job.at = "format" /\ calls = 0 => wiz.confirmed \in {"device", "defaulted"}

(* "Complete" on the screen means the daemon took the bootstrap (it may have *)
(* rebooted before its answer was read), when a network was chosen, no step  *)
(* failed and nobody else was at work.                                       *)
CompleteMeansAccepted ==
  wiz.step = "complete" => wiz.accepted \/ "configured" \in acked \/ ~wiz.net \/ calls + faults + crashes > 0

(* A bootstrap taken from the wizard configures the box, unless a step of it *)
(* fails, the box goes down, or another client interferes.                   *)
BootstrapFinishes ==
  wiz.accepted ~> \/ "configured" \in data[IF overlay THEN "device" ELSE "base"].rows.box.facts
                  \/ calls + faults + crashes > 0
=============================================================================
