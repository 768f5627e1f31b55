----------------------------- MODULE DevClient -----------------------------
(***************************************************************************)
(* The create-pup flow of dbx-dev, a terminal program of messages (Update) *)
(* and commands that run beside it and answer with a message.  Five tasks  *)
(* run one after the other: the template is cloned, its files are written, *)
(* its manifest is completed, the directory is added as a source, and the  *)
(* pup is installed.  Between the third and the fourth the program opens   *)
(* the websocket over which it learns how the installation ends.           *)
(*                                                                         *)
(* One creation; the other screens of the program are left out.  The       *)
(* daemon is reduced to what the program can see of it.                    *)
(***************************************************************************)
EXTENDS Naturals

Tasks == {"clone", "template", "manifest", "source", "install"}
Commands == {"auth", "validate", "clone", "template", "manifest", "connect", "disconnected",
             "source", "install", "installed"}

VARIABLES view,     \* the screen
          session,  \* is there a session
          tasks,    \* the status of each task
          allDone,  \* allTasksDone
          target,   \* what targetPupID holds: nothing, the name, or the id
          jobKnown, \* installJobID is set
          running,  \* commands running or their answers waiting, how many of each
          ws,       \* the websocket
          wire,     \* events sent on it, and not read
          listed,   \* daemon: the directory is a source
          job,      \* daemon: the installation
          stuck     \* history: why the program can wait for ever

screen == <<view, session, tasks, allDone, target, jobKnown>>
daemon == <<listed, job>>
devVars == <<screen, running, ws, wire, daemon, stuck>>

DevInit ==
  /\ view = "landing" /\ session = FALSE /\ tasks = [t \in Tasks |-> "pending"] /\ allDone = FALSE
  /\ target = "none" /\ jobKnown = FALSE /\ running = [c \in Commands |-> 0]
  /\ ws = "none" /\ wire = {} /\ listed = FALSE /\ job = "none" /\ stuck = {}

Begin(c) == running' = [running EXCEPT ![c] = @ + 1]
Answered(c) == running' = [running EXCEPT ![c] = @ - 1]
EndBegin(c, d) == running' = [running EXCEPT ![c] = @ - 1, ![d] = @ + 1]
Mark(t, status) == tasks' = [tasks EXCEPT ![t] = status]
Then(t, u) == tasks' = [tasks EXCEPT ![t] = "success", ![u] = "running"]
Watching == view = "tasks"

-----------------------------------------------------------------------------
(* Keys.                                                                     *)

CreatePup ==
  /\ view = "landing" /\ tasks["clone"] = "pending" /\ view' = "password" /\ session' = FALSE
  /\ UNCHANGED <<tasks, allDone, target, jobKnown, running, ws, wire, daemon, stuck>>

EnterPassword ==
  /\ view = "password" /\ running["auth"] = 0 /\ Begin("auth")
  /\ UNCHANGED <<screen, ws, wire, daemon, stuck>>

SelectTemplate ==
  /\ view = "template" /\ view' = "name"
  /\ UNCHANGED <<session, tasks, allDone, target, jobKnown, running, ws, wire, daemon, stuck>>

EnterName ==
  /\ view = "name" /\ running["validate"] = 0 /\ Begin("validate")
  /\ UNCHANGED <<screen, ws, wire, daemon, stuck>>

(* closeWebSocket: the reader sees its connection end.                       *)
Listening == ws \in {"open", "registered"}
CloseWebSocket(read) ==
  IF Listening THEN ws' = "closed" /\ wire' = {} ELSE UNCHANGED ws /\ wire' = wire \ read
Lost(after) ==
  running' = IF Listening THEN [after EXCEPT !["disconnected"] = @ + 1] ELSE after
Less(c) == [running EXCEPT ![c] = @ - 1]

(* What is running goes on.  With all tasks done the websocket is closed.    *)
Escape ==
  /\ view' = "landing" /\ session' = FALSE
  /\ \/ view \in {"password", "template", "name"} /\ UNCHANGED <<ws, wire, running>>
     \/ Watching /\ allDone /\ CloseWebSocket({}) /\ Lost(running)
  /\ UNCHANGED <<tasks, allDone, target, jobKnown, daemon, stuck>>

-----------------------------------------------------------------------------
(* Messages.                                                                 *)

AuthMsg ==
  /\ running["auth"] > 0 /\ Answered("auth")
  /\ \/ session' = TRUE /\ view' \in (IF view \in {"tasks", "name"} THEN {view} ELSE {view, "template"})
     \/ UNCHANGED <<session, view>>
  /\ UNCHANGED <<tasks, allDone, target, jobKnown, ws, wire, daemon, stuck>>

(* A valid name begins the tasks, whatever the screen and the session are by *)
(* then.                                                                     *)
PupNameValidationMsg ==
  /\ running["validate"] > 0
  /\ \/ /\ view' = "tasks" /\ Mark("clone", "running") /\ EndBegin("validate", "clone")
        /\ stuck' = IF session THEN stuck ELSE stuck \cup {"no session"}
     \/ Answered("validate") /\ UNCHANGED <<view, tasks, stuck>>
  /\ UNCHANGED <<session, allDone, target, jobKnown, ws, wire, daemon>>

Fail(t) == Mark(t, "failed") /\ allDone' = TRUE

(* cloneCompleteMsg, templateCompleteMsg: on to the next task.               *)
Completed(t, u) ==
  /\ running[t] > 0 /\ Watching
  /\ \/ Then(t, u) /\ EndBegin(t, u) /\ UNCHANGED allDone
     \/ Fail(t) /\ Answered(t)
  /\ UNCHANGED <<view, session, target, jobKnown, ws, wire, daemon, stuck>>

CloneCompleteMsg == Completed("clone", "template")
TemplateCompleteMsg == Completed("template", "manifest")

(* Without a session nothing follows.                                        *)
ManifestUpdateMsg ==
  /\ running["manifest"] > 0 /\ Watching
  /\ \/ /\ Mark("manifest", "success") /\ UNCHANGED allDone
        /\ IF session THEN EndBegin("manifest", "connect") ELSE Answered("manifest")
     \/ Fail("manifest") /\ Answered("manifest")
  /\ UNCHANGED <<view, session, target, jobKnown, ws, wire, daemon, stuck>>

(* wsConnectedMsg says that the websocket is connected, that it could not    *)
(* be, or that it has been lost; each time the source is added.              *)
AddSourceAfter(c) ==
  IF Watching THEN Mark("source", "running") /\ EndBegin(c, "source")
  ELSE Answered(c) /\ UNCHANGED tasks

WsConnectedMsg ==
  /\ running["connect"] > 0 /\ AddSourceAfter("connect") /\ ws' \in {"open", "refused"}
  /\ UNCHANGED <<view, session, allDone, target, jobKnown, wire, daemon, stuck>>

WsLostMsg ==
  /\ running["disconnected"] > 0 /\ AddSourceAfter("disconnected")
  /\ UNCHANGED <<view, session, allDone, target, jobKnown, ws, wire, daemon, stuck>>

FailAndClose(t) ==
  /\ IF Watching THEN Fail(t) /\ CloseWebSocket({}) /\ Lost(Less(t))
     ELSE Answered(t) /\ UNCHANGED <<tasks, allDone, ws, wire>>
  /\ UNCHANGED target

(* AddSource refuses a location it has, and an answer that comes too late is *)
(* an error.                                                                 *)
SourceAddedMsg ==
  /\ running["source"] > 0
  /\ \/ /\ ~listed /\ listed' = TRUE
        /\ IF Watching THEN /\ Then("source", "install") /\ EndBegin("source", "install")
                            /\ target' = "name"
           ELSE Answered("source") /\ UNCHANGED <<tasks, target>>
        /\ UNCHANGED <<allDone, ws, wire>>
     \/ listed' \in {listed, TRUE} /\ FailAndClose("source")
  /\ UNCHANGED <<view, session, jobKnown, job, stuck>>

(* installPupCmd queues a job; its answer, with the id of the job, is under  *)
(* way while the job may already run.                                        *)
InstallPup ==
  /\ running["install"] > 0
  /\ \/ /\ job' = "queued" /\ EndBegin("install", "installed")
        /\ UNCHANGED <<tasks, allDone, target, ws, wire>>
     \/ job' \in {job, "queued"} /\ FailAndClose("install")
  /\ UNCHANGED <<view, session, jobKnown, listed, stuck>>

PupInstalledMsg ==
  /\ running["installed"] > 0 /\ Answered("installed") /\ jobKnown' = Watching
  /\ UNCHANGED <<view, session, tasks, allDone, target, ws, wire, daemon, stuck>>

-----------------------------------------------------------------------------
(* The websocket.                                                            *)

(* The daemon's relay takes the connection in after the handshake.           *)
Register ==
  /\ ws = "open" /\ ws' = "registered"
  /\ UNCHANGED <<screen, running, wire, daemon, stuck>>

(* Also because the daemon has ended, and its queue with it.                 *)
LoseConnection ==
  /\ Listening /\ ws' = "lost" /\ Begin("disconnected")
  /\ job' \in {job, IF job = "queued" THEN "gone" ELSE job}
  /\ UNCHANGED <<screen, wire, listed, stuck>>

(* Any of the events may get lost on its way to the relay: sendPupdate drops *)
(* what finds the channel full, SendChange what the relay is too slow for.   *)
Ending == {"ready", "broken", "action failed"}
Emit(events) ==
  \E heard \in SUBSET (IF ws = "registered" THEN events ELSE {}) :
    /\ wire' = wire \cup heard
    /\ stuck' = IF heard \cap Ending = {} THEN stuck \cup {"not heard"} ELSE stuck

(* The job fails before there is a pup, or the pup ends ready or broken.     *)
RunJob ==
  /\ job = "queued"
  /\ \/ job' = "failed" /\ Emit({"action failed"})
     \/ job' = "ready" /\ Emit({"ready", "action done"})
     \/ job' = "broken" /\ Emit({"broken", "action failed"})
  /\ UNCHANGED <<screen, running, ws, listed>>

(* DELETE /jobs, by anybody with a session: what is sent then has a type that*)
(* the program does not know.                                                *)
DeleteJob ==
  /\ job = "queued" /\ job' = "gone" /\ stuck' = stuck \cup {"deleted"}
  /\ UNCHANGED <<screen, running, ws, wire, listed>>

Installing == Watching /\ tasks["install"] = "running"
Read(e) == e \in wire /\ UNCHANGED <<view, session, jobKnown, daemon>>

\* Mutant: a pup is known by its id alone.
IdOnly == {"id"}

(* A pup's event names its id and its name.                                  *)
MatchedBy == {"id", "name"}
IsOurs == "name" \in MatchedBy \/ ("id" \in MatchedBy /\ target = "id")

InstallEnds(e, status) ==
  IF Installing
    THEN /\ Mark("install", status) /\ allDone' = TRUE
         /\ CloseWebSocket({e}) /\ Lost(running)
    ELSE wire' = wire \ {e} /\ UNCHANGED <<tasks, allDone, ws, running>>

PupStateMsg ==
  /\ \/ Read("ready") /\ IF IsOurs THEN InstallEnds("ready", "success")
                         ELSE wire' = wire \ {"ready"} /\ UNCHANGED <<tasks, allDone, ws, running>>
     \/ Read("broken") /\ IF IsOurs THEN InstallEnds("broken", "failed")
                          ELSE wire' = wire \ {"broken"} /\ UNCHANGED <<tasks, allDone, ws, running>>
  /\ UNCHANGED <<target, stuck>>

(* The failure of a job whose id is not known yet is not ours.               *)
ActionCompleteMsg ==
  \/ /\ Read("action done") /\ wire' = wire \ {"action done"}
     /\ target' = IF Watching /\ jobKnown THEN "id" ELSE target
     /\ UNCHANGED <<tasks, allDone, ws, running, stuck>>
  \/ /\ Read("action failed") /\ UNCHANGED target
     /\ IF jobKnown THEN InstallEnds("action failed", "failed") /\ UNCHANGED stuck
        ELSE /\ wire' = wire \ {"action failed"} /\ stuck' = stuck \cup {"too early"}
             /\ UNCHANGED <<tasks, allDone, ws, running>>

-----------------------------------------------------------------------------
Keys == CreatePup \/ EnterPassword \/ SelectTemplate \/ EnterName \/ Escape
Messages == \/ AuthMsg \/ PupNameValidationMsg \/ CloneCompleteMsg \/ TemplateCompleteMsg
            \/ ManifestUpdateMsg \/ WsConnectedMsg \/ WsLostMsg \/ SourceAddedMsg
            \/ PupInstalledMsg
Events == PupStateMsg \/ ActionCompleteMsg
DevNext == Keys \/ Messages \/ InstallPup \/ Register \/ LoseConnection \/ RunJob \/ DeleteJob \/ Events
DevSpec == /\ DevInit /\ [][DevNext]_devVars
           /\ WF_devVars(Messages) /\ WF_devVars(InstallPup) /\ WF_devVars(Register)
           /\ WF_devVars(RunJob) /\ WF_devVars(Events)

(* The tasks come to an end, which is when the program takes keys again, in  *)
(* whatever order answers and events arrive and whichever of them are lost   *)
(* (Update in cmd/dbx-dev/model.go); but for four cases the program has no   *)
(* answer to: a creation begun without a session, an end of the job of which *)
(* no event reached it, a job that fails before its id is known, and one     *)
(* deleted from the queue.                                                   *)
TasksEnd == Watching ~> (allDone \/ stuck # {})
=============================================================================
