------------------------------ MODULE MCParts ------------------------------
(***************************************************************************)
(* Five parts of the daemon and of its clients that share no state, each   *)
(* checked by itself: part says which of them moves, and PartsNext lists   *)
(* the actions of LogNext, RelayNext, DevNext, MonNext and ServicesNext.   *)
(***************************************************************************)
EXTENDS LogStream, Relay, DevClient, Monitor, Services

VARIABLE part

partsVars == <<part, logVars, relayVars, devVars, monVars, serviceVars>>

MonBounds == [edits |-> 2, units |-> 2, jobs |-> 1]
StartOrder == <<"store", "dbx", "rest">>

PartsInit ==
  /\ part \in {"log", "relay", "dev", "monitor", "services"}
  /\ LogInit /\ RelayInit /\ DevInit /\ MonInit /\ ServicesInit
  /\ part = "log" \/ source = "journal"

Log(A) == /\ part = "log" /\ A
          /\ UNCHANGED <<part, relayVars, devVars, monVars, serviceVars>>
Rel(A) == /\ part = "relay" /\ A
          /\ UNCHANGED <<part, logVars, devVars, monVars, serviceVars>>
Dev(A) == /\ part = "dev" /\ A
          /\ UNCHANGED <<part, logVars, relayVars, monVars, serviceVars>>
Mon(A) == /\ part = "monitor" /\ A
          /\ UNCHANGED <<part, logVars, relayVars, devVars, serviceVars>>
Srv(A) == /\ part = "services" /\ A
          /\ UNCHANGED <<part, logVars, relayVars, devVars, monVars>>

PartsNext ==
  \/ Log(Create) \/ Log(Write) \/ Log(FirstPage) \/ Log(OlderPage) \/ Log(ReadPage)
  \/ Log(OpenSocket) \/ Log(Handshake) \/ Log(Leave) \/ Log(PumpSends) \/ Log(PumpEnds)
  \/ Log(TailerOpens) \/ Log(TailerGivesUp) \/ Log(TailerReads) \/ Log(TailerSends)
  \/ Log(TailerStops)
  \/ Rel(Change) \/ Rel(Broadcast) \/ Rel(CleanupSocks)
  \/ \E k \in offered : Rel(SendChange(k))
  \/ \E c \in Clients : \/ Rel(SendTo(c)) \/ Rel(Connect(c)) \/ Rel(AddSock(c))
                        \/ Rel(InitialPayload(c)) \/ Rel(SendPayload(c)) \/ Rel(Return(c))
  \/ Dev(CreatePup) \/ Dev(EnterPassword) \/ Dev(SelectTemplate) \/ Dev(EnterName)
  \/ Dev(Escape) \/ Dev(AuthMsg) \/ Dev(PupNameValidationMsg) \/ Dev(CloneCompleteMsg)
  \/ Dev(TemplateCompleteMsg) \/ Dev(ManifestUpdateMsg) \/ Dev(WsConnectedMsg)
  \/ Dev(WsLostMsg) \/ Dev(SourceAddedMsg) \/ Dev(InstallPup) \/ Dev(PupInstalledMsg)
  \/ Dev(Register) \/ Dev(LoseConnection) \/ Dev(RunJob) \/ Dev(DeleteJob) \/ Dev(PupStateMsg)
  \/ Dev(ActionCompleteMsg)
  \/ \E w \in Watched : \/ Mon(UnitChanges(w)) \/ Mon(FastPollPup(w)) \/ Mon(FastLooper(w))
                        \/ \E g \in Savers : Mon(EditPup(g, w))
  \/ \E g \in Savers : Mon(Collect(g)) \/ Mon(UpdateMonitoredPups(g))
  \/ Mon(UpdateServices) \/ Mon(RunChecks) \/ Mon(TakeStats)
  \/ Srv(RunService) \/ Srv(NextService) \/ Srv(MainReturns) \/ Srv(StartTimesOut)
  \/ Srv(Signal)
  \/ \E c \in Callers : \/ Srv(Ask(c)) \/ Srv(Close(c))
                        \/ \E s \in Names : Srv(Hear(c, s))
  \/ \E s \in Names : \/ Srv(ReportStarted(s)) \/ Srv(LoopStops(s)) \/ Srv(MainStops(s))
                      \/ Srv(ReportStopped(s)) \/ Srv(Fatal(s))

(* The fairness of DevSpec, MonSpec and ServicesSpec.                        *)
PartsSpec ==
  /\ PartsInit /\ [][PartsNext]_partsVars
  /\ WF_devVars(part = "dev" /\ Messages) /\ WF_devVars(part = "dev" /\ InstallPup)
  /\ WF_devVars(part = "dev" /\ Register) /\ WF_devVars(part = "dev" /\ RunJob)
  /\ WF_devVars(part = "dev" /\ Events)
  /\ \A g \in Savers : /\ WF_monVars(part = "monitor" /\ Collect(g))
                       /\ WF_monVars(part = "monitor" /\ UpdateMonitoredPups(g))
  /\ WF_monVars(part = "monitor" /\ UpdateServices)
  /\ WF_monVars(part = "monitor" /\ TakeStats)
  /\ SF_monVars(part = "monitor" /\ HandedOver)
  /\ WF_serviceVars(part = "services" /\ Starter)
  /\ \A c \in Callers : WF_serviceVars(part = "services" /\ Stopping(c))
  /\ \A s \in Names : /\ WF_serviceVars(part = "services" /\ ReportStarted(s))
                      /\ WF_serviceVars(part = "services" /\ ReportStopped(s))
                      /\ WF_serviceVars(part = "services" /\ (LoopStops(s) \/ MainStops(s)))
=============================================================================
