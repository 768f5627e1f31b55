------------------------------ MODULE Services ------------------------------
(***************************************************************************)
(* The conductor starts the services of the daemon one after the other,    *)
(* and stops them all when a signal comes or one of them does not start in *)
(* time.  A service has a goroutine that waits for the stop and reports    *)
(* when it has stopped; half of them have a loop beside it that waits for  *)
(* the same single message, and either may get it.                         *)
(***************************************************************************)
EXTENDS Naturals, Sequences, FiniteSets, SequencesExt

CONSTANTS Order,    \* the services, in the order of their start
          Twins,    \* those with a loop that waits for the stop as well
          Signals   \* bound: signals sent to the process

ASSUME ServicesAssumption == Twins \subseteq ToSet(Order) /\ Signals \in Nat

VARIABLES starter,   \* Start: its step and its place in Order
          stops,     \* Stop, called by Start and by the signal handler: step, place, heard
          loop,      \* the loop of each twin
          main,      \* the goroutine that reports, of each service
          shutdown,  \* the channel each service is told to stop on: is a message in it
          stopped,   \* the channel it reports on
          closed,    \* the conductor's channel is closed
          exited,    \* the process has ended
          signals,   \* signals left
          late       \* history: a service did not start in time

serviceVars == <<starter, stops, loop, main, shutdown, stopped, closed, exited, signals, late>>

Names == ToSet(Order)
Callers == {"start", "signal"}
NoStop == [at |-> "none", place |-> 1, heard |-> {}]
Live == ~exited

ServicesInit ==
  /\ starter = [at |-> "run", place |-> 1]
  /\ stops = [c \in Callers |-> NoStop]
  /\ loop = [s \in Names |-> "none"] /\ main = [s \in Names |-> "none"]
  /\ shutdown = [s \in Names |-> FALSE] /\ stopped = [s \in Names |-> FALSE]
  /\ closed = FALSE /\ exited = FALSE /\ signals = Signals /\ late = FALSE

Starting == Order[starter.place]
StopCalled(c) == stops' = [stops EXCEPT ![c] = [NoStop EXCEPT !.at = "asking"]]

RunService ==
  /\ Live /\ starter.at = "run"
  /\ starter' = [starter EXCEPT !.at = "await"]
  /\ main' = [main EXCEPT ![Starting] = "starting"]
  /\ loop' = IF Starting \in Twins THEN [loop EXCEPT ![Starting] = "running"] ELSE loop
  /\ UNCHANGED <<stops, shutdown, stopped, closed, exited, signals, late>>

ReportStarted(s) ==
  /\ Live /\ main[s] = "starting" /\ main' = [main EXCEPT ![s] = "waiting"]
  /\ UNCHANGED <<starter, stops, loop, shutdown, stopped, closed, exited, signals, late>>

NextService ==
  /\ Live /\ starter.at = "await" /\ main[Starting] # "starting"
  /\ starter' = IF starter.place = Len(Order) THEN [starter EXCEPT !.at = "started"]
                ELSE [at |-> "run", place |-> starter.place + 1]
  /\ UNCHANGED <<stops, loop, main, shutdown, stopped, closed, exited, signals, late>>

StartTimesOut ==
  /\ Live /\ starter.at = "await" /\ main[Starting] = "starting"
  /\ starter' = [starter EXCEPT !.at = "stopping"] /\ StopCalled("start") /\ late' = TRUE
  /\ UNCHANGED <<loop, main, shutdown, stopped, closed, exited, signals>>

(* HookSignals: one signal at a time; after a Stop the handler may take      *)
(* another signal although the channel is closed.                            *)
Signal ==
  /\ Live /\ signals > 0 /\ signals' = signals - 1
  /\ stops["signal"].at \in {"none", "returned"} /\ StopCalled("signal")
  /\ UNCHANGED <<starter, loop, main, shutdown, stopped, closed, exited, late>>

-----------------------------------------------------------------------------
(* Stop.                                                                     *)

(* A service that has not taken its message leaves no room for another.      *)
Ask(c) ==
  /\ Live /\ stops[c].at = "asking" /\ ~shutdown[Order[stops[c].place]]
  /\ shutdown' = [shutdown EXCEPT ![Order[stops[c].place]] = TRUE]
  /\ stops' = IF stops[c].place = Len(Order) THEN [stops EXCEPT ![c].at = "waiting"]
              ELSE [stops EXCEPT ![c].place = @ + 1]
  /\ UNCHANGED <<starter, loop, main, stopped, closed, exited, signals, late>>

Asked(c) == {Order[i] : i \in {j \in DOMAIN Order : j < stops[c].place \/ stops[c].at # "asking"}}

Hear(c, s) ==
  /\ Live /\ stops[c].at # "none" /\ s \in Asked(c) /\ stopped[s] /\ s \notin stops[c].heard
  /\ stopped' = [stopped EXCEPT ![s] = FALSE]
  /\ stops' = [stops EXCEPT ![c].heard = @ \cup {s}]
  /\ UNCHANGED <<starter, loop, main, shutdown, closed, exited, signals, late>>

\* Mutant: Stop waits until every service has reported.
AllHeard(c) == stops[c].heard = Names

(* All have reported, or the time is over.                                   *)
WaitedEnough(c) == TRUE

(* Closing a closed channel ends the process.                                *)
Close(c) ==
  /\ Live /\ stops[c].at = "waiting" /\ WaitedEnough(c)
  /\ stops' = [stops EXCEPT ![c].at = "returned"] /\ closed' = TRUE /\ exited' = closed
  /\ UNCHANGED <<starter, loop, main, shutdown, stopped, signals, late>>

(* server.Start waits for the channel once conductor.Start has returned.     *)
MainReturns ==
  /\ Live /\ closed /\ exited' = TRUE
  /\ starter.at = "started" \/ stops["start"].at = "returned"
  /\ UNCHANGED <<starter, stops, loop, main, shutdown, stopped, closed, signals, late>>

-----------------------------------------------------------------------------
(* The services.                                                             *)

Taken(s) == Live /\ shutdown[s] /\ shutdown' = [shutdown EXCEPT ![s] = FALSE]

LoopStops(s) ==
  /\ Taken(s) /\ loop[s] = "running" /\ loop' = [loop EXCEPT ![s] = "ended"]
  /\ UNCHANGED <<starter, stops, main, stopped, closed, exited, signals, late>>

MainStops(s) ==
  /\ Taken(s) /\ main[s] = "waiting" /\ main' = [main EXCEPT ![s] = "stopping"]
  /\ UNCHANGED <<starter, stops, loop, stopped, closed, exited, signals, late>>

ReportStopped(s) ==
  /\ Live /\ main[s] = "stopping" /\ main' = [main EXCEPT ![s] = "stopped"]
  /\ stopped' = [stopped EXCEPT ![s] = TRUE]
  /\ UNCHANGED <<starter, stops, loop, shutdown, closed, exited, signals, late>>

(* A web server that cannot listen or serve ends the process (log.Fatalf).   *)
Fatal(s) ==
  /\ Live /\ main[s] \notin {"none", "stopped"} /\ exited' = TRUE
  /\ UNCHANGED <<starter, stops, loop, main, shutdown, stopped, closed, signals, late>>

-----------------------------------------------------------------------------
Starter == RunService \/ NextService \/ MainReturns
Stopping(c) == Ask(c) \/ Close(c)
ServicesNext ==
  \/ Starter \/ StartTimesOut \/ Signal
  \/ \E c \in Callers : Stopping(c) \/ \E s \in Names : Hear(c, s)
  \/ \E s \in Names : \/ ReportStarted(s) \/ LoopStops(s) \/ MainStops(s) \/ ReportStopped(s)
                      \/ Fatal(s)

ServicesSpec ==
  /\ ServicesInit /\ [][ServicesNext]_serviceVars
  /\ WF_serviceVars(Starter) /\ \A c \in Callers : WF_serviceVars(Stopping(c))
  /\ \A s \in Names : /\ WF_serviceVars(ReportStarted(s)) /\ WF_serviceVars(ReportStopped(s))
                      /\ WF_serviceVars(LoopStops(s) \/ MainStops(s))

(* Once asked to stop the daemon ends, although a service whose loop took    *)
(* the message never reports; but for a signal while a service did not start *)
(* in time: the two calls of Stop wait for room in each other's channels.    *)
ShutdownEnds ==
  (\E c \in Callers : stops[c].at # "none") ~> (exited \/ (late /\ signals < Signals))
=============================================================================
