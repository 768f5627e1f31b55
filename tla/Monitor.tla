------------------------------ MODULE Monitor ------------------------------
(***************************************************************************)
(* The status of the pups.  Every save of a pup tells the SystemMonitor    *)
(* which pups to look at; the monitor asks systemd about them at each such *)
(* message and every ten seconds, and about one pup a few times in quick   *)
(* succession after a job (FastPollPup).  It hands what it saw to the      *)
(* PupManager if the manager happens to wait for it, and drops it if not.  *)
(***************************************************************************)
EXTENDS Naturals, Sequences, FiniteSets

CONSTANTS Watched,       \* the pups
          Savers,        \* goroutines that save pups: the main loop, the updater
          MonCapacity,   \* of the mon channel
          FastPolls,     \* polls of a fast looper
          MonitorBounds  \* bounds: changes of pups, changes of units, jobs that poll

ASSUME MonitorAssumption ==
  /\ MonCapacity \in Nat \ {0} /\ FastPolls \in Nat
  /\ MonitorBounds \in [edits : Nat, units : Nat, jobs : Nat]

VARIABLES pups,      \* PupManager.state: READY, enabled
          container, \* systemd: the state of the unit of each pup's container
          status,    \* PupManager.stats: the status shown
          saver,     \* where each saver is, and the list it has collected
          mon,       \* the mon channel
          services,  \* the list the monitor works from
          polls,     \* polls left of the fast looper of each pup
          stats,     \* what the manager has taken and works on
          spent,     \* what is left of the bounds
          latest, crossed  \* history: edits left at the newest list sent; a list was sent after
                    \* a newer one

lists == <<saver, mon, services, latest, crossed>>
monVars == <<pups, container, status, lists, polls, stats, spent>>

UnitStates == {"activating", "active", "deactivating", "inactive"}
NoStats == [x \in {} |-> "inactive"]
Quiet == [at |-> "idle", list |-> {}, stamp |-> 0]

MonInit ==
  /\ pups = [p \in Watched |-> [ready |-> FALSE, enabled |-> FALSE]]
  /\ container = [p \in Watched |-> "inactive"] /\ status = [p \in Watched |-> "stopped"]
  /\ saver = [g \in Savers |-> Quiet] /\ mon = <<>> /\ services = {}
  /\ polls = [p \in Watched |-> 0] /\ stats = NoStats
  /\ spent = MonitorBounds /\ latest = MonitorBounds.edits /\ crossed = FALSE

Spend(what) == spent[what] > 0 /\ spent' = [spent EXCEPT ![what] = @ - 1]

(* systemd starts and stops the containers as it is told, or they die.       *)
UnitChanges(p) ==
  /\ Spend("units")
  /\ \E s \in UnitStates \ {container[p]} : container' = [container EXCEPT ![p] = s]
  /\ UNCHANGED <<pups, status, lists, polls, stats>>

-----------------------------------------------------------------------------
(* A save: the pup is changed, the list collected, and sent when mon has room. *)

EditPup(g, p) ==
  /\ saver[g].at = "idle" /\ Spend("edits")
  /\ \E s \in [ready : BOOLEAN, enabled : BOOLEAN] :
       s # pups[p] /\ pups' = [pups EXCEPT ![p] = s]
  /\ saver' = [saver EXCEPT ![g].at = "collect"]
  /\ UNCHANGED <<container, status, mon, services, latest, crossed, polls, stats>>

ReadyPups == {p \in Watched : pups[p].ready}

Collect(g) ==
  /\ saver[g].at = "collect"
  /\ saver' = [saver EXCEPT
                ![g] = [at |-> "send", list |-> ReadyPups, stamp |-> spent["edits"]]]
  /\ UNCHANGED <<pups, container, status, mon, services, latest, crossed, polls, stats, spent>>

UpdateMonitoredPups(g) ==
  /\ saver[g].at = "send" /\ Len(mon) < MonCapacity
  /\ mon' = Append(mon, saver[g].list) /\ saver' = [saver EXCEPT ![g] = Quiet]
  /\ latest' = saver[g].stamp /\ crossed' = (crossed \/ latest < saver[g].stamp)
  /\ UNCHANGED <<pups, container, status, services, polls, stats, spent>>

(* FastPollPup, after a job.                                                 *)
FastPollPup(p) ==
  /\ Spend("jobs") /\ polls[p] = 0 /\ polls' = [polls EXCEPT ![p] = FastPolls]
  /\ UNCHANGED <<pups, container, status, lists, stats>>

-----------------------------------------------------------------------------
(* The monitor: look, and hand over or drop.                                 *)

Seen(list) == [p \in list |-> container[p]]
HandOver(list) ==
  \/ stats = NoStats /\ stats' = Seen(list)
  \/ UNCHANGED stats

UpdateServices ==
  /\ mon # <<>> /\ mon' = Tail(mon) /\ services' = Head(mon) /\ HandOver(Head(mon))
  /\ UNCHANGED <<pups, container, status, saver, latest, crossed, polls, spent>>

\* Mutant: the timer is never reset.
NeverReset == FALSE

(* Each time the timer fires it is reset.                                    *)
TimerFires == TRUE

RunChecks ==
  /\ TimerFires /\ HandOver(services)
  /\ UNCHANGED <<pups, container, status, lists, polls, spent>>

FastLooper(p) ==
  /\ polls[p] > 0 /\ polls' = [polls EXCEPT ![p] = @ - 1] /\ HandOver({p})
  /\ UNCHANGED <<pups, container, status, lists, spent>>

(* derivePupStatusFromProc; a container that has a process is not inactive.  *)
Derive(p, s) ==
  IF s = "deactivating" \/ (s \in {"activating", "active"} /\ ~pups[p].enabled) THEN "stopping"
  ELSE IF s = "active" THEN "running"
  ELSE IF s = "activating" \/ pups[p].enabled THEN "starting" ELSE "stopped"

(* The manager compares what was seen then with what the pup is now.         *)
TakeStats ==
  /\ stats # NoStats /\ stats' = NoStats
  /\ status' = [p \in Watched |-> IF p \in DOMAIN stats THEN Derive(p, stats[p]) ELSE status[p]]
  /\ UNCHANGED <<pups, container, lists, polls, spent>>

-----------------------------------------------------------------------------
MonNext ==
  \/ \E p \in Watched : \/ UnitChanges(p) \/ FastPollPup(p) \/ FastLooper(p)
                        \/ \E g \in Savers : EditPup(g, p)
  \/ \E g \in Savers : Collect(g) \/ UpdateMonitoredPups(g)
  \/ UpdateServices \/ RunChecks \/ TakeStats

(* The manager is not for ever busy just when the timer fires.               *)
HandedOver == RunChecks /\ stats' # stats
MonSpec == /\ MonInit /\ [][MonNext]_monVars
           /\ \A g \in Savers : WF_monVars(Collect(g)) /\ WF_monVars(UpdateMonitoredPups(g))
           /\ WF_monVars(UpdateServices) /\ WF_monVars(TakeStats) /\ SF_monVars(HandedOver)

(* When pups and units come to rest, each READY pup shows the status that is *)
(* its due: samples are dropped, taken before a change and shown after it,   *)
(* lists of pups are delayed, but not for ever (unless an older list of pups *)
(* was sent after a newer one).                                              *)
StatusSettles ==
  \A p \in Watched : []<>(~pups[p].ready \/ crossed \/ status[p] = Derive(p, container[p]))
=============================================================================
