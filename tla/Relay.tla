------------------------------- MODULE Relay -------------------------------
(***************************************************************************)
(* Changes on their way to the clients.  Whoever changes the state of the  *)
(* box then sends a Change: SendChange waits 200 ms for room in the        *)
(* channel, and gives up.  One loop takes the changes from the channel and *)
(* sends each to every websocket, one after the other; the same loop       *)
(* takes in the new websockets.  The handler of a websocket registers it   *)
(* with the loop first and then reads and sends the whole state, the       *)
(* bootstrap.  A change is the number of its place in the history of the   *)
(* state.                                                                  *)
(***************************************************************************)
EXTENDS Naturals, Sequences, FiniteSets, SequencesExt

CONSTANTS Clients,
          LastChange,      \* bound: changes made
          ChannelCapacity

ASSUME RelayAssumption == LastChange \in Nat /\ ChannelCapacity \in Nat \ {0}

VARIABLES applied,   \* changes made to the state
          offered,   \* those whose SendChange has not returned
          channel,   \* Changes
          casting,   \* the change the loop broadcasts and the websockets still to send to
          socks,     \* the websockets of the loop
          handler,   \* how far the handler of each websocket has come
          loaded,    \* the bootstrap of each client: the changes in it
          received,  \* the changes each client has been sent
          missed     \* history: changes SendChange gave up

relayVars == <<applied, offered, channel, casting, socks, handler, loaded, received, missed>>

Idle == [change |-> 0, to |-> {}]
Closed == {"closed", "returned"}

RelayInit ==
  /\ applied = {} /\ offered = {} /\ channel = <<>> /\ casting = Idle /\ socks = {}
  /\ handler = [c \in Clients |-> "none"]
  /\ loaded = [c \in Clients |-> {}] /\ received = [c \in Clients |-> {}] /\ missed = {}

(* The state is changed first, and SendChange called after.                  *)
Change ==
  /\ Cardinality(applied) < LastChange
  /\ applied' = applied \cup {Cardinality(applied) + 1}
  /\ offered' = offered \cup {Cardinality(applied) + 1}
  /\ UNCHANGED <<channel, casting, socks, handler, loaded, received, missed>>

SendChange(k) ==
  /\ k \in offered /\ offered' = offered \ {k}
  /\ IF Len(channel) < ChannelCapacity
       THEN channel' = Append(channel, k) /\ UNCHANGED missed
       ELSE missed' = missed \cup {k} /\ UNCHANGED channel
  /\ UNCHANGED <<applied, casting, socks, handler, loaded, received>>

\* Mutant: a client is broadcast to once it has its bootstrap.
WithBootstrap == {c \in socks : handler[c] = "open"}

Recipients == {c \in socks : handler[c] \notin Closed}

Broadcast ==
  /\ casting = Idle /\ channel # <<>> /\ channel' = Tail(channel)
  /\ casting' = IF Recipients = {} THEN Idle ELSE [change |-> Head(channel), to |-> Recipients]
  /\ UNCHANGED <<applied, offered, socks, handler, loaded, received, missed>>

(* A send to a client that has gone fails, and closes the websocket; or it   *)
(* goes unnoticed.                                                           *)
SendTo(c) ==
  /\ c \in casting.to
  /\ casting' = IF casting.to = {c} THEN Idle ELSE [casting EXCEPT !.to = @ \ {c}]
  /\ \/ /\ received' = [received EXCEPT ![c] = @ \cup {casting.change}]
        /\ UNCHANGED handler
     \/ /\ handler' = [handler EXCEPT ![c] = "closed"]
        /\ UNCHANGED received
  /\ UNCHANGED <<applied, offered, channel, socks, loaded, missed>>

CleanupSocks ==
  /\ casting = Idle /\ socks' = {c \in socks : handler[c] \notin Closed} /\ socks' # socks
  /\ UNCHANGED <<applied, offered, channel, casting, handler, loaded, received, missed>>

-----------------------------------------------------------------------------
Enter(c, from, to) == handler[c] = from /\ handler' = [handler EXCEPT ![c] = to]

Connect(c) ==
  /\ Enter(c, "none", "connected")
  /\ UNCHANGED <<applied, offered, channel, casting, socks, loaded, received, missed>>

(* The handler waits for the loop to take the websocket.                     *)
AddSock(c) ==
  /\ casting = Idle /\ Enter(c, "connected", "registered") /\ socks' = socks \cup {c}
  /\ UNCHANGED <<applied, offered, channel, casting, loaded, received, missed>>

(* The initial payload: getRawBS, or the jobs.                               *)
InitialPayload(c) ==
  /\ Enter(c, "registered", "loaded") /\ loaded' = [loaded EXCEPT ![c] = applied]
  /\ UNCHANGED <<applied, offered, channel, casting, socks, received, missed>>

SendPayload(c) ==
  /\ Enter(c, "loaded", "open")
  /\ UNCHANGED <<applied, offered, channel, casting, socks, loaded, received, missed>>

(* A handler whose websocket was closed before its bootstrap still reads it. *)
Return(c) ==
  /\ Enter(c, "closed", "returned")
  /\ UNCHANGED <<applied, offered, channel, casting, socks, loaded, received, missed>>

RelayNext ==
  \/ Change \/ Broadcast \/ CleanupSocks \/ \E k \in offered : SendChange(k)
  \/ \E c \in Clients :
       SendTo(c) \/ Connect(c) \/ AddSock(c) \/ InitialPayload(c) \/ SendPayload(c) \/ Return(c)

RelaySpec == RelayInit /\ [][RelayNext]_relayVars

(* A client with its bootstrap has every change that was made, in it or      *)
(* after it, but for those on their way to it and those SendChange gave up:  *)
(* none falls between reading the bootstrap and the first broadcast          *)
(* (GetWSHandler registers the websocket before it calls initialPayloader).  *)
NothingMissed ==
  \A c \in Clients : handler[c] = "open" =>
    applied \subseteq loaded[c] \cup received[c] \cup offered \cup ToSet(channel) \cup missed
                      \cup (IF c \in casting.to THEN {casting.change} ELSE {})
=============================================================================
