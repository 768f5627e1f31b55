----------------------------- MODULE LogStream -----------------------------
(***************************************************************************)
(* A log on a client's screen.  The client asks for the last page of the   *)
(* log, opens a websocket with the resume token of that page, and asks for *)
(* older pages as it scrolls.  Behind the socket a goroutine (the tailer)  *)
(* follows the log into a channel and another (the pump) sends what is in  *)
(* the channel.  The log grows all the while.                              *)
(*                                                                         *)
(* A position counts half lines, so that a log may end within a line: the  *)
(* container writes a pup's log as it likes, the others grow by lines.     *)
(* What the client does is external.                                       *)
(***************************************************************************)
EXTENDS Naturals, Sequences

CONSTANTS Sources,   \* among "pup", "job" and "journal"
          Longest,   \* bound: half lines in the log
          Limit,     \* lines in a page
          Capacity   \* of the channel

None == 0 - 1
ASSUME LogStreamAssumption ==
  /\ Sources \subseteq {"pup", "job", "journal"} /\ Longest \in Nat
  /\ Limit \in Nat \ {0} /\ Capacity \in Nat \ {0}

VARIABLES source, exists, size,  \* the log
          page,   \* the client's request: its step, where the page ends, is it the first
          token,  \* the resume token the client holds
          older,  \* the cursor of the older page
          tail,   \* the tailer: its step, its position in the log, the line it holds
          out,    \* the channel
          conn,   \* the websocket
          shown,  \* the half lines on the screen
          torn    \* history: the tailer has met the end of the log within a line

log == <<source, exists, size>>
client == <<page, token, older>>
logVars == <<log, client, tail, out, conn, shown, torn>>

NoPage == [at |-> "none", end |-> None, first |-> TRUE]
NoTail == [at |-> "none", pos |-> None, line |-> {}]
Lines(from, to) == (from + 1)..to
Even(n) == n % 2 = 0

LogInit ==
  /\ source \in Sources /\ exists \in {TRUE, source = "journal"} /\ size = 0
  /\ page = NoPage /\ token = None /\ older = None
  /\ tail = NoTail /\ out = <<>> /\ conn = "none" /\ shown = {} /\ torn = FALSE

(* writeToLogFile opens the file anew for every line.                        *)
Create ==
  /\ ~exists /\ exists' = TRUE
  /\ UNCHANGED <<source, size, client, tail, out, conn, shown, torn>>

Write ==
  /\ exists /\ \E n \in IF source = "pup" THEN 1..2 ELSE {2} :
                 size + n <= Longest /\ size' = size + n
  /\ UNCHANGED <<source, exists, client, tail, out, conn, shown, torn>>

-----------------------------------------------------------------------------
(* Pages.                                                                    *)

(* The size of the file is taken once, and is the page's end and its token.  *)
(* A file that is not there has an empty page without a token.               *)
FirstPage ==
  /\ page.at = "none"
  /\ page' = [page EXCEPT !.at = IF exists THEN "read" ELSE "done", !.end = size]
  /\ UNCHANGED <<log, token, older, tail, out, conn, shown, torn>>

OlderPage ==
  /\ page.at = "done" /\ older # None
  /\ page' = [at |-> "read", end |-> older, first |-> FALSE]
  /\ UNCHANGED <<log, token, older, tail, out, conn, shown, torn>>

(* readLastLinesBefore: at most Limit lines, the unfinished one included.    *)
Start(end) == LET top == IF Even(end) THEN end ELSE end + 1
              IN IF top > 2 * Limit THEN top - 2 * Limit ELSE 0

(* The last page of a journal ends where the journal ends when it is read.   *)
PageEnd == IF source = "journal" /\ page.first THEN size ELSE page.end

\* Mutant: the token is the size of the file after the page was read.
LateToken(end) == size

ResumeToken(end) == IF source = "journal" /\ end = 0 THEN None ELSE end

(* The cursor of a journal's page is its oldest entry, which is in the older *)
(* page once more.                                                           *)
OlderCursor(end) ==
  IF Start(end) = 0 THEN None
  ELSE IF source = "journal" THEN Start(end) + 2 ELSE Start(end)

ReadPage ==
  /\ page.at = "read" /\ page' = [page EXCEPT !.at = "done"]
  /\ shown' = shown \cup Lines(Start(PageEnd), PageEnd)
  /\ token' = IF page.first THEN ResumeToken(PageEnd) ELSE token
  /\ older' = OlderCursor(PageEnd)
  /\ UNCHANGED <<log, tail, out, conn, torn>>

-----------------------------------------------------------------------------
(* The websocket.  Tailer and pump are begun before its handshake.           *)

OpenSocket ==
  /\ page.at = "done" /\ page.first /\ conn = "none" /\ conn' = "asked"
  /\ tail' = [tail EXCEPT !.at = "waiting"]
  /\ UNCHANGED <<log, client, out, shown, torn>>

(* The handshake fails: nobody starts the pump or cancels the tailer.        *)
Handshake ==
  /\ conn = "asked" /\ conn' \in {"open", "refused"}
  /\ UNCHANGED <<log, client, tail, out, shown, torn>>

(* The client leaves.  The server learns of it when it sends.                *)
Leave ==
  /\ conn = "open" /\ conn' = "left"
  /\ UNCHANGED <<log, client, tail, out, shown, torn>>

PumpSends ==
  /\ conn \in {"open", "left"} /\ out # <<>> /\ out' = Tail(out)
  /\ IF conn = "open" THEN shown' = shown \cup Head(out) /\ UNCHANGED conn
     ELSE conn' \in {"left", "closed"} /\ UNCHANGED shown
  /\ UNCHANGED <<log, client, tail, torn>>

(* The tailer has closed the channel.                                        *)
PumpEnds ==
  /\ conn \in {"open", "left"} /\ out = <<>> /\ tail.at = "ended" /\ conn' = "closed"
  /\ UNCHANGED <<log, client, tail, out, shown, torn>>

-----------------------------------------------------------------------------
(* The tailer.                                                               *)

(* resolveStartOffset; a journal is read on from its cursor or from its end. *)
StartOffset == IF token = None \/ token > size THEN size ELSE token

(* waitForLogFile.                                                           *)
TailerOpens ==
  /\ tail.at = "waiting" /\ exists
  /\ tail' = [tail EXCEPT !.at = "reading", !.pos = StartOffset]
  /\ UNCHANGED <<log, client, out, conn, shown, torn>>

TailerGivesUp ==
  /\ tail.at = "waiting" /\ ~exists /\ tail' = [tail EXCEPT !.at = "ended"]
  /\ UNCHANGED <<log, client, out, conn, shown, torn>>

LineEnd(pos) == IF Even(pos) THEN pos + 2 ELSE pos + 1

(* ReadString: what there is of an unfinished line is read and dropped.      *)
TailerReads ==
  /\ tail.at = "reading" /\ tail.pos < size
  /\ IF LineEnd(tail.pos) <= size
       THEN /\ tail' = [at |-> "holding", pos |-> LineEnd(tail.pos),
                        line |-> Lines(tail.pos, LineEnd(tail.pos))]
            /\ UNCHANGED torn
       ELSE tail' = [tail EXCEPT !.pos = size] /\ torn' = TRUE
  /\ UNCHANGED <<log, client, out, conn, shown>>

(* Waiting for room in the channel, the tailer does not notice a cancel.     *)
TailerSends ==
  /\ tail.at = "holding" /\ Len(out) < Capacity
  /\ out' = Append(out, tail.line) /\ tail' = [tail EXCEPT !.at = "reading", !.line = {}]
  /\ UNCHANGED <<log, client, conn, shown, torn>>

TailerStops ==
  /\ tail.at = "reading" /\ conn = "closed" /\ tail' = [tail EXCEPT !.at = "ended"]
  /\ UNCHANGED <<log, client, out, conn, shown, torn>>

-----------------------------------------------------------------------------
Pump == PumpSends \/ PumpEnds
Tailer == TailerOpens \/ TailerReads \/ TailerSends \/ TailerStops
LogNext == \/ ReadPage \/ Handshake \/ Pump \/ Tailer \/ TailerGivesUp
           \/ Create \/ Write \/ FirstPage \/ OlderPage \/ OpenSocket \/ Leave
LogSpec == LogInit /\ [][LogNext]_logVars

(* What is on the screen is one stretch of the log, whatever the log grew by *)
(* between the page, its token, the socket and the tailer (GetPage,          *)
(* GetChannelFromOffset); but for a line the tailer met unfinished.          *)
NoGap ==
  torn \/ \A i, j \in shown : \A k \in i..j : k \in shown
=============================================================================
