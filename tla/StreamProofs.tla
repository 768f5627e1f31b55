---------------------------- MODULE StreamProofs ----------------------------
(***************************************************************************)
(* What reaches a client's screen, for any clients, changes, log, page     *)
(* size and capacity of the channels.                                      *)
(*                                                                         *)
(* Of a log (LogStream): what is on the screen has no hole.  The screen,   *)
(* the pieces in the channel and the line in the tailer's hand adjoin one  *)
(* another (StretchInv), and until the tailer opens the log the token is   *)
(* where the screen ends.                                                  *)
(*                                                                         *)
(* Of changes (Relay): a client that has been sent its bootstrap misses    *)
(* none.  The loop has taken the websocket before the bootstrap is read    *)
(* (RegisteredInv), so that every change the loop broadcasts from then on  *)
(* goes to it, and from the moment the bootstrap is read, not sent, every  *)
(* change is in it or on its way (CoveredInv).                             *)
(***************************************************************************)
EXTENDS LogStream, Relay, Integers, FiniteSetTheorems, TLAPS

(* Logs.                                                                     *)

Positions == Nat \cup {None}

Pages == [at : {"none", "read", "done"}, end : Positions, first : BOOLEAN]
Tails == [at : {"none", "waiting", "reading", "holding", "ended"}, pos : Positions,
          line : SUBSET Nat]

LogTypes ==
  /\ source \in {"pup", "job", "journal"} /\ exists \in BOOLEAN /\ size \in Nat
  /\ page \in Pages
  /\ token \in Positions /\ token <= size /\ older \in Positions
  /\ tail \in Tails
  /\ out \in Seq(SUBSET Nat)
  /\ conn \in {"none", "asked", "refused", "open", "left", "closed"}
  /\ shown \subseteq Nat /\ torn \in BOOLEAN

(* A page lies within the log; before the first one nothing is shown, and   *)
(* without a token there is nothing to scroll back to.                       *)
PageInv ==
  /\ page.at = "none" => page = NoPage
  /\ page.at = "read" => page.end # None /\ page.end <= size
  /\ older <= size
  /\ page.at = "none" \/ (page.at = "read" /\ page.first) =>
       shown = {} /\ token = None /\ older = None /\ conn = "none"
  /\ token = None => older = None /\ (page.at = "read" => page.first)
  /\ source = "journal" =>
       /\ Even(size) /\ (page.at = "read" => Even(page.end)) /\ (older # None => Even(older))

(* The tailer has a position from the moment it opens the log.               *)
TailInv ==
  /\ conn = "none" => tail = NoTail
  /\ tail.at \in {"none", "waiting"} => tail.pos = None
  /\ tail.at \in {"reading", "holding"} => tail.pos # None
  /\ tail.at # "holding" => tail.line = {}
  /\ tail.pos = None => out = <<>>

(* The screen shows the log from lo to hi; older pages end within that.      *)
Screen(lo, hi) ==
  /\ lo <= hi /\ shown = Lines(lo, hi)
  /\ older # None => older \in lo..hi
  /\ page.at = "read" /\ ~page.first => page.end \in lo..hi

(* The tailer will begin where the screen ends.                              *)
Unopened(lo, hi) == IF token = None THEN lo = hi ELSE hi = token

(* What is in the channel and in hand is the log from hi to pos, in pieces.  *)
Pieces(chan, line, pos, hi) ==
  \E cut \in [0..Len(chan) -> Nat] :
    /\ cut[0] = hi
    /\ \A i \in 1..Len(chan) : cut[i - 1] <= cut[i] /\ chan[i] = Lines(cut[i - 1], cut[i])
    /\ cut[Len(chan)] <= pos /\ line = Lines(cut[Len(chan)], pos)
Chained(hi) == Pieces(out, tail.line, tail.pos, hi)

(* One stretch is shown; what is on its way to a client that listens adjoins.*)
StretchInv ==
  torn \/ \E lo, hi \in Nat :
            /\ Screen(lo, hi)
            /\ IF tail.pos = None THEN Unopened(lo, hi)
               ELSE conn \in {"left", "closed"} \/ Chained(hi)

LogInv == LogTypes /\ PageInv /\ TailInv /\ StretchInv
-----------------------------------------------------------------------------
\* A position that is not there is below all that are.
LEMMA Absent == None \in Int /\ None \notin Nat /\ \A n \in Nat : None < n
  BY DEF None

\* Positions that are there are numbers.
LEMMA PositionsAreIntegers == 
  /\ None \in Positions /\ \A n \in Nat : n \in Positions
  /\ \A n \in Positions : n \in Int /\ (n # None => n \in Nat)
  BY Absent DEF Positions

\* The types of the fields.
LEMMA LogFields ==
  ASSUME LogTypes
  PROVE  /\ page.at \in {"none", "read", "done"} /\ page.end \in Positions
         /\ page.first \in BOOLEAN
         /\ tail.at \in {"none", "waiting", "reading", "holding", "ended"}
         /\ tail.pos \in Positions /\ tail.line \subseteq Nat
  BY DEF LogTypes, Pages, Tails

\* The end of a line, and of the next.
LEMMA EvenStep == \A n \in Nat : Even(n) => Even(n + 2)
  BY DEF Even

\* A page begins within the log, at the beginning or a line or more before its end.
LEMMA PageStart ==
  ASSUME NEW end \in Nat
  PROVE  /\ Start(end) \in Nat /\ Start(end) <= end
         /\ Even(end) /\ Start(end) # 0 => Even(Start(end)) /\ Start(end) + 2 <= end
         /\ Even(Start(end))
<1>0. Limit \in Nat \ {0}
  BY LogStreamAssumption
<1>1. CASE Even(end)
  BY <1>0, <1>1 DEF Start, Even
<1>2. CASE ~Even(end)
  BY <1>0, <1>2 DEF Start, Even
<1> QED
  BY <1>1, <1>2

\* The tailer reads on to the end of a line.
LEMMA LineEnds ==
  ASSUME NEW pos \in Nat
  PROVE  LineEnd(pos) \in Nat /\ pos < LineEnd(pos)
  BY DEF LineEnd

\* Half lines are numbers.
LEMMA LinesArePositions == \A a, b \in Nat : Lines(a, b) \subseteq Nat
  BY DEF Lines

\* The log only grows, a journal by lines.
LEMMA Growth ==
  ASSUME LogTypes, Write
  PROVE  /\ size' \in Nat /\ \A n \in Int : n <= size => n <= size'
         /\ UNCHANGED <<source, exists, page, token, older, tail, out, conn, shown, torn>>
         /\ source = "journal" /\ Even(size) => Even(size')
<1>1. PICK n \in 1..2 : size' = size + n /\ (source = "journal" => n = 2)
  BY DEF Write, LogTypes
<1>2. size \in Nat
  BY DEF LogTypes
<1> QED
  BY <1>1, <1>2, EvenStep DEF Write, client

-----------------------------------------------------------------------------
\* Nothing has been asked for and nothing is shown.
LEMMA LogInitially == LogInit => LogInv
<1> SUFFICES ASSUME LogInit PROVE LogInv
  OBVIOUS
<1>1. NoPage \in Pages /\ NoTail \in Tails
  BY DEF NoPage, NoTail, Pages, Tails, Positions
<1>2. LogTypes
  <2>1. exists \in BOOLEAN
    BY DEF LogInit
  <2>2. None \in Positions /\ None <= 0 /\ source \in {"pup", "job", "journal"}
    BY LogStreamAssumption, Absent DEF LogInit, Positions
  <2>3. out \in Seq(SUBSET Nat)
    BY DEF LogInit
  <2>4. token \in Positions /\ token <= size /\ older \in Positions /\ size \in Nat
    BY <2>2 DEF LogInit
  <2> QED
    BY <1>1, <2>1, <2>2, <2>3, <2>4 DEF LogInit, LogTypes
<1>3. PageInv /\ TailInv
  <2>1. None <= 0 /\ Even(0)
    BY Absent DEF Even
  <2>2. PageInv
    BY <2>1 DEF LogInit, PageInv, NoPage
  <2>3. TailInv
    BY DEF LogInit, TailInv, NoTail
  <2> QED
    BY <2>2, <2>3
<1>4. Screen(0, 0) /\ Unopened(0, 0) /\ tail.pos = None
  BY DEF LogInit, Screen, Unopened, Lines, NoPage, NoTail
<1> QED
  BY <1>2, <1>3, <1>4 DEF LogInv, StretchInv

\* Each step keeps the types.
LEMMA LogTypeStep == LogInv /\ [LogNext]_logVars => LogTypes'
<1> SUFFICES ASSUME LogInv, [LogNext]_logVars PROVE LogTypes'
  OBVIOUS
<1>0. /\ page.at \in {"none", "read", "done"} /\ page.end \in Positions
      /\ page.first \in BOOLEAN
      /\ tail.at \in {"none", "waiting", "reading", "holding", "ended"}
      /\ tail.pos \in Positions /\ tail.line \subseteq Nat
  BY LogFields DEF LogInv
<1> USE <1>0, Absent, PositionsAreIntegers DEF LogInv, LogTypes
<1>1. CASE UNCHANGED logVars
  BY <1>1 DEF logVars, log, client
<1>2. CASE Create \/ Handshake \/ Leave
  BY <1>2 DEF Create, Handshake, Leave, log, client
<1>9. CASE Write
  <2>1. token <= size'
    BY <1>9, Growth
  <2> QED
    BY <1>9, <2>1, Growth
<1>3. CASE FirstPage \/ OlderPage \/ OpenSocket
  <2>1. page' \in Pages
    <3>1. CASE FirstPage
      BY <3>1 DEF FirstPage, Pages
    <3>2. CASE OlderPage
      BY <3>2 DEF OlderPage, Pages
    <3>3. CASE OpenSocket
      BY <3>3 DEF OpenSocket, client
    <3> QED
      BY <1>3, <3>1, <3>2, <3>3
  <2>2. tail' \in Tails
    BY <1>3 DEF FirstPage, OlderPage, OpenSocket, Tails
  <2> QED
    BY <1>3, <2>1, <2>2 DEF FirstPage, OlderPage, OpenSocket, log, client
<1>4. CASE ReadPage
  <2>1. PageEnd \in Nat /\ PageEnd <= size
    BY <1>4 DEF ReadPage, PageEnd, PageInv
  <2> HIDE DEF PageEnd
  <2>2. Start(PageEnd) \in Nat
    BY <2>1, PageStart
  <2>3. Lines(Start(PageEnd), PageEnd) \subseteq Nat
    BY <2>1, <2>2 DEF Lines
  <2>4. OlderCursor(PageEnd) \in Positions
    BY <2>1, <2>2 DEF OlderCursor
  <2>5. page' \in Pages
    BY <1>4 DEF ReadPage, Pages
  <2> QED
    BY <1>4, <2>1, <2>3, <2>4, <2>5 DEF ReadPage, ResumeToken, log
<1>5. CASE Pump
  <2>1. CASE PumpEnds
    BY <1>5, <2>1 DEF PumpEnds, log, client
  <2>2. CASE PumpSends
    <3>1. Head(out) \subseteq Nat /\ Tail(out) \in Seq(SUBSET Nat)
      BY <2>2 DEF PumpSends
    <3>2. conn' \in {"open", "left", "closed"} /\ shown' \subseteq Nat
      BY <2>2, <3>1 DEF PumpSends
    <3> QED
      BY <2>2, <3>1, <3>2 DEF PumpSends, log, client
  <2> QED
    BY <1>5, <2>1, <2>2 DEF Pump
<1>6. CASE TailerOpens \/ TailerGivesUp \/ TailerStops
  <2>1. tail' \in Tails
    BY <1>6 DEF TailerOpens, TailerGivesUp, TailerStops, StartOffset, Tails
  <2> QED
    BY <1>6, <2>1 DEF TailerOpens, TailerGivesUp, TailerStops, log, client
<1>7. CASE TailerReads
  <2>1. tail.pos \in Nat
    BY <1>7 DEF TailerReads, TailInv
  <2>2. LineEnd(tail.pos) \in Nat /\ Lines(tail.pos, LineEnd(tail.pos)) \subseteq Nat
    BY <2>1, LineEnds, LinesArePositions
  <2> DEFINE l == Lines(tail.pos, LineEnd(tail.pos))
             e == LineEnd(tail.pos)
  <2>3. torn' \in BOOLEAN
    BY <1>7 DEF TailerReads
  <2>4. tail' = [at |-> "holding", pos |-> e, line |-> l] \/ tail' = [tail EXCEPT !.pos = size]
    BY <1>7 DEF TailerReads
  <2>5. e \in Nat /\ l \in SUBSET Nat
    BY <2>2
  <2> HIDE DEF l, e
  <2>6. tail' \in Tails
    BY <2>4, <2>5 DEF Tails
  <2> QED
    BY <1>7, <2>3, <2>6 DEF TailerReads, log, client
<1>8. CASE TailerSends
  <2>1. Append(out, tail.line) \in Seq(SUBSET Nat)
    OBVIOUS
  <2>2. tail' \in Tails
    BY <1>8 DEF TailerSends, Tails
  <2> QED
    BY <1>8, <2>1, <2>2 DEF TailerSends, log, client
<1> QED
  BY <1>1, <1>2, <1>3, <1>4, <1>5, <1>6, <1>7, <1>8, <1>9 DEF LogNext, Tailer

\* Each step keeps the pages, the token and the cursor where the log is.
LEMMA PageStep == LogInv /\ [LogNext]_logVars => PageInv'
<1> SUFFICES ASSUME LogInv, [LogNext]_logVars PROVE PageInv'
  OBVIOUS
<1>0. /\ page.at \in {"none", "read", "done"} /\ page.end \in Positions
      /\ page.first \in BOOLEAN
      /\ tail.at \in {"none", "waiting", "reading", "holding", "ended"}
      /\ tail.pos \in Positions /\ tail.line \subseteq Nat
  BY LogFields DEF LogInv
<1> USE <1>0, Absent, PositionsAreIntegers DEF LogInv, LogTypes, PageInv
<1>1. CASE UNCHANGED logVars
  BY <1>1 DEF logVars, log, client
<1>2. CASE Create \/ Handshake \/ Leave \/ OpenSocket \/ TailerOpens \/ TailerGivesUp
           \/ TailerStops \/ TailerReads \/ TailerSends \/ PumpEnds
  BY <1>2 DEF Create, Handshake, Leave, OpenSocket, TailerOpens, TailerGivesUp, TailerStops,
              TailerReads, TailerSends, PumpEnds, log, client
<1>3. CASE Write
  <2>1. page.end <= size => page.end <= size'
    BY <1>3, Growth
  <2>2. older <= size'
    BY <1>3, Growth
  <2> QED
    BY <1>3, <2>1, <2>2, Growth
<1>4. CASE FirstPage
  <2>1. page'.at \in {"read", "done"} /\ page'.end = size /\ page'.first
    BY <1>4 DEF FirstPage, Pages, NoPage
  <2> QED
    BY <1>4, <2>1 DEF FirstPage, log
<1>7. CASE OlderPage
  <2>1. page'.at = "read" /\ page'.end = older /\ ~page'.first /\ older # None /\ page.at = "done"
    BY <1>7 DEF OlderPage
  <2> QED
    BY <1>7, <2>1 DEF OlderPage, log
<1>5. CASE ReadPage
  <2>1. /\ PageEnd \in Nat /\ PageEnd <= size
        /\ source = "journal" => Even(PageEnd)
    BY <1>5 DEF ReadPage, PageEnd
  <2> HIDE DEF PageEnd
  <2> DEFINE start == Start(PageEnd)
  <2>2. start \in Nat /\ start <= PageEnd /\ Even(start)
    BY <2>1, PageStart
  <2>3. Even(start + 2)
    BY <2>2, EvenStep
  <2>4. older' # None /\ source = "journal" => Even(older')
    BY <1>5, <2>3 DEF ReadPage, OlderCursor
  <2>5. start = 0 => older' = None
    BY <1>5 DEF ReadPage, OlderCursor
  <2>6. token' = None => start = 0
    BY <1>5, <2>1, <2>2 DEF ReadPage, ResumeToken
  <2>7. older' <= size
    <3>1. source = "journal" /\ start # 0 => start + 2 <= PageEnd
      BY <2>1, PageStart
    <3> QED
      BY <1>5, <2>1, <2>2, <3>1 DEF ReadPage, OlderCursor
  <2>8. page'.at = "done" /\ UNCHANGED <<source, size, conn>>
    BY <1>5 DEF ReadPage, Pages, log
  <2> HIDE DEF start
  <2>9. token' = None => older' = None
    BY <2>5, <2>6
  <2> QED
    BY <2>4, <2>7, <2>8, <2>9
<1>6. CASE PumpSends
  BY <1>6 DEF PumpSends, log, client
<1> QED
  BY <1>1, <1>2, <1>3, <1>4, <1>5, <1>6, <1>7 DEF LogNext, Tailer, Pump

\* Each step of the tailer keeps to its order.
LEMMA TailStep == LogInv /\ [LogNext]_logVars => TailInv'
<1> SUFFICES ASSUME LogInv, [LogNext]_logVars PROVE TailInv'
  OBVIOUS
<1>0. /\ page.at \in {"none", "read", "done"} /\ page.end \in Positions
      /\ page.first \in BOOLEAN
      /\ tail.at \in {"none", "waiting", "reading", "holding", "ended"}
      /\ tail.pos \in Positions /\ tail.line \subseteq Nat
  BY LogFields DEF LogInv
<1> USE <1>0, Absent, PositionsAreIntegers DEF LogInv, LogTypes, TailInv
<1>1. CASE UNCHANGED logVars
  BY <1>1 DEF logVars
<1>2. CASE Create \/ Write \/ FirstPage \/ OlderPage \/ ReadPage
  BY <1>2 DEF Create, Write, FirstPage, OlderPage, ReadPage
<1>3. CASE OpenSocket \/ Handshake \/ Leave \/ PumpEnds
  BY <1>3 DEF OpenSocket, Handshake, Leave, PumpEnds, NoTail
<1>4. CASE PumpSends
  <2>1. conn' # "none" /\ UNCHANGED tail /\ out # <<>>
    BY <1>4 DEF PumpSends
  <2> QED
    BY <2>1
<1>5. CASE TailerOpens \/ TailerGivesUp \/ TailerStops
  <2>1. /\ tail'.at \in {"reading", "ended"} /\ tail'.line = tail.line /\ UNCHANGED <<out, conn>>
        /\ tail'.pos = tail.pos \/ tail'.pos \in Nat
        /\ tail'.at = "reading" => tail'.pos \in Nat
        /\ tail.at \in {"waiting", "reading"}
    BY <1>5 DEF TailerOpens, TailerGivesUp, TailerStops, StartOffset, Tails
  <2> QED
    BY <2>1 DEF NoTail
<1>6. CASE TailerReads
  <2>1. tail.pos \in Nat
    BY <1>6 DEF TailerReads
  <2>2. LineEnd(tail.pos) \in Nat
    BY <2>1, LineEnds
  <2>3. \/ tail'.at = "holding" /\ tail'.pos \in Nat
        \/ tail'.at = "reading" /\ tail'.pos = size /\ tail'.line = tail.line
    <3>1. CASE LineEnd(tail.pos) <= size
      BY <1>6, <2>2, <3>1 DEF TailerReads
    <3>2. CASE ~(LineEnd(tail.pos) <= size)
      BY <1>6, <3>2 DEF TailerReads, Tails
    <3> QED
      BY <3>1, <3>2
  <2>4. UNCHANGED <<out, conn>> /\ tail.at = "reading"
    BY <1>6 DEF TailerReads
  <2> QED
    BY <2>3, <2>4 DEF NoTail
<1>7. CASE TailerSends
  BY <1>7 DEF TailerSends, NoTail
<1> QED
  BY <1>1, <1>2, <1>3, <1>4, <1>5, <1>6, <1>7 DEF LogNext, Tailer, Pump

-----------------------------------------------------------------------------
(* Stretches of lines and pieces of them.                                    *)

\* An empty stretch has no length; two that meet are one.
LEMMA LinesMeet ==
  /\ \A a \in Nat : Lines(a, a) = {}
  /\ \A a, b \in Nat : a <= b /\ Lines(a, b) = {} => a = b
  /\ \A a, b, c \in Nat : a <= b /\ b <= c => Lines(a, b) \cup Lines(b, c) = Lines(a, c)
<1>1. \A a \in Nat : Lines(a, a) = {}
  BY DEF Lines
<1>2. ASSUME NEW a \in Nat, NEW b \in Nat, a <= b, Lines(a, b) = {} PROVE a = b
  <2>1. a # b => b \in Lines(a, b)
    BY <1>2 DEF Lines
  <2> QED
    BY <1>2, <2>1
<1>3. \A a, b, c \in Nat : a <= b /\ b <= c => Lines(a, b) \cup Lines(b, c) = Lines(a, c)
  BY DEF Lines
<1> QED
  BY <1>1, <1>2, <1>3

\* A page that ends within a stretch only makes it longer at its beginning.
LEMMA LinesOverlap ==
  ASSUME NEW lo \in Nat, NEW hi \in Nat, NEW start \in Nat, NEW end \in Nat,
         lo <= end, end <= hi, start <= end
  PROVE  \E first \in {lo, start} :
           /\ first <= lo /\ first <= start
           /\ Lines(lo, hi) \cup Lines(start, end) = Lines(first, hi)
<1>1. CASE lo <= start
  BY <1>1 DEF Lines
<1>2. CASE start < lo
  BY <1>2 DEF Lines
<1> QED
  BY <1>1, <1>2

\* A tailer that opens the log at a position has nothing in hand.
LEMMA PiecesBegin == \A pos \in Nat : Pieces(<<>>, {}, pos, pos)
<1> TAKE pos \in Nat
<1> DEFINE cut == [i \in 0..0 |-> pos]
<1>1. cut \in [0..Len(<<>>) -> Nat] /\ cut[0] = pos /\ cut[Len(<<>>)] = pos /\ Len(<<>>) = 0
  OBVIOUS
<1>2. {} = Lines(pos, pos)
  BY LinesMeet
<1> HIDE DEF cut
<1>3. /\ \A i \in 1..Len(<<>>) : cut[i - 1] <= cut[i] /\ <<>>[i] = Lines(cut[i - 1], cut[i])
      /\ cut[Len(<<>>)] <= pos /\ {} = Lines(cut[Len(<<>>)], pos)
  BY <1>1, <1>2
<1> QED
  BY <1>1, <1>3 DEF Pieces

\* The tailer reads one more line.
LEMMA PiecesRead ==
  ASSUME NEW chan \in Seq(SUBSET Nat), NEW pos \in Nat, NEW hi \in Nat, NEW next \in Nat,
         pos <= next, Pieces(chan, {}, pos, hi)
  PROVE  Pieces(chan, Lines(pos, next), next, hi)
<1>1. PICK cut \in [0..Len(chan) -> Nat] :
        /\ cut[0] = hi
        /\ \A i \in 1..Len(chan) : cut[i - 1] <= cut[i] /\ chan[i] = Lines(cut[i - 1], cut[i])
        /\ cut[Len(chan)] <= pos /\ {} = Lines(cut[Len(chan)], pos)
  BY DEF Pieces
<1>2. Len(chan) \in Nat /\ Len(chan) \in 0..Len(chan)
  OBVIOUS
<1>3. cut[Len(chan)] = pos
  BY <1>1, <1>2, LinesMeet
<1>4. cut[Len(chan)] <= next /\ Lines(pos, next) = Lines(cut[Len(chan)], next)
  BY <1>3
<1> QED
  BY <1>1, <1>4 DEF Pieces

\* The tailer puts the line it holds into the channel.
LEMMA PiecesSent ==
  ASSUME NEW chan \in Seq(SUBSET Nat), NEW line \in SUBSET Nat, NEW pos \in Nat,
         NEW hi \in Nat, Pieces(chan, line, pos, hi)
  PROVE  Pieces(Append(chan, line), {}, pos, hi)
<1>1. PICK cut \in [0..Len(chan) -> Nat] :
        /\ cut[0] = hi
        /\ \A i \in 1..Len(chan) : cut[i - 1] <= cut[i] /\ chan[i] = Lines(cut[i - 1], cut[i])
        /\ cut[Len(chan)] <= pos /\ line = Lines(cut[Len(chan)], pos)
  BY DEF Pieces
<1> DEFINE n == Len(chan)
           longer == Append(chan, line)
           new == [i \in 0..(n + 1) |-> IF i = n + 1 THEN pos ELSE cut[i]]
<1>2. n \in Nat /\ Len(longer) = n + 1 /\ longer[n + 1] = line
      /\ \A i \in 1..n : longer[i] = chan[i]
  OBVIOUS
<1>3. /\ new \in [0..(n + 1) -> Nat] /\ new[0] = hi /\ new[n + 1] = pos
      /\ \A i \in 0..n : new[i] = cut[i]
  BY <1>1, <1>2
<1> HIDE DEF n, longer, new
<1>4. ASSUME NEW i \in 1..(n + 1)
      PROVE  new[i - 1] <= new[i] /\ longer[i] = Lines(new[i - 1], new[i])
  <2>1. CASE i = n + 1
    BY <1>1, <1>2, <1>3, <2>1 DEF n
  <2>2. CASE i # n + 1
    <3>1. i \in 1..n /\ i \in 0..n /\ i - 1 \in 0..n
      BY <1>2, <2>2
    <3> QED
      BY <1>1, <1>2, <1>3, <3>1 DEF n
  <2> QED
    BY <2>1, <2>2
<1>5. new[n + 1] <= pos /\ {} = Lines(new[n + 1], pos)
  BY <1>3, LinesMeet
<1> QED
  BY <1>2, <1>3, <1>4, <1>5 DEF Pieces, longer

\* The pump takes the head: it joins what is shown.
LEMMA PiecesShown ==
  ASSUME NEW chan \in Seq(SUBSET Nat), chan # <<>>, NEW line, NEW pos \in Nat,
         NEW hi \in Nat, Pieces(chan, line, pos, hi)
  PROVE  \E next \in Nat : /\ hi <= next /\ Head(chan) = Lines(hi, next)
                           /\ Pieces(Tail(chan), line, pos, next)
<1>1. PICK cut \in [0..Len(chan) -> Nat] :
        /\ cut[0] = hi
        /\ \A i \in 1..Len(chan) : cut[i - 1] <= cut[i] /\ chan[i] = Lines(cut[i - 1], cut[i])
        /\ cut[Len(chan)] <= pos /\ line = Lines(cut[Len(chan)], pos)
  BY DEF Pieces
<1> DEFINE n == Len(chan)
           rest == Tail(chan)
           new == [i \in 0..(n - 1) |-> cut[i + 1]]
<1>2. n \in Nat \ {0} /\ Len(rest) = n - 1 /\ Head(chan) = chan[1]
      /\ \A i \in 1..(n - 1) : rest[i] = chan[i + 1]
  OBVIOUS
<1>3. /\ new \in [0..(n - 1) -> Nat] /\ new[0] = cut[1]
      /\ \A i \in 0..(n - 1) : new[i] = cut[i + 1]
  BY <1>1, <1>2
<1> HIDE DEF n, rest, new
<1>4. ASSUME NEW i \in 1..(n - 1)
      PROVE  new[i - 1] <= new[i] /\ rest[i] = Lines(new[i - 1], new[i])
  <2>1. i + 1 \in 1..n /\ i \in 0..(n - 1) /\ i - 1 \in 0..(n - 1) /\ (i + 1) - 1 = (i - 1) + 1
    BY <1>2
  <2>2. cut[(i + 1) - 1] <= cut[i + 1] /\ chan[i + 1] = Lines(cut[(i + 1) - 1], cut[i + 1])
    BY <1>1, <2>1 DEF n
  <2>3. new[i] = cut[i + 1] /\ new[i - 1] = cut[(i - 1) + 1] /\ rest[i] = chan[i + 1]
    BY <1>2, <1>3, <2>1
  <2> QED
    BY <2>1, <2>2, <2>3
<1>5. new[n - 1] = cut[n] /\ n - 1 \in Nat
  BY <1>2, <1>3
<1>6. cut[1] \in Nat /\ hi <= cut[1] /\ chan[1] = Lines(hi, cut[1])
  BY <1>1, <1>2 DEF n
<1>7. new[n - 1] <= pos /\ line = Lines(new[n - 1], pos)
  BY <1>1, <1>5 DEF n
<1>8. Pieces(rest, line, pos, cut[1])
  BY <1>2, <1>3, <1>4, <1>7 DEF Pieces
<1> QED
  BY <1>2, <1>6, <1>8 DEF rest

-----------------------------------------------------------------------------
\* One stretch on the screen is enough.
LEMMA StretchKept ==
  ASSUME NEW lo \in Nat, NEW hi \in Nat, ~torn', Screen(lo, hi)',
         IF tail'.pos = None THEN Unopened(lo, hi)'
         ELSE conn' \in {"left", "closed"} \/ Chained(hi)'
  PROVE  StretchInv'
  BY DEF StretchInv

\* The first page begins the stretch, an older one meets it.
LEMMA PageOnScreen ==
  ASSUME LogInv, ReadPage, ~torn', NEW lo \in Nat, NEW hi \in Nat, Screen(lo, hi),
         IF tail.pos = None THEN Unopened(lo, hi)
         ELSE conn \in {"left", "closed"} \/ Chained(hi)
  PROVE  StretchInv'
<1>e. PICK end \in Nat : end = PageEnd
  BY PositionsAreIntegers, LogFields DEF ReadPage, PageEnd, LogInv, LogTypes, PageInv
<1>s. PICK start \in Nat : start = Start(end)
  BY PageStart
<1>1. /\ page.at = "read" /\ end \in Nat /\ page'.at = "done"
      /\ source = "journal" => Even(end)
      /\ shown' = shown \cup Lines(start, end)
      /\ token' = IF page.first THEN ResumeToken(end) ELSE token
      /\ older' = OlderCursor(end)
      /\ UNCHANGED <<tail, conn, out, source>>
  BY <1>e, <1>s DEF ReadPage, PageEnd, LogInv, LogTypes, PageInv, Pages, log
<1>2. /\ start \in Nat /\ start <= end
      /\ source = "journal" /\ start # 0 => start + 2 <= end
  BY <1>1, <1>s, PageStart
<1>3. older' # None => older' \in start..end
  BY <1>1, <1>2, <1>s DEF OlderCursor
<1>4. CASE page.first
  <2>1. shown = {} /\ tail.pos = None
    BY <1>1, <1>4 DEF LogInv, PageInv, TailInv, NoTail
  <2>2. shown' = Lines(start, end)
    BY <1>1, <2>1
  <2>3. Screen(start, end)'
    BY <1>1, <1>2, <1>3, <2>2 DEF Screen
  <2>4. token' = None => end = 0
    BY <1>1, <1>4, Absent DEF ResumeToken
  <2>5. Unopened(start, end)'
    BY <1>1, <1>2, <1>4, <2>4 DEF Unopened, ResumeToken
  <2> QED
    BY <1>1, <1>2, <2>1, <2>3, <2>5, StretchKept
<1>5. CASE ~page.first
  <2>1. end = page.end /\ end \in lo..hi /\ token # None /\ token' = token
    BY <1>1, <1>5, <1>e DEF PageEnd, Screen, LogInv, PageInv
  <2>2. PICK first \in {lo, start} :
          first <= lo /\ first <= start /\ Lines(lo, hi) \cup Lines(start, end) = Lines(first, hi)
    BY <1>1, <1>2, <2>1, LinesOverlap
  <2>3. Screen(first, hi)'
    <3>1. first <= hi /\ shown' = Lines(first, hi)
      BY <1>1, <1>2, <2>1, <2>2 DEF Screen
    <3>2. older' # None => older' \in first..hi
      BY <1>1, <1>2, <1>3, <2>1, <2>2
    <3> QED
      BY <1>1, <3>1, <3>2 DEF Screen
  <2>4. IF tail'.pos = None THEN Unopened(first, hi)'
        ELSE conn' \in {"left", "closed"} \/ Chained(hi)'
    BY <1>1, <2>1 DEF Unopened, Chained
  <2>5. first \in Nat
    BY <1>2, <2>2
  <2> QED
    BY <2>3, <2>4, <2>5, StretchKept
<1> QED
  BY <1>4, <1>5, LogFields DEF LogInv

\* Each step keeps the screen one stretch, and the channel what follows it.
LEMMA StretchStep == LogInv /\ [LogNext]_logVars => StretchInv'
<1> SUFFICES ASSUME LogInv, [LogNext]_logVars, ~torn' PROVE StretchInv'
  BY DEF StretchInv
<1>1. ~torn
  BY DEF LogNext, logVars, Create, Write, FirstPage, OlderPage, ReadPage, OpenSocket, Handshake,
         Leave, Pump, PumpSends, PumpEnds, Tailer, TailerOpens, TailerGivesUp, TailerReads,
         TailerSends, TailerStops, LogInv, LogTypes
<1>2. PICK lo \in Nat, hi \in Nat :
        /\ Screen(lo, hi)
        /\ IF tail.pos = None THEN Unopened(lo, hi)
           ELSE conn \in {"left", "closed"} \/ Chained(hi)
  BY <1>1 DEF LogInv, StretchInv
<1>3. /\ page.at \in {"none", "read", "done"} /\ page.end \in Positions
      /\ page.first \in BOOLEAN
      /\ tail.at \in {"none", "waiting", "reading", "holding", "ended"}
      /\ tail.pos \in Positions /\ tail.line \subseteq Nat
      /\ tail.pos # None => tail.pos \in Nat
      /\ out \in Seq(SUBSET Nat)
  BY LogFields, PositionsAreIntegers DEF LogInv, LogTypes
<1> USE DEF log, client
<1>4. CASE UNCHANGED logVars
  BY <1>2, <1>4, StretchKept DEF logVars, Screen, Unopened, Chained
<1>5. CASE Create \/ Write \/ Handshake
  <2>1. /\ UNCHANGED <<page, token, older, tail, out, shown>>
        /\ tail.pos # None /\ conn \in {"left", "closed"} => conn' = conn
    BY <1>5 DEF Create, Write, Handshake
  <2> QED
    BY <1>2, <2>1, StretchKept DEF Screen, Unopened, Chained
<1>6. CASE Leave \/ PumpEnds
  <2>1. /\ UNCHANGED <<page, token, older, tail, out, shown>>
        /\ conn' \in {"left", "closed"}
    BY <1>6 DEF Leave, PumpEnds
  <2> QED
    BY <1>2, <2>1, StretchKept DEF Screen, Unopened
<1>7. CASE FirstPage \/ OlderPage
  <2>1. /\ UNCHANGED <<token, older, tail, out, shown, conn>>
        /\ page'.at = "read" /\ ~page'.first => older # None /\ page'.end = older
    <3>1. CASE FirstPage
      BY <3>1 DEF FirstPage, LogInv, PageInv, NoPage
    <3>2. CASE OlderPage
      BY <3>2 DEF OlderPage
    <3> QED
      BY <1>7, <3>1, <3>2
  <2> QED
    BY <1>2, <2>1, StretchKept DEF Screen, Unopened, Chained
<1>8. CASE ReadPage
  BY <1>2, <1>8, PageOnScreen
<1>9. CASE OpenSocket \/ TailerGivesUp \/ TailerStops
  <2>1. /\ UNCHANGED <<page, token, older, out, shown>>
        /\ tail'.pos = tail.pos /\ tail'.line = tail.line
        /\ conn' = conn \/ conn = "none"
    BY <1>9 DEF OpenSocket, TailerGivesUp, TailerStops, LogInv, LogTypes, Tails
  <2>2. conn = "none" => tail.pos = None
    BY DEF LogInv, TailInv, NoTail
  <2> QED
    BY <1>2, <2>1, <2>2, StretchKept DEF Screen, Unopened, Chained
<1>10. CASE PumpSends
  <2>1. tail.pos \in Nat /\ tail.pos # None
    BY <1>3, <1>10 DEF PumpSends, LogInv, TailInv
  <2>2. /\ UNCHANGED <<page, token, older, tail>> /\ out' = Tail(out) /\ out # <<>>
    BY <1>10 DEF PumpSends
  <2>3. CASE conn = "open"
    <3>1. shown' = shown \cup Head(out) /\ conn' = "open"
      BY <1>10, <2>3 DEF PumpSends
    <3>2. PICK next \in Nat : /\ hi <= next /\ Head(out) = Lines(hi, next)
                              /\ Pieces(Tail(out), tail.line, tail.pos, next)
      BY <1>2, <1>3, <2>1, <2>2, <2>3, PiecesShown DEF Chained
    <3>3. shown' = Lines(lo, next) /\ lo <= next
      BY <1>2, <3>1, <3>2, LinesMeet DEF Screen
    <3>4. Screen(lo, next)'
      BY <1>2, <2>2, <3>2, <3>3 DEF Screen
    <3>5. Chained(next)'
      BY <2>2, <3>2 DEF Chained
    <3> QED
      BY <2>1, <2>2, <3>4, <3>5, StretchKept
  <2>4. CASE conn # "open"
    <3>1. UNCHANGED shown /\ conn' \in {"left", "closed"}
      BY <1>10, <2>4 DEF PumpSends
    <3> QED
      BY <1>2, <2>1, <2>2, <3>1, StretchKept DEF Screen
  <2> QED
    BY <2>3, <2>4
<1>11. CASE TailerOpens
  <2>1. /\ UNCHANGED <<page, token, older, out, shown, conn, size>>
        /\ tail'.pos = StartOffset /\ tail'.line = {} /\ out = <<>> /\ tail.pos = None
    BY <1>11, <1>3 DEF TailerOpens, LogInv, LogTypes, TailInv, Tails
  <2>2. size \in Nat /\ token <= size /\ token \in Int
    BY PositionsAreIntegers DEF LogInv, LogTypes
  <2>3. CASE token = None
    <3>1. lo = hi /\ shown = {} /\ older = None /\ (page.at = "read" => page.first)
      BY <1>2, <2>1, <2>3, LinesMeet DEF Unopened, Screen, LogInv, PageInv
    <3>4. PICK top \in Nat : top = size
      BY <2>2
    <3>2. Screen(top, top)'
      BY <2>1, <3>1, LinesMeet DEF Screen
    <3>3. tail'.pos = top /\ Chained(top)'
      BY <2>1, <2>3, <3>4, PiecesBegin DEF StartOffset, Chained
    <3> QED
      BY <3>2, <3>3, StretchKept, Absent
  <2>4. CASE token # None
    <3>1. hi = token /\ tail'.pos = hi
      BY <1>2, <2>1, <2>2, <2>4 DEF Unopened, StartOffset
    <3>2. Screen(lo, hi)'
      BY <1>2, <2>1 DEF Screen
    <3>3. Chained(hi)'
      BY <2>1, <3>1, PiecesBegin DEF Chained
    <3> QED
      BY <3>1, <3>2, <3>3, StretchKept, Absent
  <2> QED
    BY <2>3, <2>4
<1>12. CASE TailerReads
  <2>1. /\ UNCHANGED <<page, token, older, out, shown, conn>>
        /\ tail.pos \in Nat /\ tail.line = {}
    BY <1>3, <1>12 DEF TailerReads, LogInv, TailInv
  <2>2. LineEnd(tail.pos) \in Nat /\ tail.pos <= LineEnd(tail.pos)
    BY <2>1, LineEnds
  <2>3. tail'.pos = LineEnd(tail.pos) /\ tail'.line = Lines(tail.pos, LineEnd(tail.pos))
    BY <1>12 DEF TailerReads
  <2>4. Screen(lo, hi)'
    BY <1>2, <2>1 DEF Screen
  <2>5. conn' \in {"left", "closed"} \/ Chained(hi)'
    <3>1. Chained(hi) => Pieces(out, Lines(tail.pos, LineEnd(tail.pos)), LineEnd(tail.pos), hi)
      BY <1>3, <2>1, <2>2, PiecesRead DEF Chained
    <3> QED
      BY <1>2, <2>1, <2>3, <3>1, Absent DEF Chained
  <2> QED
    BY <2>2, <2>3, <2>4, <2>5, StretchKept, Absent
<1>13. CASE TailerSends
  <2>1. /\ UNCHANGED <<page, token, older, shown, conn>>
        /\ tail.pos \in Nat /\ tail'.pos = tail.pos /\ tail'.line = {}
        /\ out' = Append(out, tail.line)
    BY <1>3, <1>13 DEF TailerSends, LogInv, LogTypes, TailInv, Tails
  <2>2. Screen(lo, hi)'
    BY <1>2, <2>1 DEF Screen
  <2>3. Chained(hi) => Chained(hi)'
    BY <1>3, <2>1, PiecesSent DEF Chained
  <2> QED
    BY <1>2, <2>1, <2>2, <2>3, StretchKept, Absent
<1> QED
  BY <1>4, <1>5, <1>6, <1>7, <1>8, <1>9, <1>10, <1>11, <1>12, <1>13 DEF LogNext, Pump, Tailer
-----------------------------------------------------------------------------
\* The page, its token, the channel and the tailer's hand hold adjoining stretches of
\* the log, however the log grows and the client scrolls (pkg/web/logs.go, logtailer.go).
THEOREM LogInvariance == LogSpec => []LogInv
<1>1. LogInv /\ [LogNext]_logVars => LogInv'
  BY LogTypeStep, PageStep, TailStep, StretchStep DEF LogInv
<1> QED
  BY LogInitially, <1>1, PTL DEF LogSpec

\* What is on the screen has no hole, but for a line the tailer met unfinished, for any
\* page size, capacity of the channel and length of the log (GetPage, GetChannelFromOffset).
THEOREM OneStretch == LogSpec => []NoGap
<1>1. LogInv => NoGap
  <2> SUFFICES ASSUME LogInv, ~torn, NEW i \in shown, NEW j \in shown, NEW k \in i..j
               PROVE  k \in shown
    BY DEF NoGap
  <2>1. PICK lo \in Nat, hi \in Nat : shown = Lines(lo, hi)
    BY DEF LogInv, StretchInv, Screen
  <2> QED
    BY <2>1 DEF Lines
<1> QED
  BY LogInvariance, <1>1, PTL
-----------------------------------------------------------------------------
(* Changes.                                                                  *)

Handlers == {"none", "connected", "registered", "loaded", "open", "closed", "returned"}

TypeInv ==
  /\ applied \subseteq Nat /\ IsFiniteSet(applied)
  /\ offered \subseteq Nat /\ missed \subseteq Nat /\ channel \in Seq(Nat)
  /\ casting \in [change : Nat, to : SUBSET Clients]
  /\ socks \subseteq Clients
  /\ handler \in [Clients -> Handlers]
  /\ loaded \in [Clients -> SUBSET Nat] /\ received \in [Clients -> SUBSET Nat]

RegisteredInv ==
  \A c \in Clients : handler[c] \in {"registered", "loaded", "open"} => c \in socks

(* The changes a client has, or that are on their way to it or were given up. *)
InCast(c) == IF c \in casting.to THEN {casting.change} ELSE {}
Accounted(c) ==
  loaded[c] \cup received[c] \cup offered \cup ToSet(channel) \cup missed \cup InCast(c)

CoveredInv ==
  \A c \in Clients : handler[c] \in {"loaded", "open"} => applied \subseteq Accounted(c)

IInv == TypeInv /\ RegisteredInv /\ CoveredInv
-----------------------------------------------------------------------------
\* A change put into the channel is in it, and the others still are.
LEMMA ChannelAppend ==
  ASSUME NEW s \in Seq(Nat), NEW k
  PROVE  ToSet(Append(s, k)) = ToSet(s) \cup {k}
<1>1. Len(Append(s, k)) = Len(s) + 1 /\ Append(s, k)[Len(s) + 1] = k
  OBVIOUS
<1>2. \A i \in 1..Len(s) : Append(s, k)[i] = s[i]
  OBVIOUS
<1>3. DOMAIN Append(s, k) = 1..(Len(s) + 1) /\ DOMAIN s = 1..Len(s) /\ Len(s) \in Nat
  OBVIOUS
<1> QED
  BY <1>1, <1>2, <1>3 DEF ToSet

\* The loop takes the head and leaves the others.
LEMMA ChannelTail ==
  ASSUME NEW s \in Seq(Nat), s # <<>>
  PROVE  /\ Head(s) \in Nat /\ Tail(s) \in Seq(Nat)
         /\ ToSet(s) \subseteq {Head(s)} \cup ToSet(Tail(s))
<1>1. Head(s) \in Nat /\ Tail(s) \in Seq(Nat) /\ Head(s) = s[1]
  OBVIOUS
<1>2. DOMAIN Tail(s) = 1..(Len(s) - 1) /\ DOMAIN s = 1..Len(s) /\ Len(s) \in Nat \ {0}
  OBVIOUS
<1>3. \A i \in 2..Len(s) : s[i] = Tail(s)[i - 1] /\ i - 1 \in 1..(Len(s) - 1)
  BY <1>2
<1>4. ASSUME NEW i \in 1..Len(s) PROVE s[i] \in {Head(s)} \cup ToSet(Tail(s))
  <2>1. CASE i = 1
    BY <2>1, <1>1
  <2>2. CASE i # 1
    <3>1. i \in 2..Len(s)
      BY <2>2, <1>2
    <3>2. s[i] = Tail(s)[i - 1] /\ i - 1 \in DOMAIN Tail(s)
      BY <3>1, <1>2, <1>3
    <3> QED
      BY <3>2 DEF ToSet
  <2> QED
    BY <2>1, <2>2
<1> QED
  BY <1>1, <1>2, <1>4 DEF ToSet

\* The next change is a number that the others are not affected by.
LEMMA NextChange ==
  ASSUME TypeInv PROVE Cardinality(applied) + 1 \in Nat
  BY FS_CardinalityType DEF TypeInv

LEMMA Initially == RelayInit => IInv
<1>1. IsFiniteSet({})
  BY FS_EmptySet
<1> QED
  BY <1>1 DEF RelayInit, IInv, TypeInv, RegisteredInv, CoveredInv, Idle, Handlers
-----------------------------------------------------------------------------
\* The types, by every step.
LEMMA TypeStep == TypeInv /\ [RelayNext]_relayVars => TypeInv'
<1> SUFFICES ASSUME TypeInv, [RelayNext]_relayVars PROVE TypeInv'
  OBVIOUS
<1>1. CASE UNCHANGED relayVars
  BY <1>1 DEF relayVars, TypeInv
<1>2. CASE Change
  <2>1. IsFiniteSet(applied')
    BY <1>2, FS_AddElement DEF Change, TypeInv
  <2> QED
    BY <1>2, <2>1, NextChange DEF Change, TypeInv
<1>3. CASE Broadcast
  <2>1. channel' \in Seq(Nat) /\ Head(channel) \in Nat
    BY <1>3, ChannelTail DEF Broadcast, TypeInv
  <2>2. casting' \in [change : Nat, to : SUBSET Clients]
    BY <1>3, <2>1 DEF Broadcast, TypeInv, Recipients, Idle
  <2> QED
    BY <1>3, <2>1, <2>2 DEF Broadcast, TypeInv
<1>4. CASE CleanupSocks
  BY <1>4 DEF CleanupSocks, TypeInv
<1>5. ASSUME NEW k \in offered, SendChange(k) PROVE TypeInv'
  <2>1. k \in Nat /\ Append(channel, k) \in Seq(Nat)
    BY DEF TypeInv
  <2> QED
    BY <1>5, <2>1 DEF SendChange, TypeInv
<1>6. ASSUME NEW c \in Clients, SendTo(c) PROVE TypeInv'
  <2>1. casting' \in [change : Nat, to : SUBSET Clients]
    BY <1>6 DEF SendTo, TypeInv, Idle
  <2>2. received' \in [Clients -> SUBSET Nat]
    <3>1. casting.change \in Nat
      BY DEF TypeInv
    <3> QED
      BY <1>6, <3>1 DEF SendTo, TypeInv
  <2>3. handler' \in [Clients -> Handlers]
    BY <1>6 DEF SendTo, TypeInv, Handlers
  <2> QED
    BY <1>6, <2>1, <2>2, <2>3 DEF SendTo, TypeInv
<1>7. ASSUME NEW c \in Clients,
             Connect(c) \/ AddSock(c) \/ InitialPayload(c) \/ SendPayload(c) \/ Return(c)
      PROVE  TypeInv'
  BY <1>7 DEF Connect, AddSock, InitialPayload, SendPayload, Return, Enter, TypeInv, Handlers
<1> QED
  BY <1>1, <1>2, <1>3, <1>4, <1>5, <1>6, <1>7 DEF RelayNext
-----------------------------------------------------------------------------
\* Only the clean-up takes a websocket from the loop, and only a closed one.
LEMMA RegisteredStep ==
  TypeInv /\ RegisteredInv /\ [RelayNext]_relayVars => RegisteredInv'
<1> SUFFICES ASSUME TypeInv, RegisteredInv, [RelayNext]_relayVars,
                    NEW c \in Clients, handler'[c] \in {"registered", "loaded", "open"}
             PROVE  c \in socks'
  BY DEF RegisteredInv
<1>1. CASE UNCHANGED relayVars
  BY <1>1 DEF relayVars, RegisteredInv
<1>2. CASE Change \/ Broadcast \/ \E k \in offered : SendChange(k)
  BY <1>2 DEF Change, Broadcast, SendChange, RegisteredInv
<1>3. CASE CleanupSocks
  BY <1>3 DEF CleanupSocks, RegisteredInv, Closed
<1>4. ASSUME NEW d \in Clients, SendTo(d) PROVE c \in socks'
  BY <1>4 DEF SendTo, RegisteredInv, TypeInv
<1>5. ASSUME NEW d \in Clients,
             Connect(d) \/ AddSock(d) \/ InitialPayload(d) \/ SendPayload(d) \/ Return(d)
      PROVE  c \in socks'
  BY <1>5 DEF Connect, AddSock, InitialPayload, SendPayload, Return, Enter, TypeInv,
              RegisteredInv
<1> QED
  BY <1>1, <1>2, <1>3, <1>4, <1>5 DEF RelayNext
-----------------------------------------------------------------------------
\* A change is offered as soon as it is made; it leaves the channel only to be
\* sent to every client the loop has; what is not sent any more has been
\* received, or the client has gone.
LEMMA CoveredStep == IInv /\ [RelayNext]_relayVars => CoveredInv'
<1> SUFFICES ASSUME IInv, [RelayNext]_relayVars,
                    NEW c \in Clients, handler'[c] \in {"loaded", "open"},
                    NEW k \in applied'
             PROVE  k \in Accounted(c)'
  BY DEF CoveredInv
<1>a. handler[c] \in {"loaded", "open"} /\ k \in applied => k \in Accounted(c)
  BY DEF IInv, CoveredInv
<1>b. channel \in Seq(Nat)
  BY DEF IInv, TypeInv
<1>1. CASE UNCHANGED relayVars
  BY <1>1, <1>a DEF relayVars, Accounted, InCast
<1>2. CASE Change
  BY <1>2, <1>a DEF Change, Accounted, InCast
<1>3. CASE Broadcast
  <2>1. ToSet(channel) \subseteq {Head(channel)} \cup ToSet(channel')
    BY <1>3, <1>b, ChannelTail DEF Broadcast
  <2>2. handler[c] \in {"loaded", "open"} /\ k \in applied
    BY <1>3 DEF Broadcast
  <2>3. c \in Recipients
    BY <2>2 DEF IInv, RegisteredInv, Recipients, Closed
  <2>4. InCast(c)' = {Head(channel)} /\ InCast(c) = {}
    BY <1>3, <2>3 DEF Broadcast, InCast, Idle
  <2> QED
    BY <1>3, <1>a, <2>1, <2>2, <2>4 DEF Broadcast, Accounted
<1>4. CASE CleanupSocks
  BY <1>4, <1>a DEF CleanupSocks, Accounted, InCast
<1>5. ASSUME NEW n \in offered, SendChange(n) PROVE k \in Accounted(c)'
  <2>1. ToSet(Append(channel, n)) = ToSet(channel) \cup {n}
    BY <1>b, ChannelAppend
  <2> QED
    BY <1>5, <1>a, <2>1 DEF SendChange, Accounted, InCast
<1>6. ASSUME NEW d \in Clients, SendTo(d) PROVE k \in Accounted(c)'
  <2>1. handler[c] \in {"loaded", "open"} /\ k \in applied
    BY <1>6 DEF SendTo, IInv, TypeInv
  <2>2. CASE c # d
    <3>1. InCast(c)' = InCast(c)
      BY <1>6, <2>2 DEF SendTo, InCast, Idle, IInv, TypeInv
    <3>2. received'[c] = received[c]
      BY <1>6, <2>2 DEF SendTo, IInv, TypeInv
    <3> QED
      BY <1>6, <1>a, <2>1, <3>1, <3>2 DEF SendTo, Accounted
  <2>3. CASE c = d
    <3>1. received'[c] = received[c] \cup {casting.change}
      BY <1>6, <2>3 DEF SendTo, IInv, TypeInv
    <3> QED
      BY <1>6, <1>a, <2>1, <2>3, <3>1 DEF SendTo, Accounted, InCast
  <2> QED
    BY <2>2, <2>3
<1>7. ASSUME NEW d \in Clients, InitialPayload(d) PROVE k \in Accounted(c)'
  <2>1. CASE c = d
    BY <1>7, <2>1 DEF InitialPayload, Enter, Accounted, IInv, TypeInv
  <2>2. CASE c # d
    <3>1. handler'[c] = handler[c] /\ loaded'[c] = loaded[c]
      BY <1>7, <2>2 DEF InitialPayload, Enter, IInv, TypeInv
    <3> QED
      BY <1>7, <1>a, <3>1 DEF InitialPayload, Accounted, InCast
  <2> QED
    BY <2>1, <2>2
<1>8. ASSUME NEW d \in Clients, Connect(d) \/ AddSock(d) \/ SendPayload(d) \/ Return(d)
      PROVE  k \in Accounted(c)'
  <2>1. handler[c] \in {"loaded", "open"}
    BY <1>8 DEF Connect, AddSock, SendPayload, Return, Enter, IInv, TypeInv
  <2> QED
    BY <1>8, <1>a, <2>1 DEF Connect, AddSock, SendPayload, Return, Accounted, InCast
<1> QED
  BY <1>1, <1>2, <1>3, <1>4, <1>5, <1>6, <1>7, <1>8 DEF RelayNext
-----------------------------------------------------------------------------
\* The websocket of every client that has been answered is in the broadcast list,
\* and from the reading of the bootstrap on nothing is unaccounted for: whatever
\* the loop, the senders and the handlers do, in any order (websocket.go).
THEOREM Invariance == RelaySpec => []IInv
<1>1. IInv /\ [RelayNext]_relayVars => IInv'
  BY TypeStep, RegisteredStep, CoveredStep DEF IInv
<1> QED
  BY Initially, <1>1, PTL DEF RelaySpec

\* A client with its bootstrap has every change that was made, but for those
\* still on their way to it and those SendChange gave up (GetWSHandler).
THEOREM Delivery == RelaySpec => []NothingMissed
<1>1. IInv => NothingMissed
  BY DEF IInv, CoveredInv, NothingMissed, Accounted, InCast
<1> QED
  BY Invariance, <1>1, PTL
=============================================================================
