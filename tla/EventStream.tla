----------------------------- MODULE EventStream -----------------------------
(***************************************************************************)
(* The event stream from the journal to the browser (events/stream.ts,     *)
(* api/events.ts, persistence/journal.ts; web live/subscription.ts,        *)
(* stores/connection.ts): a subscription replays the journal from the      *)
(* reader's last sequence in pages and turns to live delivery; a slow      *)
(* reader is cut off; the reader reconnects from the last sequence it      *)
(* noted, and the server stops, dies and starts again.                     *)
(*                                                                         *)
(* One reader with one filter: an Event is in its scope or not.  A page is *)
(* read, delivered and, when it is short, finished in one turn of the      *)
(* event loop; commits land between turns.  Each connection has an entry   *)
(* in the stream and a handler with its response: either may end first,    *)
(* also while the entry is made and the handler does not yet hold it.      *)
(***************************************************************************)
EXTENDS Naturals, Sequences, FiniteSets

CONSTANTS
  Connections,  \* requests the reader may make, the peers of earlier ones lingering
  NoConnection,
  PageSize,     \* Events of a page (replayPage)
  Buffer,       \* frames the socket may hold unsent (maxBufferedBytes)
  MaxLog,       \* bound on the journal
  MaxCuts       \* bound on the cuts of the network and the stops of the server

ASSUME StreamAssumption ==
  /\ PageSize \in Nat \ {0} /\ Buffer \in Nat \ {0}
  /\ MaxLog \in Nat /\ MaxCuts \in Nat /\ NoConnection \notin Connections

VARIABLES
  log,       \* journal: whether each committed Event is in the filter's scope
  entry,     \* stream: the entry of each connection; before it, the sequence asked after
  response,  \* handler: none, requested, open, or ended after what was written
  wire,      \* the frames written to each connection and not read
  serving,   \* server: "up", "stopping" or "down"
  reader,    \* browser: the connection it reads, or none
  lastSeq,   \* browser: the highest sequence noted (connection store)
  seen,      \* browser: the Events handled, in order
  cuts

streamVars == <<log, entry, response, wire, serving, reader, lastSeq, seen, cuts>>

-----------------------------------------------------------------------------
Frame(kind, s) == [kind |-> kind, seq |-> s]

\* replaying: the replay waits for its next turn (draining).
NoEntry == [at |-> "none", cursor |-> 0]
Subscribed(c) == entry[c].at \in {"replaying", "live"}

\* end of the stream: the entry is out of it, and its subscriber is told.
Ended(e) == [e EXCEPT !.at = "none"]

StreamInit ==
  /\ log = <<>>
  /\ entry = [c \in Connections |-> NoEntry]
  /\ response = [c \in Connections |-> "none"]
  /\ wire = [c \in Connections |-> <<>>]
  /\ serving = "up" /\ reader = NoConnection
  /\ lastSeq = 0 /\ seen = <<>> /\ cuts = 0

-----------------------------------------------------------------------------
(***************************************************************************)
(* One turn of replay, over journal l from cursor s with the frames w      *)
(* already written.  A full page yields before the next; a short one moves *)
(* the cursor to the last committed sequence, whatever its scope, and      *)
(* announces it.  (again asks for one more read after a short page, which  *)
(* finds nothing: the short page was read in the same turn.)               *)
(***************************************************************************)
\* read: the sequences in scope after s, in order, at most one page of them.
InScope(l, s) == {n \in DOMAIN l : n > s /\ l[n]}
UpTo(S, n) == {m \in S : m <= n}
Nth(S, k) == CHOOSE n \in S : Cardinality(UpTo(S, n)) = k
Page(l, s) ==
  LET wanted == InScope(l, s)
      size == Cardinality(wanted)
  IN [k \in 1..(IF size > PageSize THEN PageSize ELSE size) |-> Nth(wanted, k)]

Full(l, s) == Len(Page(l, s)) = PageSize

\* Mutant of CursorAfter: the cursor goes to the end of the journal after every page.
CursorAtEnd(l, s) == IF s > Len(l) THEN s ELSE Len(l)

CursorAfter(l, s) ==
  IF Full(l, s) THEN Page(l, s)[PageSize] ELSE IF s > Len(l) THEN s ELSE Len(l)

FramesOf(l, s) ==
  LET events == [k \in DOMAIN Page(l, s) |-> Frame("event", Page(l, s)[k])]
  IN IF Full(l, s) THEN events ELSE Append(events, Frame("caught_up", CursorAfter(l, s)))

\* send, deliver: the frame that leaves the socket over its bound is written, and the
\* subscription ends with it.
Overflows(w, frames) == Len(w) + Len(frames) > Buffer
Written(w, frames) ==
  IF Overflows(w, frames)
  THEN w \o SubSeq(frames, 1, IF Len(w) > Buffer THEN 1 ELSE Buffer + 1 - Len(w))
  ELSE w \o frames

EntryAfter(l, s, w, frames) ==
  [at |-> IF Overflows(w, frames) THEN "none" ELSE IF Full(l, s) THEN "replaying" ELSE "live",
   cursor |-> CursorAfter(l, s)]

\* closed: the handler ends the response of an entry the stream ended.
ResponseOf(e) == IF e.at = "none" THEN "ended" ELSE "open"

\* The turn that follows a yield.
Turn(c) ==
  LET s == entry[c].cursor
  IN /\ serving # "down" /\ entry[c].at = "replaying"
     /\ wire' = [wire EXCEPT ![c] = Written(@, FramesOf(log, s))]
     /\ entry' = [entry EXCEPT ![c] = EntryAfter(log, s, wire[c], FramesOf(log, s))]
     /\ response' = [response EXCEPT ![c] = ResponseOf(entry'[c])]
     /\ UNCHANGED <<log, serving, reader, lastSeq, seen, cuts>>

\* A transaction commits its Events; the commit listener starts a replay for each live
\* subscription, whose first turn runs at once (committed).
CommitEvents(batch) ==
  LET live == {c \in Connections : entry[c].at = "live"}
      newer == log \o batch
  IN /\ serving # "down" /\ Len(newer) <= MaxLog
     /\ log' = newer
     /\ wire' = [c \in Connections |->
          IF c \in live THEN Written(wire[c], FramesOf(newer, entry[c].cursor)) ELSE wire[c]]
     /\ entry' = [c \in Connections |->
          IF c \in live
          THEN EntryAfter(newer, entry[c].cursor, wire[c], FramesOf(newer, entry[c].cursor))
          ELSE entry[c]]
     /\ response' = [c \in Connections |-> IF c \in live THEN ResponseOf(entry'[c]) ELSE response[c]]
     /\ UNCHANGED <<serving, reader, lastSeq, seen, cuts>>

-----------------------------------------------------------------------------
(***************************************************************************)
(* The reader.                                                             *)
(***************************************************************************)
\* connect: the request carries the last sequence noted.
Connect(c) ==
  /\ reader = NoConnection /\ response[c] = "none"
  /\ reader' = c
  /\ entry' = [entry EXCEPT ![c] = [at |-> "none", cursor |-> lastSeq]]
  /\ response' = [response EXCEPT ![c] = "requested"]
  /\ UNCHANGED <<log, wire, serving, lastSeq, seen, cuts>>

Notes(s) == lastSeq' = IF s > lastSeq THEN s ELSE lastSeq

\* handle: an Event is handled and its sequence noted; caught_up notes one too.
Read(c) ==
  /\ reader = c /\ wire[c] # <<>>
  /\ wire' = [wire EXCEPT ![c] = Tail(@)]
  /\ LET frame == Head(wire[c])
     IN CASE frame.kind = "event" -> seen' = Append(seen, frame.seq) /\ Notes(frame.seq)
          [] frame.kind = "caught_up" -> Notes(frame.seq) /\ UNCHANGED seen
          [] OTHER -> UNCHANGED <<lastSeq, seen>>
  /\ UNCHANGED <<log, entry, response, serving, reader, cuts>>

\* The response ended after what was written: the reader reconnects after its delay.
ReadEnd(c) ==
  /\ reader = c /\ wire[c] = <<>> /\ response[c] = "ended"
  /\ reader' = NoConnection
  /\ entry' = [entry EXCEPT ![c] = NoEntry] /\ response' = [response EXCEPT ![c] = "none"]
  /\ UNCHANGED <<log, wire, serving, lastSeq, seen, cuts>>

\* The connection breaks for the reader, with everything written and not read.
Cut(c) ==
  /\ reader = c /\ cuts < MaxCuts
  /\ reader' = NoConnection /\ cuts' = cuts + 1
  /\ UNCHANGED <<log, entry, response, wire, serving, lastSeq, seen>>

-----------------------------------------------------------------------------
(***************************************************************************)
(* The handler of a request (api/events.ts).                               *)
(***************************************************************************)
\* Mutant: the handler that was closed inside subscribe lets the handle go.
HandleDropped(e) == e

\* A handler that finds itself closed when subscribe returns closes the handle: only it
\* can end the entry then.
HandleClosed(e) == Ended(e)

\* The handler subscribes, and the first turn runs inside subscribe.  Whether the peer has
\* gone shows at once or later: before the subscription, in a write that throws, so that
\* the stream ends the entry, or in a close the stream is not told of, whose entry stays
\* until the handle is closed.
Attach(c) ==
  LET s == entry[c].cursor
      frames == <<Frame("connected", Len(log))>> \o FramesOf(log, s)
      made == EntryAfter(log, s, <<>>, frames)
  IN /\ serving = "up" /\ response[c] = "requested"
     /\ \/ /\ entry' = [entry EXCEPT ![c] = made]
           /\ response' = [response EXCEPT ![c] = ResponseOf(made)]
           /\ wire' = [wire EXCEPT ![c] = Written(<<>>, frames)]
        \/ /\ reader # c
           /\ \E left \in {NoEntry, made} : entry' = [entry EXCEPT ![c] = HandleClosed(left)]
           /\ response' = [response EXCEPT ![c] = "none"]
           /\ UNCHANGED wire
     /\ UNCHANGED <<log, serving, reader, lastSeq, seen, cuts>>

\* A stopping server refuses, one that is down takes no connection.
Refuse(c) ==
  /\ serving # "up" /\ response[c] = "requested"
  /\ response' = [response EXCEPT ![c] = "ended"]
  /\ UNCHANGED <<log, entry, wire, serving, reader, lastSeq, seen, cuts>>

\* The handler learns that the peer is gone (onClose, or a heartbeat that throws) and ends
\* the subscription it holds; a request not yet served is lost with its peer.
Closed(c) ==
  /\ reader # c /\ response[c] # "none"
  /\ entry' = [entry EXCEPT ![c] = NoEntry] /\ wire' = [wire EXCEPT ![c] = <<>>]
  /\ response' = [response EXCEPT ![c] = "none"]
  /\ UNCHANGED <<log, serving, reader, lastSeq, seen, cuts>>

-----------------------------------------------------------------------------
(***************************************************************************)
(* The server.                                                             *)
(***************************************************************************)
\* Each entry ends, and its handler ends the response.
EndAll ==
  /\ entry' = [c \in Connections |-> Ended(entry[c])]
  /\ response' = [c \in Connections |-> IF Subscribed(c) THEN "ended" ELSE response[c]]

\* Every subscription is ended while the stream stays open.
DisconnectAll ==
  /\ serving = "up" /\ cuts < MaxCuts /\ \E c \in Connections : Subscribed(c)
  /\ EndAll /\ cuts' = cuts + 1
  /\ UNCHANGED <<log, wire, serving, reader, lastSeq, seen>>

\* shutdown: requests are refused first, the stream closes last.
Stop ==
  /\ serving = "up" /\ cuts < MaxCuts
  /\ serving' = "stopping" /\ cuts' = cuts + 1
  /\ UNCHANGED <<log, entry, response, wire, reader, lastSeq, seen>>

\* close, or the death of the process: what was written may still arrive, a request is lost.
Down ==
  /\ serving = "stopping" \/ (serving = "up" /\ cuts < MaxCuts)
  /\ cuts' = IF serving = "up" THEN cuts + 1 ELSE cuts
  /\ serving' = "down"
  /\ entry' = [c \in Connections |-> Ended(entry[c])]
  /\ response' = [c \in Connections |-> IF response[c] = "none" THEN "none" ELSE "ended"]
  /\ UNCHANGED <<log, wire, reader, lastSeq, seen>>

StartServer ==
  /\ serving = "down"
  /\ serving' = "up"
  /\ UNCHANGED <<log, entry, response, wire, reader, lastSeq, seen, cuts>>

-----------------------------------------------------------------------------
\* A transaction appends one Event or two.
Batches == {<<a>> : a \in BOOLEAN} \cup {<<a, b>> : a, b \in BOOLEAN}

StreamNext ==
  \/ \E batch \in Batches : CommitEvents(batch)
  \/ \E c \in Connections :
       Turn(c) \/ Connect(c) \/ Read(c) \/ ReadEnd(c) \/ Cut(c) \/ Attach(c) \/ Refuse(c) \/ Closed(c)
  \/ DisconnectAll \/ Stop \/ Down \/ StartServer

StreamSpec == StreamInit /\ [][StreamNext]_streamVars

\* Timers, the event loop and the network go on; the reader retries without end.  A
\* commit, a cut and a stop need not happen.
Fairness ==
  /\ \A c \in Connections :
       /\ WF_streamVars(Turn(c)) /\ WF_streamVars(Attach(c) \/ Refuse(c)) /\ WF_streamVars(Closed(c))
       /\ WF_streamVars(Read(c)) /\ WF_streamVars(ReadEnd(c))
  /\ WF_streamVars(\E c \in Connections : Connect(c))
  /\ WF_streamVars(serving = "stopping" /\ Down) /\ WF_streamVars(StartServer)

FairSpec == StreamSpec /\ Fairness

-----------------------------------------------------------------------------
\* The browser is told every committed Event in scope once, in order, and in the end,
\* over pages, cuts, cut-offs and restarts.
Feed == INSTANCE EventFeed
FeedKept == Feed!Spec

\* A connection's entry and its response end together, whichever ends first and also inside
\* subscribe, before the handler holds the handle: the stream carries no entry whose handler
\* has gone, and leaves no response open that nothing feeds (api/events.ts).  What is
\* unread ends with its connection, and a slow peer holds at most its buffer and the frame
\* that crossed it.
ReleasedTogether ==
  \A c \in Connections :
    /\ Subscribed(c) <=> response[c] = "open"
    /\ response[c] \in {"none", "requested"} => wire[c] = <<>>
    /\ Len(wire[c]) <= IF Subscribed(c) THEN Buffer ELSE Buffer + 1
=============================================================================
