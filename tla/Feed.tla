-------------------------------- MODULE Feed --------------------------------
(***************************************************************************)
(* One reader of one scope's public feed: the rows the writer commits and  *)
(* broadcasts (compose.go record), the gateway's connections with their    *)
(* bounded queues (gateway.go handleFeed, Broadcast, writeLoop), and the   *)
(* page's reconnecting socket with its cursor (lib/fabric.ts openFeed) and *)
(* the reducer that applies the frames.                                    *)
(*                                                                         *)
(* A row is its seq.  Readers do not touch each other's queues, so one is  *)
(* enough; it has several connections because the handler of a broken one  *)
(* goes on for a while, registered and broadcast to, after the page has    *)
(* dialled again.                                                          *)
(***************************************************************************)
EXTENDS Integers, Sequences, FiniteSets, SequencesExt

CONSTANTS
  MaxConns,     \* bound: handleFeed calls under way
  SendBuffer,   \* sendBuffer, 256 in the code
  ReplayLimit,  \* rows per replay, 200 in the code
  SocketSize,   \* frames the socket holds between ws.Write and onmessage
  MaxRows,      \* bound: rows committed
  MaxFaults     \* bound: connections broken from outside

ASSUME FeedAssumption ==
  /\ MaxConns \in Nat \ {0}
  /\ SendBuffer \in Nat \ {0} /\ ReplayLimit \in Nat \ {0}
  /\ SocketSize \in Nat \ {0} /\ MaxRows \in Nat /\ MaxFaults \in Nat

Conns == 1 .. MaxConns    \* a name is used again once its call returned

NoConn == 0               \* the page has no socket

VARIABLES
  rows,     \* the scope's rows of the utterances table, seqs 1 .. rows
  sending,  \* the writer has committed the last row and not broadcast it yet
  unsent,   \* rows committed by a store call that returned an error
  conns,    \* the gateway's connections
  socket,   \* the connection the page reads from
  up,       \* that socket is not broken or closed
  wire,     \* frames written to it and not read yet
  cursor,   \* openFeed's reconnect cursor
  shown,    \* the frames the reducer applied; lastSeq is their maximum
  left,     \* the page called close()
  skipped,  \* history: rows kept from the page and not shown since, with the reason
  faults    \* history: connections broken so far

record == <<rows, sending, unsent>>

page == <<cursor, shown, left>>

link == <<socket, up, wire>>

feedVars == <<record, conns, link, page, skipped, faults>>

Reasons == {"race", "limit", "unreplayed", "overflow"}

Free == [pc |-> "free", after |-> 0, out |-> <<>>, room |-> 0, since |-> 0,
         dropped |-> FALSE]

Conn == [pc : {"free", "asked", "replayed", "registered", "open"},
         after : Nat,         \* the request's cursor
         out : Seq(Nat),      \* the outgoing queue
         room : Nat,          \* its capacity, the backlog's length on top of sendBuffer
         since : Nat,         \* later rows can only come by broadcast
         dropped : BOOLEAN]

FeedTypeOK ==
  /\ rows \in 0 .. MaxRows
  /\ sending \in BOOLEAN
  /\ unsent \subseteq 1 .. rows
  /\ conns \in [Conns -> Conn]
  /\ \A c \in Conns : Len(conns[c].out) <= conns[c].room
  /\ socket \in Conns \cup {NoConn}
  /\ up \in BOOLEAN
  /\ wire \in Seq(1 .. rows) /\ Len(wire) <= SocketSize
  /\ cursor \in 0 .. rows
  /\ shown \subseteq 1 .. rows
  /\ left \in BOOLEAN
  /\ skipped \subseteq (1 .. rows) \X Reasons
  /\ faults \in 0 .. MaxFaults

FeedInit ==
  /\ rows = 0 /\ sending = FALSE /\ unsent = {}
  /\ conns = [c \in Conns |-> Free]
  /\ socket = NoConn /\ up = FALSE /\ wire = <<>>
  /\ cursor = 0 /\ shown = {} /\ left = FALSE
  /\ skipped = {} /\ faults = 0

Published == IF sending THEN rows - 1 ELSE rows

RegisteredAtOnce(k) == k.pc # "free"    \* variant: registered before the replay

Registered(k) == k.pc \in {"registered", "open"}

Live(c) == c = socket /\ up

Viewers == Cardinality({c \in Conns : Registered(conns[c])})

Skip(ns, why) == skipped' = skipped \cup (ns \X {why})

(***************************************************************************)
(* The writer: a row is committed, then broadcast; a failed store call may *)
(* have committed all the same, and is not broadcast.  Broadcast holds the *)
(* registry's lock and never waits: a full queue drops its connection.     *)
(***************************************************************************)
Commit ==
  /\ ~sending /\ rows < MaxRows
  /\ rows' = rows + 1
  /\ \/ sending' = TRUE /\ UNCHANGED unsent
     \/ unsent' = unsent \cup {rows + 1} /\ UNCHANGED sending
  /\ UNCHANGED <<conns, link, page, skipped, faults>>

OverflowsLate(k) == Len(k.out) > k.room  \* variant: one place too many

Overflows(k) == Len(k.out) = k.room

EnqueueQuietly(k, n) ==             \* variant: a full queue loses the frame only
  IF Overflows(k) THEN k ELSE [k EXCEPT !.out = Append(@, n)]

Enqueue(k, n) ==
  IF Overflows(k) THEN [k EXCEPT !.dropped = TRUE]
                  ELSE [k EXCEPT !.out = Append(@, n)]

Broadcast ==
  /\ sending
  /\ sending' = FALSE
  /\ conns' = [c \in Conns |->
       IF Registered(conns[c]) THEN Enqueue(conns[c], rows) ELSE conns[c]]
  /\ Skip({n \in {rows} : \E c \in Conns :
            Live(c) /\ Registered(conns[c]) /\ Overflows(conns[c])}, "overflow")
  /\ UNCHANGED <<rows, unsent, link, page, faults>>

(***************************************************************************)
(* handleFeed: replay, register, upgrade, write.  The replay is a query    *)
(* outside the registry's lock; it may fail, and then the backlog is empty.*)
(***************************************************************************)
BacklogNewest(after) ==             \* variant: the newest rows up to the limit
  LET first == IF rows - ReplayLimit > after THEN rows - ReplayLimit ELSE after
  IN  [i \in 1 .. (IF rows < first THEN 0 ELSE rows - first) |-> first + i]

Backlog(after) ==
  LET last == IF rows < after + ReplayLimit THEN rows ELSE after + ReplayLimit
  IN  [i \in 1 .. (last - after) |-> after + i]

Replay(c) ==
  LET k == conns[c]
      Served(backlog, why) ==
        /\ conns' = [conns EXCEPT ![c] =
             [k EXCEPT !.pc = "replayed", !.out = @ \o backlog, !.since = rows,
                       !.room = @ + Len(backlog)]]
        /\ Skip({n \in k.after + Len(backlog) + 1 .. rows : Live(c)}, why)
  IN  /\ k.pc = "asked"
      /\ Served(Backlog(k.after), "limit") \/ Served(<<>>, "unreplayed")
      /\ UNCHANGED <<record, link, page, faults>>

Register(c) ==
  LET k == conns[c]
  IN  /\ k.pc = "replayed"
      /\ conns' = [conns EXCEPT ![c] =
           [k EXCEPT !.pc = "registered",
                     !.since = IF Published > @ THEN Published ELSE @]]
      /\ Skip({n \in (k.since + 1 .. Published) \ unsent : Live(c)}, "race")
      /\ UNCHANGED <<record, link, page, faults>>

Accept(c) ==                        \* the upgrade
  /\ conns[c].pc = "registered"
  /\ conns' = [conns EXCEPT ![c].pc = "open"]
  /\ UNCHANGED <<record, link, page, skipped, faults>>

Write(c) ==                         \* writeLoop; it may pick the queue after a drop
  /\ conns[c].pc = "open" /\ conns[c].out # <<>>
  /\ conns' = [conns EXCEPT ![c].out = Tail(@)]
  /\ \/ /\ Live(c) /\ Len(wire) < SocketSize
        /\ wire' = Append(wire, Head(conns[c].out))
     \/ /\ ~Live(c)
        /\ UNCHANGED wire
  /\ UNCHANGED <<record, socket, up, page, skipped, faults>>

EndsUndropped(c) ==                 \* variant: the drop signal is not looked at
  conns[c].pc \in {"registered", "open"} /\ ~Live(c)

Ends(c) ==                          \* dropped, or the peer is gone
  \/ conns[c].pc = "open" /\ conns[c].dropped
  \/ conns[c].pc \in {"registered", "open"} /\ ~Live(c)

StaysListed(c) ==                   \* variant: never unregistered
  /\ Ends(c)
  /\ up' = (up /\ c # socket)
  /\ UNCHANGED <<record, conns, socket, wire, page, skipped, faults>>

HandlerReturns(c) ==                \* unregister and CloseNow
  /\ Ends(c)
  /\ conns' = [conns EXCEPT ![c] = Free]
  /\ up' = (up /\ c # socket)
  /\ UNCHANGED <<record, socket, wire, page, skipped, faults>>

(***************************************************************************)
(* openFeed: connect, onmessage, onclose and its timer, close().  When a   *)
(* socket breaks the page has read some prefix of what was written to it.  *)
(***************************************************************************)
ConnectPast(c) ==                   \* variant: asks one row too far
  /\ ~left /\ socket = NoConn
  /\ conns[c] = Free /\ \A d \in 1 .. c - 1 : conns[d] # Free
  /\ conns' = [conns EXCEPT ![c] = [Free EXCEPT !.pc = "asked", !.after = cursor + 1,
                                                 !.room = SendBuffer]]
  /\ socket' = c /\ up' = TRUE
  /\ UNCHANGED <<record, wire, page, skipped, faults>>

Connect(c) ==
  /\ ~left /\ socket = NoConn
  /\ conns[c] = Free /\ \A d \in 1 .. c - 1 : conns[d] # Free
  /\ conns' = [conns EXCEPT ![c] = [Free EXCEPT !.pc = "asked", !.after = cursor,
                                                 !.room = SendBuffer]]
  /\ socket' = c /\ up' = TRUE
  /\ UNCHANGED <<record, wire, page, skipped, faults>>

NextCursor(current, seq) == IF seq > current THEN seq ELSE current

NewToPage(seq) == \A n \in shown : seq > n

OnMessage ==
  /\ wire # <<>>
  /\ wire' = Tail(wire)
  /\ cursor' = NextCursor(cursor, Head(wire))
  /\ shown' = IF NewToPage(Head(wire)) THEN shown \cup {Head(wire)} ELSE shown
  /\ skipped' = {s \in skipped : s[1] \notin shown'}
  /\ UNCHANGED <<record, conns, socket, up, left, faults>>

OnClose ==
  /\ socket # NoConn /\ ~up
  /\ socket' = NoConn /\ wire' = <<>>
  /\ UNCHANGED <<record, conns, up, page, skipped, faults>>

Close ==
  /\ ~left
  /\ left' = TRUE
  /\ socket' = NoConn /\ up' = FALSE /\ wire' = <<>>
  /\ UNCHANGED <<record, conns, cursor, shown, skipped, faults>>

Break ==                            \* the network, or a write past its timeout
  /\ up /\ faults < MaxFaults
  /\ up' = FALSE /\ faults' = faults + 1
  /\ UNCHANGED <<record, conns, socket, wire, page, skipped>>

FeedNext ==
  \/ Commit \/ Broadcast
  \/ \E c \in Conns :
       \/ Replay(c) \/ Register(c) \/ Accept(c) \/ Write(c) \/ HandlerReturns(c)
       \/ Connect(c)
  \/ OnMessage \/ OnClose \/ Close \/ Break

FeedSpec == FeedInit /\ [][FeedNext]_feedVars

(***************************************************************************)
(* Every goroutine of the gateway is scheduled, the page's event loop runs *)
(* and its timer fires.  Nothing makes rows come, sockets break or the     *)
(* page leave.                                                             *)
(***************************************************************************)
FeedFairness ==
  /\ WF_feedVars(Broadcast)
  /\ \A c \in Conns :
       /\ WF_feedVars(Replay(c)) /\ WF_feedVars(Register(c)) /\ WF_feedVars(Accept(c))
       /\ WF_feedVars(Write(c)) /\ WF_feedVars(HandlerReturns(c))
  /\ WF_feedVars(\E c \in Conns : Connect(c))
  /\ WF_feedVars(OnMessage) /\ WF_feedVars(OnClose)

FeedFairSpec == FeedSpec /\ FeedFairness
=============================================================================
