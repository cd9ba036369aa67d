--------------------------- MODULE FeedProperties ---------------------------
(***************************************************************************)
(* What the public feed owes its reader, and what it does not keep.        *)
(***************************************************************************)
EXTENDS Feed

Skipped(n) == \E why \in Reasons : <<n, why>> \in skipped

ToRead(c) == wire \o conns[c].out

(***************************************************************************)
(* A page never goes back: what its socket and queue still hold is in the  *)
(* order of the record and starts no earlier than the cursor.  A frame can *)
(* come twice, once replayed and once broadcast, and then next to itself   *)
(* (gateway.go:314-326, fabric-pure.mjs:19).                               *)
(***************************************************************************)
NeverBackwards ==
  \A c \in Conns : Live(c) =>
    LET s == <<cursor>> \o ToRead(c)
    IN  \A i \in 1 .. Len(s) - 1 : s[i] <= s[i + 1]

(***************************************************************************)
(* Once registered, a connection that was not dropped misses no broadcast: *)
(* each later row is shown, on the wire or queued (gateway.go:314-318).    *)
(***************************************************************************)
NoBroadcastMissed ==
  \A c \in Conns : Live(c) /\ Registered(conns[c]) /\ ~conns[c].dropped =>
    (conns[c].since + 1 .. Published) \ unsent \subseteq shown \cup ToSet(ToRead(c))

(***************************************************************************)
(* A row the cursor has passed was shown, or its store call failed, or it  *)
(* fell between a replay and the registration, beyond the replay's limit,  *)
(* to a failed replay or to a full queue.  There is no other way to lose   *)
(* one, whatever breaks and reconnects (gateway.go:298-344, fabric.ts:38). *)
(***************************************************************************)
HolesAreExplained ==
  \A n \in 1 .. cursor : n \in shown \/ n \in unsent \/ Skipped(n)

(***************************************************************************)
(* A row queued for a page that stays reaches it, however often its        *)
(* connection breaks before, unless a later replay leaves it out.          *)
(***************************************************************************)
Queued(n) == \E c \in Conns : Live(c) /\ n \in ToSet(conns[c].out)

QueuedIsShown ==
  \A n \in 1 .. MaxRows : Queued(n) ~> (n \in shown \/ Skipped(n) \/ left)

(***************************************************************************)
(* A page that stays is watching again and again: no drop, timeout or      *)
(* break leaves it deaf (fabric.ts:73-79).                                 *)
(***************************************************************************)
Watching == \E c \in Conns : Live(c) /\ conns[c].pc = "open" /\ ~conns[c].dropped

AlwaysReconnects == []<>(Watching \/ left)

(***************************************************************************)
(* A page that left is not counted for ever: the scope's ambient voices,   *)
(* which murmur only while Viewers is positive, fall silent                *)
(* (gateway.go:329, compose.go:672).                                       *)
(***************************************************************************)
ScopeSleeps == left ~> Viewers = 0
=============================================================================
