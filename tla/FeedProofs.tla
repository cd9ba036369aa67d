----------------------------- MODULE FeedProofs -----------------------------
(***************************************************************************)
(* A page never goes back and its holes are explained, whatever the sizes  *)
(* of queues, replays and sockets and however often connections break.     *)
(***************************************************************************)
EXTENDS FeedProperties, SequenceTheorems, TLAPS

(***************************************************************************)
(* A chain from a: a sequence that never goes back, starting no earlier    *)
(* than a, and that passes over rows of S only.                            *)
(***************************************************************************)
Joined(S, a, b) == a <= b /\ \A n \in Nat : a < n /\ n < b => n \in S

Before(a, s, i) == IF i = 1 THEN a ELSE s[i - 1]

Chain(S, a, s) == \A i \in 1 .. Len(s) : Joined(S, Before(a, s, i), s[i])

End(a, s) == IF s = <<>> THEN a ELSE s[Len(s)]

(***************************************************************************)
(* The inductive invariant.  Covered rows may be passed over.  What the    *)
(* page will read is a chain from its cursor over covered rows, and so are *)
(* the rows between its end and the first that a broadcast must bring.     *)
(***************************************************************************)
Covered == shown \cup unsent \cup {n \in 1 .. rows : Skipped(n)}

ConnTypeOK ==
  /\ conns \in [Conns -> Conn]
  /\ \A c \in Conns :
       conns[c].since <= rows /\ \A i \in DOMAIN conns[c].out : conns[c].out[i] <= rows

PageTypeOK ==
  /\ rows \in Nat /\ sending \in BOOLEAN /\ (sending => rows > 0)
  /\ unsent \subseteq Nat
  /\ socket \in Conns \cup {NoConn} /\ up \in BOOLEAN
  /\ wire \in Seq(Nat) /\ \A i \in DOMAIN wire : wire[i] <= rows
  /\ cursor \in 0 .. rows
  /\ shown \subseteq 0 .. cursor
  /\ skipped \subseteq Nat \X Reasons

Horizon(k) ==
  CASE k.pc = "asked" -> k.after
    [] k.pc = "replayed" -> k.since
    [] OTHER -> Published

Attached(c) ==
  LET k == conns[c]
  IN  /\ k.pc # "free"
      /\ k.pc = "asked" => k.out = <<>> /\ k.after = cursor
      /\ k.pc \in {"asked", "replayed", "registered"} => wire = <<>>
      /\ Chain(Covered, cursor, ToRead(c))
      /\ \A n \in Nat : End(cursor, ToRead(c)) < n /\ n <= Horizon(k) => n \in Covered

FeedInv ==
  /\ PageTypeOK
  /\ ConnTypeOK
  /\ socket = NoConn => ~up /\ wire = <<>>
  /\ Chain(Covered, cursor, wire)
  /\ \A n \in 1 .. cursor : n \in Covered
  /\ \A c \in Conns : Live(c) => Attached(c)

-----------------------------------------------------------------------------
LEMMA ChainMore ==
  ASSUME NEW S, NEW T, S \subseteq T, NEW a, NEW s, Chain(S, a, s)
  PROVE  Chain(T, a, s)
BY DEF Chain, Joined

LEMMA ChainAppend ==
  ASSUME NEW S, NEW a \in Nat, NEW s \in Seq(Nat), NEW n \in Nat,
         Chain(S, a, s), Joined(S, End(a, s), n)
  PROVE  /\ Append(s, n) \in Seq(Nat)
         /\ Chain(S, a, Append(s, n))
         /\ End(a, Append(s, n)) = n
<1> DEFINE t == Append(s, n)
<1>1. /\ t \in Seq(Nat) /\ t # <<>> /\ Len(t) = Len(s) + 1 /\ Len(s) \in Nat
      /\ \A i \in 1 .. Len(s) : t[i] = s[i]
      /\ t[Len(s) + 1] = n
  BY AppendProperties, LenProperties
<1>2. End(a, t) = n
  BY <1>1 DEF End
<1>3. ASSUME NEW i \in 1 .. Len(s)
      PROVE  Joined(S, Before(a, t, i), t[i])
  <2>1. Before(a, t, i) = Before(a, s, i)
    BY <1>1, i = 1 \/ i - 1 \in 1 .. Len(s) DEF Before
  <2> QED
    BY <2>1, <1>1 DEF Chain
<1>4. Before(a, t, Len(s) + 1) = End(a, s)
  <2>1. CASE s = <<>>
    BY <2>1 DEF Before, End
  <2>2. CASE s # <<>>
    <3>1. Len(s) \in 1 .. Len(s)
      BY <2>2, EmptySeq, <1>1
    <3> QED
      BY <2>2, <3>1, <1>1 DEF Before, End
  <2> QED
    BY <2>1, <2>2
<1>5. ASSUME NEW i \in 1 .. Len(t)
      PROVE  Joined(S, Before(a, t, i), t[i])
  <2>1. i \in 1 .. Len(s) \/ i = Len(s) + 1
    BY <1>1
  <2> QED
    BY <2>1, <1>1, <1>3, <1>4
<1> QED
  BY <1>1, <1>2, <1>5 DEF Chain

LEMMA ChainPrefix ==
  ASSUME NEW S, NEW a, NEW w \in Seq(Nat), NEW o \in Seq(Nat), Chain(S, a, w \o o)
  PROVE  Chain(S, a, w)
<1>1. /\ Len(w) \in Nat /\ Len(o) \in Nat /\ Len(w \o o) = Len(w) + Len(o)
      /\ \A i \in 1 .. Len(w) : (w \o o)[i] = w[i]
  BY ConcatProperties, LenProperties
<1>2. ASSUME NEW i \in 1 .. Len(w)
      PROVE  Joined(S, Before(a, w, i), w[i])
  <2>1. i \in 1 .. Len(w \o o) /\ (w \o o)[i] = w[i]
    BY <1>1
  <2>2. Before(a, w \o o, i) = Before(a, w, i)
    BY <1>1, i = 1 \/ i - 1 \in 1 .. Len(w) DEF Before
  <2> QED
    BY <2>1, <2>2 DEF Chain
<1> QED
  BY <1>2 DEF Chain

LEMMA ChainTail ==
  ASSUME NEW S, NEW a, NEW s \in Seq(Nat), s # <<>>, Chain(S, a, s)
  PROVE  /\ Joined(S, a, Head(s))
         /\ Chain(S, Head(s), Tail(s))
         /\ End(Head(s), Tail(s)) = End(a, s)
<1> DEFINE t == Tail(s)
<1>1. /\ Len(s) \in Nat \ {0} /\ t \in Seq(Nat) /\ Len(t) = Len(s) - 1
      /\ Head(s) = s[1]
      /\ \A i \in 1 .. Len(t) : t[i] = s[i + 1]
  BY HeadTailProperties, EmptySeq
<1>2. Joined(S, a, Head(s))
  BY <1>1, 1 \in 1 .. Len(s) DEF Chain, Before
<1>3. ASSUME NEW i \in 1 .. Len(t)
      PROVE  Joined(S, Before(Head(s), t, i), t[i])
  <2>1. i + 1 \in 1 .. Len(s) /\ t[i] = s[i + 1]
    BY <1>1
  <2>2. Before(Head(s), t, i) = Before(a, s, i + 1)
    BY <1>1, i = 1 \/ i - 1 \in 1 .. Len(t) DEF Before
  <2> QED
    BY <2>1, <2>2 DEF Chain
<1>4. End(Head(s), t) = End(a, s)
  <2>1. CASE t = <<>>
    <3>1. Len(t) = 0
      BY <2>1, EmptySeq
    <3>2. Len(s) = 1
      BY <3>1, <1>1
    <3> QED
      BY <2>1, <3>2, <1>1 DEF End
  <2>2. CASE t # <<>>
    <3>1. Len(t) \in 1 .. Len(t)
      BY <2>2, EmptySeq, <1>1
    <3> QED
      BY <2>2, <3>1, <1>1 DEF End
  <2> QED
    BY <2>1, <2>2
<1> QED
  BY <1>2, <1>3, <1>4 DEF Chain

(***************************************************************************)
(* A chain never goes back, and its end is no less than its start.         *)
(***************************************************************************)
LEMMA EndBounds ==
  ASSUME NEW a \in Nat, NEW m \in Nat, a <= m, NEW s \in Seq(Nat),
         \A i \in DOMAIN s : s[i] <= m
  PROVE  End(a, s) \in Nat /\ End(a, s) <= m
<1>1. CASE s = <<>>
  BY <1>1 DEF End
<1>2. CASE s # <<>>
  <2>1. Len(s) \in DOMAIN s /\ s[Len(s)] \in Nat
    BY <1>2, EmptySeq, LenProperties, ElementOfSeq
  <2> QED
    BY <1>2, <2>1 DEF End
<1> QED
  BY <1>1, <1>2

LEMMA TailBounds ==
  ASSUME NEW m, NEW s \in Seq(Nat), s # <<>>, \A i \in DOMAIN s : s[i] <= m
  PROVE  /\ Head(s) \in Nat /\ Head(s) <= m
         /\ Tail(s) \in Seq(Nat) /\ \A i \in DOMAIN Tail(s) : Tail(s)[i] <= m
<1> DEFINE t == Tail(s)
<1>1. /\ Len(s) \in Nat \ {0} /\ DOMAIN s = 1 .. Len(s) /\ Head(s) = s[1]
      /\ Head(s) \in Nat /\ t \in Seq(Nat) /\ Len(t) = Len(s) - 1
      /\ DOMAIN t = 1 .. Len(t) /\ \A i \in 1 .. Len(t) : t[i] = s[i + 1]
  BY HeadTailProperties, EmptySeq, LenProperties
<1> HIDE DEF t
<1>2. 1 \in DOMAIN s
  BY <1>1
<1>3. ASSUME NEW i \in DOMAIN t
      PROVE  t[i] <= m
  <2>1. i \in 1 .. Len(s) - 1 /\ Len(s) \in Nat
    BY <1>1
  <2>2. i + 1 \in 1 .. Len(s)
    BY <2>1
  <2>3. t[i] = s[i + 1] /\ i + 1 \in DOMAIN s
    BY <1>1, <2>2
  <2> QED
    BY <2>3
<1> QED
  BY <1>1, <1>2, <1>3 DEF t

(***************************************************************************)
(* Moving a frame from the queue to the wire, reading one off the wire and *)
(* adding one to the queue, seen on their concatenation.                   *)
(***************************************************************************)
LEMMA Resliced ==
  ASSUME NEW w \in Seq(Nat), NEW o \in Seq(Nat), o # <<>>
  PROVE  Append(w, Head(o)) \o Tail(o) = w \o o
<1> DEFINE l == Append(w, Head(o)) \o Tail(o)
           r == w \o o
<1>1. /\ Head(o) \in Nat /\ Head(o) = o[1] /\ Tail(o) \in Seq(Nat)
      /\ Len(o) \in Nat \ {0} /\ Len(Tail(o)) = Len(o) - 1
      /\ \A i \in 1 .. Len(Tail(o)) : Tail(o)[i] = o[i + 1]
  BY HeadTailProperties, EmptySeq
<1>2. /\ Append(w, Head(o)) \in Seq(Nat) /\ Len(Append(w, Head(o))) = Len(w) + 1
      /\ \A i \in 1 .. Len(w) : Append(w, Head(o))[i] = w[i]
      /\ Append(w, Head(o))[Len(w) + 1] = Head(o)
      /\ Len(w) \in Nat
  BY <1>1, AppendProperties, LenProperties
<1>3. /\ l \in Seq(Nat) /\ Len(l) = Len(w) + Len(o)
      /\ \A i \in 1 .. Len(w) + Len(o) :
           l[i] = IF i <= Len(w) + 1 THEN Append(w, Head(o))[i]
                  ELSE Tail(o)[i - (Len(w) + 1)]
  BY <1>1, <1>2, ConcatProperties
<1>4. /\ r \in Seq(Nat) /\ Len(r) = Len(w) + Len(o)
      /\ \A i \in 1 .. Len(w) + Len(o) :
           r[i] = IF i <= Len(w) THEN w[i] ELSE o[i - Len(w)]
  BY ConcatProperties
<1>5. ASSUME NEW i \in 1 .. Len(l)
      PROVE  l[i] = r[i]
  <2>1. CASE i <= Len(w)
    BY <2>1, <1>1, <1>2, <1>3, <1>4
  <2>2. CASE i = Len(w) + 1
    BY <2>2, <1>1, <1>2, <1>3, <1>4
  <2>3. CASE i > Len(w) + 1
    <3>1. /\ i - (Len(w) + 1) \in 1 .. Len(Tail(o))
          /\ i - (Len(w) + 1) + 1 = i - Len(w)
      BY <2>3, <1>1, <1>2, <1>3
    <3> QED
      BY <2>3, <3>1, <1>1, <1>2, <1>3, <1>4
  <2> QED
    <3>1. i \in Nat /\ Len(w) \in Nat
      BY <1>1, <1>2, <1>3
    <3> QED
      BY <3>1, <2>1, <2>2, <2>3
<1> QED
  BY <1>3, <1>4, <1>5, SeqEqual

LEMMA ReadOff ==
  ASSUME NEW w \in Seq(Nat), w # <<>>, NEW o \in Seq(Nat)
  PROVE  w \o o # <<>> /\ Head(w \o o) = Head(w) /\ Tail(w \o o) = Tail(w) \o o
<1>1. /\ Head(w) \in Nat /\ Head(w) = w[1] /\ Tail(w) \in Seq(Nat)
      /\ Len(w) \in Nat \ {0} /\ Len(Tail(w)) = Len(w) - 1 /\ Len(o) \in Nat
      /\ \A i \in 1 .. Len(Tail(w)) : Tail(w)[i] = w[i + 1]
  BY HeadTailProperties, EmptySeq, LenProperties
<1>2. /\ w \o o \in Seq(Nat) /\ Len(w \o o) = Len(w) + Len(o)
      /\ \A i \in 1 .. Len(w) + Len(o) :
           (w \o o)[i] = IF i <= Len(w) THEN w[i] ELSE o[i - Len(w)]
  BY ConcatProperties
<1>3. w \o o # <<>> /\ Head(w \o o) = Head(w)
  BY <1>1, <1>2, EmptySeq
<1>4. /\ Tail(w \o o) \in Seq(Nat) /\ Len(Tail(w \o o)) = Len(w) - 1 + Len(o)
      /\ \A i \in 1 .. Len(w) - 1 + Len(o) : Tail(w \o o)[i] = (w \o o)[i + 1]
  BY <1>1, <1>2, <1>3, HeadTailProperties
<1>5. /\ Tail(w) \o o \in Seq(Nat) /\ Len(Tail(w) \o o) = Len(w) - 1 + Len(o)
      /\ \A i \in 1 .. Len(w) - 1 + Len(o) :
           (Tail(w) \o o)[i] = IF i <= Len(w) - 1 THEN Tail(w)[i]
                               ELSE o[i - (Len(w) - 1)]
  BY <1>1, ConcatProperties
<1>6. ASSUME NEW i \in 1 .. Len(w) - 1 + Len(o)
      PROVE  Tail(w \o o)[i] = (Tail(w) \o o)[i]
  <2>1. i + 1 \in 1 .. Len(w) + Len(o) /\ i - (Len(w) - 1) = i + 1 - Len(w)
    BY <1>1
  <2> QED
    BY <2>1, <1>1, <1>2, <1>4, <1>5
<1> QED
  BY <1>3, <1>4, <1>5, <1>6, SeqEqual

LEMMA Enqueued ==
  ASSUME NEW w \in Seq(Nat), NEW o \in Seq(Nat), NEW n \in Nat
  PROVE  w \o Append(o, n) = Append(w \o o, n)
<1>1. <<n>> \in Seq(Nat)
  OBVIOUS
<1> QED
  BY <1>1, AppendIsConcat, ConcatAssociative, ConcatProperties

-----------------------------------------------------------------------------
LEMMA CoveredGrows ==
  ASSUME rows \in Nat, rows' \in Nat, rows <= rows',
         shown \subseteq shown', unsent \subseteq unsent',
         \A s \in skipped : s \in skipped' \/ s[1] \in shown'
  PROVE  Covered \subseteq Covered'
<1> SUFFICES ASSUME NEW n \in 1 .. rows, Skipped(n)
             PROVE  n \in Covered'
  BY DEF Covered
<1>1. PICK why \in Reasons : <<n, why>> \in skipped
  BY DEF Skipped
<1>2. <<n, why>> \in skipped' \/ n \in shown'
  BY <1>1
<1>3. n \in 1 .. rows'
  OBVIOUS
<1> QED
  BY <1>1, <1>2, <1>3 DEF Covered, Skipped

(***************************************************************************)
(* A step that leaves a live connection alone, and publishes only rows     *)
(* that are covered, keeps it attached.                                    *)
(***************************************************************************)
LEMMA AttachedStays ==
  ASSUME NEW c \in Conns, Attached(c), Covered \subseteq Covered',
         conns'[c] = conns[c], wire' = wire, cursor' = cursor,
         \A n \in Nat : n <= Published' => n <= Published \/ n \in Covered'
  PROVE  Attached(c)'
<1>1. Chain(Covered', cursor', ToRead(c)')
  BY ChainMore DEF Attached, ToRead
<1>2. ASSUME NEW n \in Nat, End(cursor, ToRead(c)) < n, n <= Horizon(conns[c])'
      PROVE  n \in Covered'
  BY <1>2 DEF Attached, Horizon
<1> QED
  BY <1>1, <1>2 DEF Attached, ToRead, Horizon

(***************************************************************************)
(* The record's side: Commit and Broadcast.                                *)
(***************************************************************************)
LEMMA CommitKeeps ==
  ASSUME FeedInv, Commit
  PROVE  FeedInv'
<1>1. /\ rows \in Nat /\ ~sending /\ rows' = rows + 1 /\ UNCHANGED <<conns, link, page, skipped>>
      /\ unsent \subseteq unsent'
  BY DEF Commit, FeedInv, PageTypeOK
<1>2. Covered \subseteq Covered'
  BY <1>1, CoveredGrows DEF page
<1>3. PageTypeOK'
  <2>1. /\ wire \in Seq(Nat) /\ \A i \in DOMAIN wire : wire[i] <= rows
        /\ \A i \in DOMAIN wire : wire[i] \in Nat
    BY ElementOfSeq, LenProperties DEF FeedInv, PageTypeOK
  <2>2. \A i \in DOMAIN wire : wire[i] <= rows'
    BY <1>1, <2>1
  <2>3. rows' \in Nat /\ sending' \in BOOLEAN /\ (sending' => rows' > 0)
        /\ unsent' \subseteq Nat
    <3>1. rows' \in Nat /\ rows' > 0 /\ rows + 1 \in Nat
      BY <1>1
    <3>2. unsent' \subseteq Nat
      BY <3>1 DEF Commit, FeedInv, PageTypeOK
    <3>3. sending' \in BOOLEAN
      BY DEF Commit, FeedInv, PageTypeOK
    <3> QED
      BY <3>1, <3>2, <3>3
  <2>4. cursor \in 0 .. rows'
    BY <1>1 DEF FeedInv, PageTypeOK
  <2> QED
    BY <1>1, <2>1, <2>2, <2>3, <2>4 DEF FeedInv, PageTypeOK, link, page
<1>4. ConnTypeOK'
  <2> SUFFICES ASSUME NEW c \in Conns
               PROVE  conns[c].since <= rows' /\ \A i \in DOMAIN conns[c].out : conns[c].out[i] <= rows'
    BY <1>1 DEF FeedInv, ConnTypeOK
  <2>1. conns[c].since \in Nat /\ conns[c].out \in Seq(Nat)
    BY DEF FeedInv, ConnTypeOK, Conn
  <2> QED
    BY <1>1, <2>1, ElementOfSeq, LenProperties DEF FeedInv, ConnTypeOK
<1>5. \A n \in Nat : n <= Published' => n <= Published \/ n \in Covered'
  BY <1>1 DEF Commit, Published, Covered
<1>6. Chain(Covered', cursor', wire') /\ \A n \in 1 .. cursor' : n \in Covered'
  BY <1>1, <1>2, ChainMore DEF FeedInv, link, page
<1>7. ASSUME NEW c \in Conns, Live(c)'
      PROVE  Attached(c)'
  BY <1>1, <1>2, <1>5, <1>7, AttachedStays DEF FeedInv, Live, link, page
<1> QED
  BY <1>1, <1>3, <1>4, <1>6, <1>7 DEF FeedInv, link

LEMMA BroadcastKeeps ==
  ASSUME FeedInv, Broadcast
  PROVE  FeedInv'
<1>1. /\ rows \in Nat \ {0} /\ sending /\ ~sending' /\ skipped \subseteq skipped'
      /\ UNCHANGED <<rows, unsent, link, page>>
      /\ conns' = [c \in Conns |->
           IF Registered(conns[c]) THEN Enqueue(conns[c], rows) ELSE conns[c]]
  BY DEF Broadcast, FeedInv, PageTypeOK, Skip
<1>2. Covered \subseteq Covered'
  BY <1>1, CoveredGrows DEF page
<1>3. PageTypeOK'
  BY <1>1 DEF Broadcast, FeedInv, PageTypeOK, link, page, Skip, Reasons
<1>4. ASSUME NEW c \in Conns
      PROVE  /\ conns'[c] \in Conn /\ conns'[c].since <= rows
             /\ \A i \in DOMAIN conns'[c].out : conns'[c].out[i] <= rows
  <2>1. /\ conns[c] \in Conn /\ conns[c].out \in Seq(Nat) /\ conns[c].since <= rows
        /\ \A i \in DOMAIN conns[c].out : conns[c].out[i] <= rows
    BY DEF FeedInv, ConnTypeOK, Conn
  <2>2. CASE conns'[c] = [conns[c] EXCEPT !.out = Append(@, rows)]
    <3> DEFINE o == Append(conns[c].out, rows)
    <3>1. o \in Seq(Nat) /\ \A i \in DOMAIN o : o[i] <= rows
      <4>1. conns[c].out \in Seq(Nat) /\ rows \in Nat
        BY <1>1, <2>1
      <4>2. /\ o \in Seq(Nat)
            /\ \A i \in DOMAIN o : (i \in DOMAIN conns[c].out /\ o[i] = conns[c].out[i]) \/ o[i] = rows
        BY <4>1
      <4> QED
        BY <2>1, <4>1, <4>2
    <3>2. conns'[c].out = o /\ conns'[c].since = conns[c].since /\ conns'[c] \in Conn
      BY <2>1, <2>2, <3>1 DEF Conn
    <3> QED
      BY <2>1, <3>1, <3>2
  <2>3. CASE conns'[c] \in {conns[c], [conns[c] EXCEPT !.dropped = TRUE]}
    BY <2>1, <2>3 DEF Conn
  <2> QED
    BY <1>1, <2>2, <2>3 DEF Enqueue
<1>5. ConnTypeOK'
  BY <1>1, <1>4 DEF ConnTypeOK
<1>6. Chain(Covered', cursor', wire') /\ \A n \in 1 .. cursor' : n \in Covered'
  BY <1>1, <1>2, ChainMore DEF FeedInv, link, page
<1>7. ASSUME NEW c \in Conns, Live(c)'
      PROVE  Attached(c)'
  <2> DEFINE k == conns[c]
             s == ToRead(c)
  <2>1. Live(c) /\ Attached(c)
    BY <1>1, <1>7 DEF FeedInv, Live, link
  <2>2. /\ k \in Conn /\ k.out \in Seq(Nat) /\ wire \in Seq(Nat) /\ s \in Seq(Nat)
        /\ cursor \in Nat /\ cursor <= rows
    BY ConcatProperties DEF FeedInv, ConnTypeOK, PageTypeOK, Conn, ToRead
  <2>3. End(cursor, s) \in Nat /\ End(cursor, s) <= rows
    <3>1. \A i \in DOMAIN s : s[i] <= rows
      <4>1. /\ Len(wire) \in Nat /\ DOMAIN wire = 1 .. Len(wire)
            /\ Len(k.out) \in Nat /\ DOMAIN k.out = 1 .. Len(k.out)
            /\ DOMAIN s = 1 .. Len(wire) + Len(k.out)
            /\ \A i \in DOMAIN s : s[i] = IF i <= Len(wire) THEN wire[i]
                                          ELSE k.out[i - Len(wire)]
        BY <2>2, ConcatProperties, LenProperties DEF ToRead
      <4>2. /\ \A i \in DOMAIN wire : wire[i] <= rows
            /\ \A i \in DOMAIN k.out : k.out[i] <= rows
        BY DEF FeedInv, PageTypeOK, ConnTypeOK
      <4> QED
        BY <4>1, <4>2
    <3> QED
      BY <1>1, <2>2, <3>1, EndBounds
  <2>4. Published = rows - 1 /\ Published' = rows
    BY <1>1 DEF Published
  <2>5. CASE ~Registered(k)
    <3>1. conns'[c] = k
      BY <1>1, <2>5
    <3>2. k.pc \in {"asked", "replayed"}
      BY <2>1, <2>2, <2>5 DEF Attached, Registered, Conn
    <3>3. Horizon(conns[c])' = Horizon(k)
      BY <3>1, <3>2 DEF Horizon
    <3>4. Chain(Covered', cursor', ToRead(c)')
      BY <1>1, <1>2, <2>1, <3>1, ChainMore DEF Attached, ToRead, link, page
    <3> QED
      BY <1>1, <1>2, <2>1, <3>1, <3>3, <3>4 DEF Attached, ToRead, link, page
  <2>6. CASE Registered(k) /\ Overflows(k)
    <3>1. /\ conns'[c] = [k EXCEPT !.dropped = TRUE]
          /\ conns'[c].out = k.out /\ conns'[c].pc = k.pc
      BY <1>1, <2>2, <2>6 DEF Enqueue, Conn
    <3>2. rows \in Covered'
      <4>1. <<rows, "overflow">> \in skipped'
        BY <2>1, <2>6 DEF Broadcast, Skip
      <4> QED
        BY <1>1, <4>1 DEF Covered, Skipped, Reasons
    <3>3. Horizon(k) = Published /\ Horizon(conns[c])' = Published'
      BY <2>6, <3>1 DEF Horizon, Registered
    <3>4. \A n \in Nat : End(cursor, s) < n /\ n <= rows => n \in Covered'
      BY <1>1, <1>2, <2>1, <2>4, <3>2, <3>3 DEF Attached
    <3>5. Chain(Covered', cursor', ToRead(c)')
      BY <1>1, <1>2, <2>1, <3>1, ChainMore DEF Attached, ToRead, link, page
    <3> QED
      BY <1>1, <2>1, <2>4, <2>6, <3>1, <3>3, <3>4, <3>5
      DEF Attached, ToRead, Registered, link, page
  <2>7. CASE Registered(k) /\ ~Overflows(k)
    <3>1. /\ conns'[c] = [k EXCEPT !.out = Append(@, rows)]
          /\ conns'[c].out = Append(k.out, rows) /\ conns'[c].pc = k.pc
      BY <1>1, <2>2, <2>7 DEF Enqueue, Conn
    <3>2. ToRead(c)' = Append(s, rows)
      <4>1. wire \o Append(k.out, rows) = Append(wire \o k.out, rows)
        BY <1>1, <2>2, Enqueued
      <4> QED
        BY <1>1, <3>1, <4>1 DEF ToRead, link
    <3>3. Horizon(k) = Published /\ Horizon(conns[c])' = Published'
      BY <2>7, <3>1 DEF Horizon, Registered
    <3>4. Joined(Covered', End(cursor, s), rows)
      BY <1>1, <1>2, <2>1, <2>3, <2>4, <3>3 DEF Attached, Joined
    <3>5. Chain(Covered', cursor, s)
      BY <1>2, <2>1, ChainMore DEF Attached
    <3>6. /\ Chain(Covered', cursor', ToRead(c)')
          /\ End(cursor, ToRead(c))' = rows
      BY <1>1, <2>2, <3>2, <3>4, <3>5, ChainAppend DEF page
    <3> QED
      BY <1>1, <2>1, <2>4, <2>7, <3>1, <3>3, <3>6 DEF Attached, Registered, link, page
  <2> QED
    BY <2>5, <2>6, <2>7
<1> QED
  BY <1>1, <1>3, <1>5, <1>6, <1>7 DEF FeedInv, link

-----------------------------------------------------------------------------
(***************************************************************************)
(* The gateway's side.  A handler's step changes its own connection and    *)
(* adds to the skipped rows; the rest of the invariant follows at once.    *)
(***************************************************************************)
LEMMA HandlerKeeps ==
  ASSUME FeedInv, NEW c \in Conns, NEW k \in Conn,
         UNCHANGED <<record, link, page>>,
         conns' = [conns EXCEPT ![c] = k],
         skipped \subseteq skipped', skipped' \subseteq Nat \X Reasons,
         k.since <= rows, \A i \in DOMAIN k.out : k.out[i] <= rows,
         Live(c) => Attached(c)'
  PROVE  FeedInv'
<1>1. /\ rows \in Nat /\ conns'[c] = k
      /\ \A d \in Conns \ {c} : conns'[d] = conns[d]
      /\ UNCHANGED <<rows, sending, unsent, socket, up, wire, cursor, shown>>
  BY DEF FeedInv, PageTypeOK, ConnTypeOK, record, link, page
<1>2. Covered \subseteq Covered'
  BY <1>1, CoveredGrows
<1>3. PageTypeOK' /\ ConnTypeOK'
  BY <1>1 DEF FeedInv, PageTypeOK, ConnTypeOK
<1>4. Chain(Covered', cursor', wire') /\ \A n \in 1 .. cursor' : n \in Covered'
  BY <1>1, <1>2, ChainMore DEF FeedInv
<1>5. ASSUME NEW d \in Conns, Live(d)'
      PROVE  Attached(d)'
  <2>1. Live(d) /\ Published' = Published
    BY <1>1, <1>5 DEF Live, Published
  <2> QED
    BY <1>1, <1>2, <2>1, AttachedStays DEF FeedInv
<1> QED
  BY <1>1, <1>3, <1>4, <1>5 DEF FeedInv

LEMMA BacklogChain ==
  ASSUME NEW S, NEW a \in Nat, rows \in Nat
  PROVE  /\ Backlog(a) \in Seq(Nat) /\ Len(Backlog(a)) \in Nat
         /\ \A i \in DOMAIN Backlog(a) : Backlog(a)[i] <= rows
         /\ Chain(S, a, Backlog(a))
         /\ End(a, Backlog(a)) = a + Len(Backlog(a))
<1> DEFINE last == IF rows < a + ReplayLimit THEN rows ELSE a + ReplayLimit
           m == IF last > a THEN last - a ELSE 0
           b == [i \in 1 .. m |-> a + i]
<1>1. last \in Nat /\ m \in Nat /\ 1 .. (last - a) = 1 .. m /\ (m > 0 => a + m <= rows)
  BY FeedAssumption
<1>2. Backlog(a) = b
  BY <1>1 DEF Backlog
<1>3. b \in Seq(Nat) /\ Len(b) = m /\ \A i \in 1 .. m : b[i] = a + i
  <2>1. b \in [1 .. m -> Nat] /\ m \in Nat
    BY <1>1
  <2>2. b \in Seq(Nat)
    BY <2>1, SeqDef
  <2> QED
    BY <2>1, <2>2, LenProperties
<1>4. \A i \in DOMAIN b : b[i] <= rows
  BY <1>1, <1>3
<1>5. ASSUME NEW i \in 1 .. m
      PROVE  Joined(S, Before(a, b, i), b[i])
  <2>0. m \in Nat /\ i \in Nat /\ \A j \in 1 .. m : b[j] = a + j
    BY <1>1, <1>3
  <2> HIDE DEF b, m
  <2>1. Before(a, b, i) = a + i - 1
    <3>1. CASE i = 1
      BY <3>1 DEF Before
    <3>2. CASE i # 1
      <4>1. i - 1 \in 1 .. m
        BY <2>0, <3>2
      <4>2. b[i - 1] = a + (i - 1)
        BY <2>0, <4>1
      <4> QED
        BY <2>0, <3>2, <4>2 DEF Before
    <3> QED
      BY <3>1, <3>2
  <2>2. b[i] = a + i
    BY <2>0
  <2>3. Joined(S, a + i - 1, a + i)
    BY <2>0 DEF Joined
  <2> QED
    BY <2>1, <2>2, <2>3
<1>6. End(a, b) = a + m
  <2>1. CASE m = 0
    BY <2>1, <1>3, EmptySeq DEF End
  <2>2. CASE m # 0
    BY <2>2, <1>1, <1>3, EmptySeq DEF End
  <2> QED
    BY <2>1, <2>2
<1> HIDE DEF b
<1> QED
  BY <1>1, <1>2, <1>3, <1>4, <1>5, <1>6 DEF Chain

LEMMA ServedKeeps ==
  ASSUME FeedInv, NEW c \in Conns, conns[c].pc = "asked", NEW b \in Seq(Nat),
         NEW why \in Reasons,
         \A i \in DOMAIN b : b[i] <= rows,
         Chain(Covered', conns[c].after, b),
         End(conns[c].after, b) = conns[c].after + Len(b),
         conns' = [conns EXCEPT ![c] =
           [conns[c] EXCEPT !.pc = "replayed", !.out = @ \o b, !.since = rows,
                            !.room = @ + Len(b)]],
         Skip({n \in conns[c].after + Len(b) + 1 .. rows : Live(c)}, why),
         UNCHANGED <<record, link, page, faults>>
  PROVE  FeedInv'
<1> DEFINE k == conns[c]
           o == k.out \o b
           room == k.room + Len(b)
           l == [k EXCEPT !.pc = "replayed", !.out = o, !.since = rows, !.room = room]
<1>1. /\ k \in Conn /\ k.out \in Seq(Nat) /\ k.room \in Nat /\ k.after \in Nat
      /\ \A i \in DOMAIN k.out : k.out[i] <= rows
      /\ rows \in Nat /\ Len(b) \in Nat
  BY LenProperties DEF FeedInv, ConnTypeOK, PageTypeOK, Conn
<1>2. o \in Seq(Nat) /\ \A i \in DOMAIN o : o[i] <= rows
  <2>1. /\ Len(k.out) \in Nat /\ DOMAIN k.out = 1 .. Len(k.out)
        /\ DOMAIN b = 1 .. Len(b)
        /\ o \in Seq(Nat) /\ DOMAIN o = 1 .. Len(k.out) + Len(b)
        /\ \A i \in 1 .. Len(k.out) + Len(b) :
             o[i] = IF i <= Len(k.out) THEN k.out[i] ELSE b[i - Len(k.out)]
    BY <1>1, ConcatProperties, LenProperties
  <2>2. ASSUME NEW i \in 1 .. Len(k.out) + Len(b)
        PROVE  o[i] <= rows
    <3>1. CASE i <= Len(k.out)
      BY <1>1, <2>1, <3>1
    <3>2. CASE i > Len(k.out)
      <4>1. i - Len(k.out) \in DOMAIN b
        <5>1. \A p, q \in Nat : \A j \in 1 .. p + q : j > p => j - p \in 1 .. q
          OBVIOUS
        <5>2. Len(k.out) \in Nat /\ Len(b) \in Nat /\ DOMAIN b = 1 .. Len(b)
          BY <1>1, <2>1
        <5> QED
          BY <3>2, <5>1, <5>2
      <4> HIDE DEF o
      <4> QED
        BY <2>1, <3>2, <4>1
    <3> QED
      BY <2>1, <3>1, <3>2
  <2> HIDE DEF o
  <2> QED
    BY <2>1, <2>2
<1>3. room \in Nat
  BY <1>1
<1>4. conns' = [conns EXCEPT ![c] = l] /\ conns'[c] = l
  BY DEF FeedInv, ConnTypeOK
<1> HIDE DEF o, room
<1>5. l \in Conn /\ l.out = o /\ l.since = rows /\ l.pc = "replayed"
  BY <1>1, <1>2, <1>3 DEF Conn
<1>6. skipped \subseteq skipped' /\ skipped' \subseteq Nat \X Reasons
  BY <1>1 DEF Skip, FeedInv, PageTypeOK
<1>7. ASSUME Live(c)
      PROVE  Attached(c)'
  <2>1. k.out = <<>> /\ wire = <<>> /\ k.after = cursor
    BY <1>7 DEF FeedInv, Attached
  <2>2. UNCHANGED <<wire, cursor, rows, shown, unsent>>
    BY DEF record, link, page
  <2>3. ToRead(c)' = b
    BY <1>4, <1>5, <2>1, <2>2, ConcatEmptySeq DEF ToRead, o
  <2>4. ASSUME NEW n \in Nat, cursor + Len(b) < n, n <= rows
        PROVE  n \in Covered'
    <3>1. cursor \in Nat
      BY DEF FeedInv, PageTypeOK
    <3>2. n \in cursor + Len(b) + 1 .. rows
      BY <1>1, <2>4, <3>1
    <3>3. <<n, why>> \in skipped'
      BY <1>7, <2>1, <3>2 DEF Skip
    <3>4. n \in 1 .. rows'
      BY <1>1, <2>2, <2>4, <3>1
    <3> QED
      BY <3>3, <3>4 DEF Covered, Skipped
  <2> HIDE DEF l
  <2>5. Horizon(conns[c])' = rows
    BY <1>4, <1>5 DEF Horizon
  <2>6. \A n \in Nat : End(cursor, ToRead(c))' < n /\ n <= rows => n \in Covered'
    <3>1. End(cursor, ToRead(c))' = cursor + Len(b)
      BY <2>1, <2>2, <2>3
    <3> QED
      BY <2>4, <3>1
  <2>7. conns'[c].pc = "replayed" /\ wire' = <<>> /\ Chain(Covered, cursor, ToRead(c))'
    BY <1>4, <1>5, <2>1, <2>2, <2>3
  <2> QED
    BY <2>5, <2>6, <2>7 DEF Attached
<1> QED
  <2> HIDE DEF l
  <2>1. l.since <= rows /\ \A i \in DOMAIN l.out : l.out[i] <= rows
    BY <1>1, <1>2, <1>5
  <2>2. UNCHANGED <<record, link, page>>
    OBVIOUS
  <2> QED
    BY <1>4, <1>5, <1>6, <1>7, <2>1, <2>2, HandlerKeeps

LEMMA ReplayKeeps ==
  ASSUME FeedInv, NEW c \in Conns, Replay(c)
  PROVE  FeedInv'
<1>1. conns[c].after \in Nat /\ rows \in Nat
  BY DEF FeedInv, ConnTypeOK, PageTypeOK, Conn
<1>2. PICK b \in {Backlog(conns[c].after), <<>>}, why \in {"limit", "unreplayed"} :
        /\ conns[c].pc = "asked"
        /\ conns' = [conns EXCEPT ![c] =
             [conns[c] EXCEPT !.pc = "replayed", !.out = @ \o b, !.since = rows,
                              !.room = @ + Len(b)]]
        /\ Skip({n \in conns[c].after + Len(b) + 1 .. rows : Live(c)}, why)
        /\ UNCHANGED <<record, link, page, faults>>
  BY DEF Replay
<1>3. /\ b \in Seq(Nat) /\ \A i \in DOMAIN b : b[i] <= rows
      /\ Chain(Covered', conns[c].after, b)
      /\ End(conns[c].after, b) = conns[c].after + Len(b)
  <2>1. CASE b = Backlog(conns[c].after)
    BY <1>1, <2>1, BacklogChain
  <2>2. CASE b = <<>>
    BY <1>1, <2>2, EmptySeq DEF Chain, End
  <2> QED
    BY <1>2, <2>1, <2>2
<1> QED
  BY <1>2, <1>3, ServedKeeps DEF Reasons

LEMMA RegisterKeeps ==
  ASSUME FeedInv, NEW c \in Conns, Register(c)
  PROVE  FeedInv'
<1> DEFINE k == conns[c]
           since == IF Published > k.since THEN Published ELSE k.since
           l == [k EXCEPT !.pc = "registered", !.since = since]
<1>1. /\ k \in Conn /\ k.since \in Nat /\ k.since <= rows /\ k.pc = "replayed"
      /\ \A i \in DOMAIN k.out : k.out[i] <= rows
      /\ rows \in Nat /\ Published \in Nat /\ Published <= rows
      /\ conns' = [conns EXCEPT ![c] = l]
      /\ UNCHANGED <<record, link, page>>
  BY DEF FeedInv, ConnTypeOK, PageTypeOK, Conn, Register, Published
<1>2. /\ l \in Conn /\ l.out = k.out /\ l.since <= rows /\ l.pc = "registered"
      /\ conns'[c] = l
  BY <1>1 DEF Conn, FeedInv, ConnTypeOK
<1>3. skipped \subseteq skipped' /\ skipped' \subseteq Nat \X Reasons
  BY <1>1 DEF Register, Skip, FeedInv, PageTypeOK, Reasons
<1>4. ASSUME Live(c)
      PROVE  Attached(c)'
  <2>1. UNCHANGED <<wire, cursor, rows, shown, unsent, sending>> /\ Published' = Published
    BY <1>1 DEF record, link, page, Published
  <2>2. Covered \subseteq Covered'
    BY <1>1, <1>3, <2>1, CoveredGrows
  <2>3. ToRead(c)' = ToRead(c) /\ Attached(c) /\ Horizon(k) = k.since
        /\ Horizon(conns[c])' = Published
    BY <1>1, <1>2, <1>4, <2>1 DEF ToRead, FeedInv, Horizon
  <2>4. Chain(Covered', cursor', ToRead(c)')
    BY <2>1, <2>2, <2>3, ChainMore DEF Attached
  <2>5. ASSUME NEW n \in Nat, End(cursor, ToRead(c)) < n, n <= Published
        PROVE  n \in Covered'
    <3>1. CASE n <= k.since
      BY <2>2, <2>3, <2>5, <3>1 DEF Attached
    <3>2. CASE n > k.since /\ n \in unsent
      BY <2>1, <3>2 DEF Covered
    <3>3. CASE n > k.since /\ n \notin unsent
      <4>1. <<n, "race">> \in skipped'
        BY <1>1, <1>4, <2>5, <3>3 DEF Register, Skip
      <4>2. n \in 1 .. rows'
        BY <1>1, <2>1, <2>5, <3>3
      <4> QED
        BY <4>1, <4>2 DEF Covered, Skipped, Reasons
    <3> QED
      BY <1>1, <3>1, <3>2, <3>3
  <2> QED
    BY <1>1, <1>2, <2>1, <2>3, <2>4, <2>5 DEF Attached
<1> QED
  BY <1>1, <1>2, <1>3, <1>4, HandlerKeeps

LEMMA AcceptKeeps ==
  ASSUME FeedInv, NEW c \in Conns, Accept(c)
  PROVE  FeedInv'
<1> DEFINE k == conns[c]
           l == [k EXCEPT !.pc = "open"]
<1>1. /\ k \in Conn /\ k.since <= rows /\ k.pc = "registered"
      /\ \A i \in DOMAIN k.out : k.out[i] <= rows
      /\ rows \in Nat
      /\ conns' = [conns EXCEPT ![c] = l]
      /\ skipped' = skipped /\ skipped \subseteq Nat \X Reasons
      /\ UNCHANGED <<record, link, page>>
  BY DEF FeedInv, ConnTypeOK, PageTypeOK, Accept
<1>2. /\ l \in Conn /\ l.out = k.out /\ l.since = k.since /\ l.pc = "open"
      /\ conns'[c] = l
  BY <1>1 DEF Conn, FeedInv, ConnTypeOK
<1>3. ASSUME Live(c)
      PROVE  Attached(c)'
  <2>1. UNCHANGED <<wire, cursor, rows, shown, unsent>> /\ Published' = Published
    BY <1>1 DEF record, link, page, Published
  <2>2. Covered' = Covered
    BY <1>1, <2>1 DEF Covered, Skipped
  <2>3. Attached(c) /\ Horizon(k) = Published /\ Horizon(conns[c])' = Published
    BY <1>1, <1>2, <1>3, <2>1 DEF FeedInv, Horizon
  <2>4. ToRead(c)' = ToRead(c)
    BY <1>2, <2>1 DEF ToRead
  <2> QED
    BY <1>2, <2>1, <2>2, <2>3, <2>4 DEF Attached
<1> QED
  BY <1>1, <1>2, <1>3, HandlerKeeps

LEMMA WriteKeeps ==
  ASSUME FeedInv, NEW c \in Conns, Write(c)
  PROVE  FeedInv'
<1> DEFINE k == conns[c]
           h == Head(k.out)
           o == Tail(k.out)
           l == [k EXCEPT !.out = o]
<1>1. /\ k \in Conn /\ k.out \in Seq(Nat) /\ k.out # <<>> /\ k.pc = "open"
      /\ k.since <= rows /\ \A i \in DOMAIN k.out : k.out[i] <= rows
      /\ rows \in Nat /\ wire \in Seq(Nat) /\ \A i \in DOMAIN wire : wire[i] <= rows
      /\ conns' = [conns EXCEPT ![c] = l]
      /\ skipped' = skipped /\ skipped \subseteq Nat \X Reasons
      /\ UNCHANGED <<record, socket, up, page>>
  BY DEF FeedInv, ConnTypeOK, PageTypeOK, Write, Conn
<1>2. /\ h \in Nat /\ h <= rows
      /\ o \in Seq(Nat) /\ \A i \in DOMAIN o : o[i] <= rows
  BY <1>1, TailBounds
<1> HIDE DEF o, h
<1>3. l \in Conn /\ l.out = o /\ l.since = k.since /\ l.pc = "open" /\ conns'[c] = l
  BY <1>1, <1>2 DEF Conn, FeedInv, ConnTypeOK
<1>4. CASE ~Live(c)
  <2>1. UNCHANGED <<record, link, page>>
    BY <1>1, <1>4 DEF Write, link
  <2> HIDE DEF l
  <2> QED
    BY <1>1, <1>2, <1>3, <1>4, <2>1, HandlerKeeps
<1>5. CASE Live(c)
  <2> DEFINE w == Append(wire, h)
  <2>1. wire' = w /\ Live(c)' /\ Attached(c) /\ \A d \in Conns : Live(d)' => d = c
    BY <1>1, <1>5 DEF Write, Live, FeedInv, h
  <2>2. w \in Seq(Nat) /\ \A i \in DOMAIN w : w[i] <= rows
    BY <1>1, <1>2, AppendProperties, LenProperties
  <2>3. w \o o = ToRead(c)
    BY <1>1, Resliced DEF ToRead, o, h
  <2> HIDE DEF w
  <2>4. /\ UNCHANGED <<cursor, rows, shown, unsent, sending, socket, up, skipped>>
        /\ Published' = Published
    BY <1>1 DEF record, page, Published
  <2>5. Covered' = Covered
    BY <2>4 DEF Covered, Skipped
  <2>6. Chain(Covered, cursor, w)
    BY <1>2, <2>1, <2>2, <2>3, ChainPrefix DEF Attached
  <2>7. PageTypeOK' /\ ConnTypeOK'
    BY <1>1, <1>2, <1>3, <2>1, <2>2, <2>4 DEF FeedInv, PageTypeOK, ConnTypeOK
  <2>8. Attached(c)'
    <3>1. ToRead(c)' = ToRead(c)
      BY <1>3, <2>1, <2>3 DEF ToRead
    <3>2. Horizon(k) = Horizon(conns[c])'
      BY <1>1, <1>3, <2>4 DEF Horizon
    <3> QED
      BY <1>3, <2>1, <2>4, <2>5, <3>1, <3>2 DEF Attached
  <2>9. socket # NoConn
    BY <1>5 DEF Live, Conns, NoConn
  <2> QED
    BY <2>1, <2>4, <2>5, <2>6, <2>7, <2>8, <2>9 DEF FeedInv
<1> QED
  BY <1>4, <1>5

LEMMA ReturnKeeps ==
  ASSUME FeedInv, NEW c \in Conns, HandlerReturns(c)
  PROVE  FeedInv'
<1>1. /\ conns' = [conns EXCEPT ![c] = Free]
      /\ up' = (up /\ c # socket)
      /\ UNCHANGED <<record, socket, wire, page, skipped>>
  BY DEF HandlerReturns
<1>2. /\ UNCHANGED <<cursor, rows, shown, unsent, sending>>
      /\ Published' = Published /\ Covered' = Covered
  BY <1>1 DEF record, page, Published, Covered, Skipped
<1>3. Free \in Conn /\ Free.since = 0 /\ Free.out = <<>>
  BY DEF Free, Conn
<1>4. PageTypeOK'
  BY <1>1, <1>2 DEF FeedInv, PageTypeOK
<1>5. ConnTypeOK'
  <2> SUFFICES ASSUME NEW d \in Conns
               PROVE  /\ conns'[d] \in Conn /\ conns'[d].since <= rows
                      /\ \A i \in DOMAIN conns'[d].out : conns'[d].out[i] <= rows
    BY <1>1, <1>2 DEF FeedInv, ConnTypeOK
  <2>1. CASE d = c
    BY <1>1, <1>3, <2>1 DEF FeedInv, ConnTypeOK, PageTypeOK
  <2>2. CASE d # c
    BY <1>1, <2>2 DEF FeedInv, ConnTypeOK
  <2> QED
    BY <2>1, <2>2
<1>6. ASSUME NEW d \in Conns, Live(d)'
      PROVE  Attached(d)'
  <2>1. Live(d) /\ d # c /\ conns'[d] = conns[d]
    BY <1>1, <1>6 DEF Live, FeedInv, ConnTypeOK
  <2> QED
    BY <1>1, <1>2, <2>1, AttachedStays DEF FeedInv
<1> QED
  BY <1>1, <1>2, <1>4, <1>5, <1>6 DEF FeedInv

(***************************************************************************)
(* The page's side.                                                        *)
(***************************************************************************)
LEMMA ConnectKeeps ==
  ASSUME FeedInv, NEW c \in Conns, Connect(c)
  PROVE  FeedInv'
<1> DEFINE l == [Free EXCEPT !.pc = "asked", !.after = cursor, !.room = SendBuffer]
<1>1. /\ socket = NoConn /\ conns' = [conns EXCEPT ![c] = l]
      /\ socket' = c /\ up' = TRUE /\ wire = <<>>
      /\ UNCHANGED <<record, wire, page, skipped>>
  BY DEF Connect, FeedInv
<1>2. /\ UNCHANGED <<cursor, rows, shown, unsent, sending>>
      /\ Covered' = Covered /\ cursor \in Nat /\ rows \in Nat
  BY <1>1 DEF record, page, Covered, Skipped, FeedInv, PageTypeOK
<1>3. /\ l \in Conn /\ l.since = 0 /\ l.out = <<>> /\ l.pc = "asked" /\ l.after = cursor
      /\ conns'[c] = l
  <2>1. <<>> \in Seq(Nat)
    BY EmptySeq
  <2>2. conns'[c] = l
    BY <1>1 DEF FeedInv, ConnTypeOK
  <2>3. l \in Conn
    BY <1>2, <2>1, FeedAssumption DEF Free, Conn
  <2> QED
    BY <2>2, <2>3 DEF Free
<1> HIDE DEF l
<1>4. PageTypeOK' /\ c # NoConn
  BY <1>1, <1>2 DEF FeedInv, PageTypeOK, Conns, NoConn
<1>5. ConnTypeOK'
  <2> SUFFICES ASSUME NEW d \in Conns
               PROVE  /\ conns'[d] \in Conn /\ conns'[d].since <= rows
                      /\ \A i \in DOMAIN conns'[d].out : conns'[d].out[i] <= rows
    BY <1>1, <1>2 DEF FeedInv, ConnTypeOK
  <2>1. CASE d = c
    BY <1>2, <1>3, <2>1
  <2>2. CASE d # c
    BY <1>1, <2>2 DEF FeedInv, ConnTypeOK
  <2> QED
    BY <2>1, <2>2
<1>6. Attached(c)'
  <2>1. ToRead(c)' = <<>>
    BY <1>1, <1>3 DEF ToRead
  <2>2. Chain(Covered', cursor', <<>>) /\ End(cursor', <<>>) = cursor
    BY <1>2, EmptySeq DEF Chain, End
  <2>3. Horizon(conns[c])' = cursor
    BY <1>3 DEF Horizon
  <2> QED
    BY <1>1, <1>2, <1>3, <2>1, <2>2, <2>3 DEF Attached
<1> QED
  BY <1>1, <1>2, <1>4, <1>5, <1>6 DEF FeedInv, Live

LEMMA OnMessageKeeps ==
  ASSUME FeedInv, OnMessage
  PROVE  FeedInv'
<1> DEFINE h == Head(wire)
           w == Tail(wire)
<1>1. /\ wire \in Seq(Nat) /\ wire # <<>> /\ \A i \in DOMAIN wire : wire[i] <= rows
      /\ rows \in Nat /\ cursor \in Nat /\ shown \subseteq 0 .. cursor
      /\ wire' = w /\ cursor' = NextCursor(cursor, h)
      /\ shown' = IF NewToPage(h) THEN shown \cup {h} ELSE shown
      /\ skipped' = {s \in skipped : s[1] \notin shown'}
      /\ UNCHANGED <<record, conns, socket, up>>
  BY DEF OnMessage, FeedInv, PageTypeOK
<1>2. /\ h \in Nat /\ h <= rows
      /\ w \in Seq(Nat) /\ \A i \in DOMAIN w : w[i] <= rows
  BY <1>1, TailBounds
<1>3. /\ UNCHANGED <<rows, sending, unsent, conns, socket, up>>
      /\ Published' = Published
  BY <1>1 DEF record, Published
<1>4. Covered \subseteq Covered'
  BY <1>1, <1>3, CoveredGrows
<1>5. Joined(Covered, cursor, h) /\ Chain(Covered, h, w)
  BY <1>1, ChainTail DEF FeedInv
<1>6. ASSUME NEW c \in Conns, Live(c)
      PROVE  /\ conns[c].pc = "open" /\ conns[c].out \in Seq(Nat)
             /\ w \o conns[c].out = Tail(ToRead(c))
             /\ Chain(Covered, h, Tail(ToRead(c)))
             /\ End(h, Tail(ToRead(c))) = End(cursor, ToRead(c))
  <2>1. Attached(c) /\ conns[c].out \in Seq(Nat) /\ conns[c].pc = "open"
    BY <1>1, <1>6 DEF FeedInv, Attached, ConnTypeOK, Conn
  <2>2. /\ ToRead(c) \in Seq(Nat) /\ ToRead(c) # <<>> /\ Head(ToRead(c)) = h
        /\ Tail(ToRead(c)) = w \o conns[c].out
    BY <1>1, <2>1, ReadOff, ConcatProperties DEF ToRead
  <2>3. /\ Chain(Covered, Head(ToRead(c)), Tail(ToRead(c)))
        /\ End(Head(ToRead(c)), Tail(ToRead(c))) = End(cursor, ToRead(c))
    BY <2>1, <2>2, ChainTail DEF Attached
  <2> QED
    BY <2>1, <2>2, <2>3
<1> HIDE DEF w, h
<1>7. cursor' = h /\ cursor <= h
  BY <1>1, <1>2, <1>5 DEF NextCursor, Joined
<1>8. PageTypeOK' /\ ConnTypeOK'
  <2>1. shown' \subseteq 0 .. h
    BY <1>1, <1>2, <1>7
  <2>2. skipped' \subseteq Nat \X Reasons
    BY <1>1 DEF FeedInv, PageTypeOK
  <2> QED
    BY <1>1, <1>2, <1>3, <1>7, <2>1, <2>2 DEF FeedInv, PageTypeOK, ConnTypeOK
<1>9. ASSUME NEW n \in 1 .. h
      PROVE  n \in Covered'
  <2>1. CASE n <= cursor
    BY <1>1, <1>2, <1>4, <1>9, <2>1 DEF FeedInv
  <2>2. CASE cursor < n /\ n < h
    BY <1>1, <1>2, <1>4, <1>5, <1>9, <2>2 DEF Joined
  <2>3. CASE n = h
    <3>1. h \in shown'
      <4>1. CASE NewToPage(h)
        BY <1>1, <4>1
      <4>2. CASE ~NewToPage(h)
        <5>1. PICK m \in shown : ~(h > m)
          BY <4>2 DEF NewToPage
        <5>2. m = h
          BY <1>1, <1>2, <1>7, <5>1
        <5> QED
          BY <1>1, <4>2, <5>2
      <4> QED
        BY <4>1, <4>2
    <3> QED
      BY <2>3, <3>1 DEF Covered
  <2> QED
    BY <1>1, <1>2, <1>9, <2>1, <2>2, <2>3
<1>10. ASSUME NEW c \in Conns, Live(c)'
       PROVE  Attached(c)'
  <2>1. Live(c) /\ Attached(c) /\ conns'[c] = conns[c]
    BY <1>3, <1>10 DEF Live, FeedInv
  <2>2. /\ conns[c].pc = "open" /\ ToRead(c)' = Tail(ToRead(c))
        /\ Chain(Covered', cursor', ToRead(c)')
        /\ End(cursor, ToRead(c))' = End(cursor, ToRead(c))
    <3>1. conns[c].pc = "open" /\ ToRead(c)' = Tail(ToRead(c))
      BY <1>1, <1>3, <1>6, <2>1 DEF ToRead
    <3>2. Chain(Covered', h, Tail(ToRead(c)))
      BY <1>4, <1>6, <2>1, ChainMore
    <3>3. End(h, Tail(ToRead(c))) = End(cursor, ToRead(c))
      BY <1>6, <2>1
    <3>4. End(cursor, ToRead(c))' = End(h, Tail(ToRead(c)))
      BY <1>7, <3>1 DEF End
    <3> QED
      BY <1>7, <3>1, <3>2, <3>3, <3>4
  <2>3. Horizon(conns[c])' = Horizon(conns[c])
    BY <1>3, <2>1, <2>2 DEF Horizon
  <2> QED
    BY <1>4, <2>1, <2>2, <2>3 DEF Attached
<1>11. Chain(Covered', cursor', wire')
  BY <1>1, <1>4, <1>5, <1>7, ChainMore
<1>12. socket # NoConn
  BY <1>1 DEF FeedInv
<1> QED
  BY <1>3, <1>7, <1>8, <1>9, <1>10, <1>11, <1>12 DEF FeedInv

LEMMA ClosedKeeps ==
  ASSUME FeedInv, UNCHANGED <<record, conns, cursor, shown, skipped>>,
         up' = FALSE,
         \/ socket' = NoConn /\ wire' = <<>>
         \/ UNCHANGED <<socket, wire>> /\ socket # NoConn
  PROVE  FeedInv'
<1>1. /\ UNCHANGED <<rows, sending, unsent>> /\ Covered' = Covered
  BY DEF record, Covered, Skipped
<1>2. PageTypeOK' /\ ConnTypeOK'
  <2>1. wire' \in Seq(Nat) /\ \A i \in DOMAIN wire' : wire'[i] <= rows
    <3>1. CASE wire' = <<>>
      BY <3>1
    <3>2. CASE wire' = wire
      BY <3>2 DEF FeedInv, PageTypeOK
    <3> QED
      BY <3>1, <3>2
  <2>2. socket' \in Conns \cup {NoConn} /\ up' \in BOOLEAN
    BY DEF FeedInv, PageTypeOK
  <2> QED
    BY <1>1, <2>1, <2>2 DEF FeedInv, PageTypeOK, ConnTypeOK
<1>3. Chain(Covered', cursor', wire')
  <2>1. CASE wire' = <<>>
    BY <2>1, EmptySeq DEF Chain
  <2>2. CASE wire' = wire
    BY <1>1, <2>2 DEF FeedInv
  <2> QED
    BY <2>1, <2>2
<1>4. \A c \in Conns : ~Live(c)'
  BY DEF Live
<1> QED
  BY <1>1, <1>2, <1>3, <1>4 DEF FeedInv

-----------------------------------------------------------------------------
(***************************************************************************)
(* The invariant holds of every behaviour of the feed (gateway.go:298-344, *)
(* fabric.ts:38-92, reducer.mjs:296-299).                                  *)
(***************************************************************************)
THEOREM FeedInvariant == FeedSpec => []FeedInv
<1>1. FeedInit => FeedInv
  <2> SUFFICES ASSUME FeedInit
               PROVE  FeedInv
    OBVIOUS
  <2>1. PageTypeOK
    <3>1. wire \in Seq(Nat) /\ \A i \in DOMAIN wire : wire[i] <= rows
      BY DEF FeedInit
    <3>2. up \in BOOLEAN /\ sending \in BOOLEAN /\ ~sending
      BY DEF FeedInit
    <3>3. rows = 0 /\ socket \in Conns \cup {NoConn} /\ cursor \in 0 .. rows
      BY DEF FeedInit
    <3> QED
      BY <3>1, <3>2, <3>3 DEF FeedInit, PageTypeOK
  <2>2. ConnTypeOK
    <3>1. Free \in Conn /\ Free.since = 0 /\ Free.out = <<>>
      BY DEF Free, Conn
    <3> QED
      BY <3>1, EmptySeq, LenProperties DEF FeedInit, ConnTypeOK
  <2>3. Chain(Covered, cursor, wire)
    BY EmptySeq DEF FeedInit, Chain
  <2> QED
    BY <2>1, <2>2, <2>3 DEF FeedInit, FeedInv, Live
<1>2. FeedInv /\ [FeedNext]_feedVars => FeedInv'
  <2> SUFFICES ASSUME FeedInv, [FeedNext]_feedVars
               PROVE  FeedInv'
    OBVIOUS
  <2>1. CASE Commit
    BY <2>1, CommitKeeps
  <2>2. CASE Broadcast
    BY <2>2, BroadcastKeeps
  <2>3. ASSUME NEW c \in Conns, Replay(c)
        PROVE  FeedInv'
    BY <2>3, ReplayKeeps
  <2>4. ASSUME NEW c \in Conns, Register(c)
        PROVE  FeedInv'
    BY <2>4, RegisterKeeps
  <2>5. ASSUME NEW c \in Conns, Accept(c)
        PROVE  FeedInv'
    BY <2>5, AcceptKeeps
  <2>6. ASSUME NEW c \in Conns, Write(c)
        PROVE  FeedInv'
    BY <2>6, WriteKeeps
  <2>7. ASSUME NEW c \in Conns, HandlerReturns(c)
        PROVE  FeedInv'
    BY <2>7, ReturnKeeps
  <2>8. ASSUME NEW c \in Conns, Connect(c)
        PROVE  FeedInv'
    BY <2>8, ConnectKeeps
  <2>9. CASE OnMessage
    BY <2>9, OnMessageKeeps
  <2>10. CASE OnClose
    BY <2>10, ClosedKeeps DEF OnClose, page, FeedInv, PageTypeOK
  <2>11. CASE Close
    BY <2>11, ClosedKeeps DEF Close
  <2>12. CASE Break
    BY <2>12, ClosedKeeps DEF Break, page, FeedInv
  <2>13. CASE UNCHANGED feedVars
    BY <2>13 DEF feedVars, record, link, page, FeedInv, PageTypeOK, ConnTypeOK, Covered,
                 Skipped, Live, Attached, ToRead, Horizon, Published
  <2> QED
    BY <2>1, <2>2, <2>3, <2>4, <2>5, <2>6, <2>7, <2>8, <2>9, <2>10, <2>11, <2>12, <2>13
    DEF FeedNext
<1> QED
  BY <1>1, <1>2, PTL DEF FeedSpec

(***************************************************************************)
(* A page never goes back: what its socket and its queue hold is in the    *)
(* order of the record, from its cursor on, however many connections it    *)
(* has been through (gateway.go:314-326, fabric-pure.mjs:19).              *)
(***************************************************************************)
THEOREM PageNeverGoesBack == FeedSpec => []NeverBackwards
<1>1. FeedInv => NeverBackwards
  <2> SUFFICES ASSUME FeedInv, NEW c \in Conns, Live(c),
                      NEW i \in 1 .. Len(<<cursor>> \o ToRead(c)) - 1
               PROVE  (<<cursor>> \o ToRead(c))[i] <= (<<cursor>> \o ToRead(c))[i + 1]
    BY DEF NeverBackwards
  <2> DEFINE t == ToRead(c)
             s == <<cursor>> \o t
  <2>1. cursor \in Nat /\ <<cursor>> \in Seq(Nat) /\ t \in Seq(Nat) /\ Len(t) \in Nat
    BY ConcatProperties, LenProperties DEF FeedInv, PageTypeOK, ConnTypeOK, Conn, ToRead
  <2>2. Chain(Covered, cursor, t)
    BY DEF FeedInv, Attached
  <2> HIDE DEF t
  <2>3. /\ Len(s) = 1 + Len(t)
        /\ \A j \in 1 .. 1 + Len(t) : s[j] = IF j <= 1 THEN cursor ELSE t[j - 1]
    BY <2>1, ConcatProperties
  <2>4. i \in 1 .. Len(t)
    BY <2>1, <2>3 DEF t
  <2> HIDE DEF s
  <2>5. s[i + 1] = t[i] /\ s[i] = Before(cursor, t, i)
    BY <2>1, <2>3, <2>4 DEF Before
  <2>6. s[i] <= s[i + 1]
    BY <2>2, <2>4, <2>5 DEF Chain, Joined
  <2> QED
    BY <2>6 DEF s, t
<1> QED
  BY <1>1, FeedInvariant, PTL

(***************************************************************************)
(* A row the page's cursor has passed was shown, or its store call failed, *)
(* or it fell to one of the four named ways to lose it                     *)
(* (gateway.go:298-344, fabric.ts:38).                                     *)
(***************************************************************************)
THEOREM EveryHoleIsExplained == FeedSpec => []HolesAreExplained
<1>1. FeedInv => HolesAreExplained
  BY DEF FeedInv, HolesAreExplained, Covered
<1> QED
  BY <1>1, FeedInvariant, PTL

-----------------------------------------------------------------------------
(***************************************************************************)
(* What a sequence holds once an element was added or the first was taken. *)
(***************************************************************************)
LEMMA HeldAppend ==
  ASSUME NEW s \in Seq(Nat), NEW n \in Nat
  PROVE  n \in ToSet(Append(s, n)) /\ ToSet(s) \subseteq ToSet(Append(s, n))
<1>1. /\ Len(Append(s, n)) = Len(s) + 1 /\ Append(s, n)[Len(s) + 1] = n
      /\ Len(s) + 1 \in DOMAIN Append(s, n)
      /\ \A i \in DOMAIN s : i \in DOMAIN Append(s, n) /\ Append(s, n)[i] = s[i]
  OBVIOUS
<1> QED
  BY <1>1 DEF ToSet

LEMMA HeldTail ==
  ASSUME NEW s \in Seq(Nat), s # <<>>
  PROVE  \A n \in ToSet(s) : n = Head(s) \/ n \in ToSet(Tail(s))
<1>1. /\ Head(s) = s[1]
      /\ \A i \in DOMAIN s : i = 1 \/ (i - 1 \in DOMAIN Tail(s) /\ Tail(s)[i - 1] = s[i])
  OBVIOUS
<1> QED
  BY <1>1 DEF ToSet

(***************************************************************************)
(* A connection that is not touched, nor its page, misses nothing new.     *)
(***************************************************************************)
LEMMA StillHeld ==
  ASSUME NoBroadcastMissed, NEW c \in Conns, Live(c), Registered(conns[c]), ~conns[c].dropped,
         NEW n \in conns[c].since + 1 .. Published, n \notin unsent
  PROVE  n \in shown \/ n \in ToSet(ToRead(c))
BY DEF NoBroadcastMissed

(***************************************************************************)
(* A step leaves nothing behind that a registered connection was to bring. *)
(***************************************************************************)
LEMMA NothingLeftBehind ==
  ASSUME FeedInv, NoBroadcastMissed, [FeedNext]_feedVars
  PROVE  NoBroadcastMissed'
<1> SUFFICES ASSUME NEW c \in Conns, Live(c)', Registered(conns[c])', ~conns'[c].dropped,
                    NEW n \in (conns[c].since + 1 .. Published)', n \notin unsent'
             PROVE  n \in shown' \/ n \in ToSet(ToRead(c)')
  BY DEF NoBroadcastMissed
<1> DEFINE k == conns[c]
<1>1. /\ conns \in [Conns -> Conn] /\ k \in Conn /\ k.out \in Seq(Nat) /\ k.since \in Nat
      /\ rows \in Nat /\ sending \in BOOLEAN /\ wire \in Seq(Nat)
      /\ cursor \in Nat /\ shown \subseteq 0 .. cursor
      /\ ToRead(c) \in Seq(Nat) /\ Published \in Int
  BY ConcatProperties DEF FeedInv, PageTypeOK, ConnTypeOK, Conn, ToRead, Published
<1>2. Registered(k) /\ Live(c) /\ ~k.dropped /\ k.since + 1 <= n /\ n <= Published
        /\ n \notin unsent => n \in shown \/ n \in ToSet(ToRead(c))
  BY <1>1, StillHeld
<1>3. n \in Int /\ conns'[c].since + 1 <= n /\ n <= Published'
  BY <1>1 DEF Conn
<1>4. ASSUME UNCHANGED <<record, link, page>>, conns'[c] = k
      PROVE  n \in shown' \/ n \in ToSet(ToRead(c)')
  BY <1>1, <1>2, <1>3, <1>4 DEF record, link, page, Live, Published, Registered, ToRead
<1>5. CASE Commit
  <2>1. /\ ~sending /\ conns' = conns /\ UNCHANGED <<link, page>>
        /\ \/ Published' = Published /\ UNCHANGED unsent
           \/ Published' = rows + 1 /\ unsent' = unsent \cup {rows + 1} /\ Published = rows
    BY <1>1, <1>5 DEF Commit, Published
  <2>2. n <= Published /\ n \notin unsent
    BY <1>1, <1>3, <2>1
  <2> QED
    BY <1>2, <1>3, <2>1, <2>2 DEF link, page, Live, Registered, ToRead
<1>6. CASE Broadcast
  <2>1. /\ rows \in Nat /\ UNCHANGED <<unsent, link, page>> /\ Published = rows - 1 /\ Published' = rows
        /\ conns'[c] = IF Registered(k) THEN Enqueue(k, rows) ELSE k
    BY <1>1, <1>6 DEF Broadcast, Published
  <2>2. Registered(k) /\ ~Overflows(k) /\ conns'[c] = [k EXCEPT !.out = Append(@, rows)]
    BY <1>1, <2>1 DEF Enqueue, Registered, Conn
  <2>3. conns'[c].out = Append(k.out, rows) /\ conns'[c].since = k.since /\ conns'[c].dropped = k.dropped
    BY <1>1, <2>2 DEF Conn
  <2>4. wire' = wire /\ socket' = socket /\ up' = up /\ shown' = shown /\ unsent' = unsent
    BY <2>1 DEF link, page
  <2>5. ToRead(c)' = Append(ToRead(c), rows)
    <3>1. ToRead(c)' = wire \o Append(k.out, rows)
      BY <2>3, <2>4 DEF ToRead
    <3>2. ToRead(c) = wire \o k.out
      BY DEF ToRead
    <3>3. wire \in Seq(Nat) /\ k.out \in Seq(Nat) /\ rows \in Nat
      BY <1>1
    <3> HIDE DEF k
    <3>4. wire \o Append(k.out, rows) = Append(wire \o k.out, rows)
      BY <3>3, Enqueued
    <3> QED
      BY <3>1, <3>2, <3>4
  <2>6. CASE n = rows
    BY <1>1, <2>1, <2>5, <2>6, HeldAppend
  <2>7. CASE n # rows
    <3>1. ~k.dropped /\ k.since + 1 <= n /\ n <= Published /\ Live(c) /\ n \notin unsent
      BY <1>1, <1>3, <2>1, <2>7, <2>3, <2>4 DEF Live
    <3>2. n \in shown \/ n \in ToSet(ToRead(c))
      BY <1>2, <2>2, <3>1
    <3> QED
      BY <1>1, <2>5, <2>4, <3>2, HeldAppend
  <2> QED
    BY <2>6, <2>7
<1>7. ASSUME NEW d \in Conns, Replay(d) PROVE n \in shown' \/ n \in ToSet(ToRead(c)')
  <2>1. UNCHANGED <<record, link, page>>
    BY <1>7, Zenon DEF Replay
  <2>2. PICK b : conns' = [conns EXCEPT ![d] =
                   [conns[d] EXCEPT !.pc = "replayed", !.out = @ \o b, !.since = rows,
                                    !.room = @ + Len(b)]]
    BY <1>7, Zenon DEF Replay
  <2>3. /\ c # d => conns'[c] = k
        /\ c = d => conns'[c].pc = "replayed"
    BY <1>1, <2>2 DEF Conn
  <2> QED
    BY <1>4, <2>1, <2>3 DEF Registered
<1>8. ASSUME NEW d \in Conns, Register(d) PROVE n \in shown' \/ n \in ToSet(ToRead(c)')
  <2>1. UNCHANGED <<record, link, page>> /\ (c # d => conns'[c] = k) /\ Published' = Published
        /\ (c = d => conns'[c].since = IF Published > k.since THEN Published ELSE k.since)
    BY <1>1, <1>8 DEF Register, Conn, Published, record
  <2>2. c # d
    BY <1>1, <1>3, <2>1
  <2> QED
    BY <1>4, <2>1, <2>2
<1>9. ASSUME NEW d \in Conns, Accept(d) PROVE n \in shown' \/ n \in ToSet(ToRead(c)')
  <2>1. /\ UNCHANGED <<record, link, page>>
        /\ conns'[c].out = k.out /\ conns'[c].since = k.since /\ conns'[c].dropped = k.dropped
        /\ Registered(k)
    BY <1>1, <1>9 DEF Accept, Conn, Registered
  <2> QED
    BY <1>2, <1>3, <2>1 DEF record, link, page, Live, Published, ToRead
<1>10. ASSUME NEW d \in Conns, Write(d) PROVE n \in shown' \/ n \in ToSet(ToRead(c)')
  <2>1. UNCHANGED <<record, socket, up, page>>
    BY <1>10, Zenon DEF Write
  <2>2. Live(c) /\ Published' = Published
    BY <2>1 DEF Live, Published, record
  <2>3. CASE c # d
    <3>1. conns'[c] = k /\ wire' = wire
      BY <1>1, <1>10, <2>3, <2>2 DEF Write, Live
    <3> QED
      BY <1>4, <2>1, <3>1 DEF link
  <2>4. CASE c = d
    <3>1. /\ k.out # <<>> /\ wire' = Append(wire, Head(k.out)) /\ k.pc = "open"
          /\ conns'[c] = [k EXCEPT !.out = Tail(@)]
      BY <1>1, <1>10, <2>4, <2>2 DEF Write
    <3>2. ToRead(c)' = ToRead(c) /\ conns'[c].since = k.since /\ ~k.dropped
      BY <1>1, <3>1, Resliced DEF ToRead, Conn
    <3> QED
      BY <1>2, <1>3, <2>1, <2>2, <3>1, <3>2 DEF page, record, Registered
  <2> QED
    BY <2>3, <2>4
<1>11. ASSUME NEW d \in Conns, HandlerReturns(d) PROVE n \in shown' \/ n \in ToSet(ToRead(c)')
  <2>1. UNCHANGED <<record, socket, wire, page>> /\ up' = (up /\ d # socket) /\ c # d
        /\ conns'[c] = k
    BY <1>1, <1>11 DEF HandlerReturns, Live
  <2> QED
    BY <1>1, <1>2, <1>3, <2>1 DEF record, page, Live, Published, Registered, ToRead
<1>12. ASSUME NEW d \in Conns, Connect(d) PROVE n \in shown' \/ n \in ToSet(ToRead(c)')
  <2>1. c = d /\ conns'[c].pc = "asked"
    BY <1>1, <1>12 DEF Connect, Live, Free
  <2> QED
    BY <2>1 DEF Registered
<1>13. CASE OnMessage
  <2> DEFINE h == Head(wire)
  <2>1. /\ wire # <<>> /\ wire' = Tail(wire)
        /\ shown' = IF NewToPage(h) THEN shown \cup {h} ELSE shown
        /\ UNCHANGED <<record, conns, socket, up>>
    BY <1>13 DEF OnMessage
  <2>2. ToRead(c) # <<>> /\ Head(ToRead(c)) = h /\ ToRead(c)' = Tail(ToRead(c))
    BY <1>1, <2>1, ReadOff DEF ToRead
  <2>3. n \in shown \/ n = h \/ n \in ToSet(ToRead(c)')
    BY <1>1, <1>2, <1>3, <2>1, <2>2, HeldTail DEF Live, Published, Registered, record
  <2>4. h \in Nat /\ cursor <= h
    <3>1. Joined(Covered, cursor, h)
      BY <1>1, <2>1, ChainTail DEF FeedInv
    <3>2. h \in Nat
      BY <1>1, <2>1
    <3> QED
      BY <3>1, <3>2 DEF Joined
  <2>5. h \in shown'
    <3>1. CASE NewToPage(h)
      BY <2>1, <3>1
    <3>2. CASE ~NewToPage(h)
      <4>1. PICK m \in shown : ~(h > m)
        BY <3>2 DEF NewToPage
      <4>2. m = h
        BY <1>1, <2>4, <4>1
      <4> QED
        BY <2>1, <3>2, <4>2
    <3> QED
      BY <3>1, <3>2
  <2>6. shown \subseteq shown'
    BY <2>1
  <2> QED
    BY <2>3, <2>5, <2>6
<1>14. CASE OnClose \/ Close \/ Break
  BY <1>14 DEF OnClose, Close, Break, Live
<1>15. CASE UNCHANGED feedVars
  BY <1>4, <1>15 DEF feedVars
<1> QED
  BY <1>5, <1>6, <1>7, <1>8, <1>9, <1>10, <1>11, <1>12, <1>13, <1>14, <1>15 DEF FeedNext

(***************************************************************************)
(* A registered connection that is not dropped brings every later row that *)
(* is broadcast: it is shown, on the wire or queued, whatever handlers of  *)
(* older connections do meanwhile (gateway.go:314-318).                    *)
(***************************************************************************)
THEOREM BroadcastsArrive == FeedSpec => []NoBroadcastMissed
<1>1. FeedInit => NoBroadcastMissed
  BY DEF FeedInit, NoBroadcastMissed, Live
<1>2. FeedInv /\ NoBroadcastMissed /\ [FeedNext]_feedVars => NoBroadcastMissed'
  BY NothingLeftBehind
<1> QED
  BY <1>1, <1>2, FeedInvariant, PTL DEF FeedSpec

-----------------------------------------------------------------------------
(***************************************************************************)
(* Types.  The queues hold rows that are there, which the wire needs.      *)
(***************************************************************************)
QueuesHoldRows == \A c \in Conns : conns[c].out \in Seq(1 .. rows)

FeedTypeInv == FeedTypeOK /\ QueuesHoldRows

(***************************************************************************)
(* Rows stay rows as the record grows.                                     *)
(***************************************************************************)
LEMMA RowsStay ==
  ASSUME NEW m \in Nat, NEW n \in Nat, m <= n, NEW s \in Seq(1 .. m)
  PROVE  s \in Seq(1 .. n)
OBVIOUS

(***************************************************************************)
(* A step that gives one handler a well-typed new state, leaves the record *)
(* and the page alone and skips rows for a reason keeps the types.         *)
(***************************************************************************)
LEMMA HandlerTypes ==
  ASSUME FeedTypeInv, NEW c \in Conns, NEW x \in Conn, conns' = [conns EXCEPT ![c] = x],
         x.out \in Seq(1 .. rows), Len(x.out) <= x.room,
         UNCHANGED <<record, socket, page, faults>>, up' \in BOOLEAN,
         wire' \in Seq(1 .. rows), Len(wire') <= SocketSize,
         skipped' \subseteq (1 .. rows) \X Reasons
  PROVE  FeedTypeInv'
<1>1. /\ conns' \in [Conns -> Conn]
      /\ \A d \in Conns : conns'[d] = x \/ conns'[d] = conns[d]
  BY DEF FeedTypeInv, FeedTypeOK
<1>2. \A d \in Conns : Len(conns'[d].out) <= conns'[d].room /\ conns'[d].out \in Seq(1 .. rows)
  BY <1>1 DEF FeedTypeInv, FeedTypeOK, QueuesHoldRows
<1> QED
  BY <1>1, <1>2 DEF FeedTypeInv, FeedTypeOK, QueuesHoldRows, record, page

(***************************************************************************)
(* A replay's backlog is the next rows of the record.                      *)
(***************************************************************************)
LEMMA BacklogType ==
  ASSUME rows \in Nat, NEW after \in Nat
  PROVE  Backlog(after) \in Seq(1 .. rows)
<1> DEFINE last == IF rows < after + ReplayLimit THEN rows ELSE after + ReplayLimit
<1>1. last \in Nat /\ last <= rows
  BY FeedAssumption
<1>2. last - after \in Int /\ Backlog(after) = [i \in 1 .. last - after |-> after + i]
  BY <1>1 DEF Backlog
<1> HIDE DEF last
<1>3. CASE last - after \in Nat
  BY <1>1, <1>2, <1>3
<1>4. CASE last - after \notin Nat
  <2>1. 1 .. last - after = 1 .. 0
    BY <1>1, <1>2, <1>4
  <2> QED
    BY <1>2, <2>1
<1> QED
  BY <1>3, <1>4

(***************************************************************************)
(* Every step keeps the types.                                             *)
(***************************************************************************)
LEMMA FeedTypeKept == FeedInv /\ FeedTypeInv /\ [FeedNext]_feedVars => FeedTypeInv'
<1> SUFFICES ASSUME FeedInv, FeedTypeInv, [FeedNext]_feedVars
             PROVE  FeedTypeInv'
  OBVIOUS
<1>1. /\ rows \in 0 .. MaxRows /\ rows \in Nat /\ sending \in BOOLEAN /\ unsent \subseteq 1 .. rows
      /\ conns \in [Conns -> Conn]
      /\ \A c \in Conns : Len(conns[c].out) <= conns[c].room /\ conns[c].out \in Seq(1 .. rows)
      /\ socket \in Conns \cup {NoConn} /\ up \in BOOLEAN
      /\ wire \in Seq(1 .. rows) /\ Len(wire) <= SocketSize
      /\ cursor \in 0 .. rows /\ shown \subseteq 1 .. rows /\ left \in BOOLEAN
      /\ skipped \subseteq (1 .. rows) \X Reasons /\ faults \in 0 .. MaxFaults
  BY FeedAssumption DEF FeedTypeInv, FeedTypeOK, QueuesHoldRows
<1>2. MaxRows \in Nat /\ MaxFaults \in Nat /\ SocketSize \in Nat /\ SendBuffer \in Nat
  BY FeedAssumption
<1>3. CASE Commit
  <2>0. /\ rows < MaxRows /\ rows' = rows + 1 /\ UNCHANGED <<conns, link, page, skipped, faults>>
        /\ \/ sending' = TRUE /\ unsent' = unsent
           \/ sending' = sending /\ unsent' = unsent \cup {rows + 1}
    BY <1>3 DEF Commit
  <2>1. rows' = rows + 1 /\ rows' \in 0 .. MaxRows /\ UNCHANGED <<conns, link, page, skipped, faults>>
        /\ sending' \in BOOLEAN /\ unsent' \subseteq 1 .. rows'
    <3>1. rows' \in 0 .. MaxRows /\ rows + 1 \in 1 .. rows' /\ \A n \in 1 .. rows : n \in 1 .. rows'
      BY <1>1, <1>2, <2>0
    <3>2. unsent' \subseteq 1 .. rows'
      BY <1>1, <2>0, <3>1
    <3> QED
      BY <1>1, <2>0, <3>1, <3>2, Zenon
  <2>2. wire' \in Seq(1 .. rows') /\ \A c \in Conns : conns'[c].out \in Seq(1 .. rows')
    BY <1>1, <2>1, RowsStay DEF link
  <2>3. skipped' \subseteq (1 .. rows') \X Reasons
    BY <1>1, <2>1
  <2> QED
    BY <1>1, <2>1, <2>2, <2>3 DEF FeedTypeInv, FeedTypeOK, QueuesHoldRows, link, page
<1>4. CASE Broadcast
  <2>1. /\ rows \in 1 .. rows /\ sending' = FALSE /\ UNCHANGED <<rows, unsent, link, page, faults>>
        /\ conns' = [c \in Conns |->
             IF Registered(conns[c]) THEN Enqueue(conns[c], rows) ELSE conns[c]]
    BY <1>1, <1>4 DEF Broadcast, FeedInv, PageTypeOK
  <2>2. ASSUME NEW c \in Conns
        PROVE  /\ conns'[c] \in Conn /\ conns'[c].out \in Seq(1 .. rows)
               /\ Len(conns'[c].out) <= conns'[c].room
    <3> DEFINE k == conns[c]
               o == Append(k.out, rows)
    <3>1. k \in Conn /\ k.out \in Seq(1 .. rows) /\ Len(k.out) <= k.room /\ k.room \in Nat
          /\ Len(k.out) \in Nat
      BY <1>1 DEF Conn
    <3>2. o \in Seq(1 .. rows) /\ o \in Seq(Nat) /\ Len(o) = Len(k.out) + 1
      BY <2>1, <3>1 DEF Conn
    <3>3. conns'[c] = k \/ conns'[c] = [k EXCEPT !.dropped = TRUE]
            \/ (Len(k.out) # k.room /\ conns'[c] = [k EXCEPT !.out = o])
      BY <2>1 DEF Enqueue, Overflows
    <3>4. CASE conns'[c] = [k EXCEPT !.out = o] /\ Len(k.out) # k.room
      <4>1. conns'[c] \in Conn /\ conns'[c].out = o /\ conns'[c].room = k.room
        BY <3>1, <3>2, <3>4 DEF Conn
      <4> QED
        BY <3>1, <3>2, <3>4, <4>1
    <3> QED
      BY <3>1, <3>3, <3>4 DEF Conn
  <2>3. skipped' \subseteq (1 .. rows) \X Reasons
    BY <1>1, <1>4, <2>1 DEF Broadcast, Skip, Reasons
  <2>4. conns' \in [Conns -> Conn]
    BY <2>1, <2>2
  <2> QED
    BY <1>1, <2>1, <2>2, <2>3, <2>4 DEF FeedTypeInv, FeedTypeOK, QueuesHoldRows, link, page
<1>5. ASSUME NEW c \in Conns, Replay(c) PROVE FeedTypeInv'
  <2> DEFINE k == conns[c]
  <2>1. /\ UNCHANGED <<record, link, page, faults>>
        /\ \E b \in {Backlog(k.after), <<>>}, why \in {"limit", "unreplayed"} :
             /\ conns' = [conns EXCEPT ![c] =
                  [k EXCEPT !.pc = "replayed", !.out = @ \o b, !.since = rows,
                            !.room = @ + Len(b)]]
             /\ Skip({n \in k.after + Len(b) + 1 .. rows : Live(c)}, why)
    BY <1>5, Zenon DEF Replay
  <2>2. PICK b \in {Backlog(k.after), <<>>}, why \in {"limit", "unreplayed"} :
             /\ conns' = [conns EXCEPT ![c] =
                  [k EXCEPT !.pc = "replayed", !.out = @ \o b, !.since = rows,
                            !.room = @ + Len(b)]]
             /\ Skip({n \in k.after + Len(b) + 1 .. rows : Live(c)}, why)
    BY <2>1
  <2>3. k \in Conn /\ k.after \in Nat /\ k.room \in Nat /\ k.out \in Seq(1 .. rows)
        /\ Len(k.out) <= k.room /\ k.out \in Seq(Nat)
    BY <1>1 DEF Conn
  <2>4. b \in Seq(1 .. rows)
    <3>1. <<>> \in Seq(1 .. rows) /\ Backlog(k.after) \in Seq(1 .. rows)
      BY <1>1, <2>3, BacklogType, EmptySeq
    <3> QED
      BY <2>2, <3>1
  <2>5. /\ k.out \o b \in Seq(1 .. rows) /\ k.out \o b \in Seq(Nat)
        /\ Len(k.out \o b) = Len(k.out) + Len(b) /\ Len(b) \in Nat /\ Len(k.out) \in Nat
    <3>1. k.out \o b \in Seq(1 .. rows) /\ Len(k.out \o b) = Len(k.out) + Len(b)
          /\ Len(b) \in Nat /\ Len(k.out) \in Nat
      BY <2>3, <2>4, ConcatProperties
    <3>2. k.out \o b \in Seq(Nat)
      <4>1. \A t \in Seq(1 .. rows) : t \in Seq(Nat)
        BY <1>1
      <4> QED
        BY <3>1, <4>1
    <3> QED
      BY <3>1, <3>2
  <2> DEFINE x == [k EXCEPT !.pc = "replayed", !.out = @ \o b, !.since = rows,
                            !.room = @ + Len(b)]
  <2>6. x \in Conn /\ x.out = k.out \o b /\ x.room = k.room + Len(b)
    <3> DEFINE o == k.out \o b
               room == k.room + Len(b)
    <3>1. k \in Conn /\ o \in Seq(Nat) /\ room \in Nat /\ rows \in Nat
      BY <1>1, <2>3, <2>5
    <3> HIDE DEF o, room
    <3>2. \A l \in Conn :
            LET m == [l EXCEPT !.pc = "replayed", !.out = o, !.since = rows, !.room = room]
            IN  m \in Conn /\ m.out = o /\ m.room = room
      BY <3>1 DEF Conn
    <3> QED
      BY <3>1, <3>2 DEF o, room
  <2>7. skipped' \subseteq (1 .. rows) \X Reasons
    BY <1>1, <2>2, <2>3, <2>5 DEF Skip, Reasons
  <2>8. conns' = [conns EXCEPT ![c] = x]
    BY <2>2
  <2> HIDE DEF x
  <2>9. x.out \in Seq(1 .. rows) /\ Len(x.out) <= x.room
    BY <2>3, <2>5, <2>6
  <2> QED
    BY <1>1, <2>1, <2>6, <2>7, <2>8, <2>9, HandlerTypes DEF link
<1>6. ASSUME NEW c \in Conns, Register(c) PROVE FeedTypeInv'
  <2> DEFINE k == conns[c]
             x == [k EXCEPT !.pc = "registered", !.since = IF Published > @ THEN Published ELSE @]
  <2>1. k \in Conn /\ k.since \in Nat /\ Published \in Int /\ Published <= rows
    BY <1>1 DEF Conn, Published
  <2>2. x \in Conn /\ x.out = k.out /\ x.room = k.room
    <3>1. (IF Published > k.since THEN Published ELSE k.since) \in Nat
      BY <2>1
    <3> QED
      BY <2>1, <3>1 DEF Conn
  <2>3. skipped' \subseteq (1 .. rows) \X Reasons
    BY <1>1, <1>6, <2>1 DEF Register, Skip, Reasons
  <2>4. conns' = [conns EXCEPT ![c] = x] /\ UNCHANGED <<record, link, page, faults>>
    BY <1>6 DEF Register
  <2> HIDE DEF x
  <2> QED
    BY <1>1, <2>2, <2>3, <2>4, HandlerTypes DEF link
<1>7. ASSUME NEW c \in Conns, Accept(c) PROVE FeedTypeInv'
  <2> DEFINE x == [conns[c] EXCEPT !.pc = "open"]
  <2>1. x \in Conn /\ x.out = conns[c].out /\ x.room = conns[c].room
    BY <1>1 DEF Conn
  <2>2. conns' = [conns EXCEPT ![c] = x] /\ UNCHANGED <<record, link, page, skipped, faults>>
    BY <1>7 DEF Accept
  <2> HIDE DEF x
  <2> QED
    BY <1>1, <2>1, <2>2, HandlerTypes DEF link
<1>8. ASSUME NEW c \in Conns, Write(c) PROVE FeedTypeInv'
  <2> DEFINE k == conns[c]
             x == [k EXCEPT !.out = Tail(@)]
  <2>1. /\ k \in Conn /\ k.out # <<>> /\ k.out \in Seq(1 .. rows) /\ k.out \in Seq(Nat)
        /\ k.room \in Nat /\ Len(k.out) <= k.room
    BY <1>1, <1>8 DEF Conn, Write
  <2>2. /\ Tail(k.out) \in Seq(1 .. rows) /\ Tail(k.out) \in Seq(Nat)
        /\ Len(Tail(k.out)) = Len(k.out) - 1 /\ Head(k.out) \in 1 .. rows /\ Len(k.out) \in Nat
    <3>1. /\ Tail(k.out) \in Seq(1 .. rows) /\ Len(Tail(k.out)) = Len(k.out) - 1
          /\ Head(k.out) \in 1 .. rows /\ Len(k.out) \in Nat
      BY <2>1, HeadTailProperties, LenProperties
    <3>2. Tail(k.out) \in Seq(Nat)
      BY <2>1, HeadTailProperties
    <3> QED
      BY <3>1, <3>2
  <2>3. x \in Conn /\ x.out = Tail(k.out) /\ x.room = k.room
    BY <2>1, <2>2 DEF Conn
  <2>4. conns' = [conns EXCEPT ![c] = x] /\ UNCHANGED <<record, socket, up, page, skipped, faults>>
        /\ (wire' = wire \/ (Len(wire) < SocketSize /\ wire' = Append(wire, Head(k.out))))
    BY <1>8 DEF Write
  <2>5. wire' \in Seq(1 .. rows) /\ Len(wire') <= SocketSize
    <3> DEFINE w == Append(wire, Head(k.out))
    <3>1. w \in Seq(1 .. rows) /\ Len(w) = Len(wire) + 1 /\ Len(wire) \in Nat
      BY <1>1, <2>2, AppendProperties, LenProperties
    <3>2. wire' = wire \/ (Len(wire) < SocketSize /\ wire' = w)
      BY <2>4
    <3> HIDE DEF w
    <3> QED
      BY <1>1, <1>2, <3>1, <3>2
  <2> HIDE DEF x
  <2> QED
    <3>1. x \in Conn /\ x.out \in Seq(1 .. rows) /\ Len(x.out) <= x.room
      BY <2>1, <2>2, <2>3
    <3>2. skipped' = skipped /\ faults' = faults /\ up' = up
      BY <2>4
    <3> QED
      BY <1>1, <2>4, <2>5, <3>1, <3>2, HandlerTypes
<1>9. Free \in Conn /\ Free.out = <<>> /\ Free.room = 0 /\ Free.out \in Seq(1 .. rows) /\ Len(Free.out) = 0
  BY DEF Free, Conn
<1>10. ASSUME NEW c \in Conns, HandlerReturns(c) PROVE FeedTypeInv'
  <2>1. conns' = [conns EXCEPT ![c] = Free] /\ UNCHANGED <<record, socket, wire, page, skipped, faults>>
        /\ up' \in BOOLEAN
    BY <1>1, <1>10 DEF HandlerReturns
  <2> QED
    <3>1. Len(Free.out) <= Free.room /\ skipped' = skipped /\ wire' = wire
      BY <1>9, <2>1
    <3> QED
      BY <1>1, <1>9, <2>1, <3>1, HandlerTypes
<1>11. ASSUME NEW c \in Conns, Connect(c) PROVE FeedTypeInv'
  <2> DEFINE x == [Free EXCEPT !.pc = "asked", !.after = cursor, !.room = SendBuffer]
  <2>1. x \in Conn /\ x.out = <<>> /\ x.room = SendBuffer
    <3>1. cursor \in Nat /\ <<>> \in Seq(Nat)
      BY <1>1
    <3> QED
      BY <1>2, <3>1 DEF Free, Conn
  <2>2. conns' = [conns EXCEPT ![c] = x] /\ socket' = c /\ up' = TRUE
        /\ UNCHANGED <<record, wire, page, skipped, faults>>
    BY <1>11 DEF Connect
  <2> HIDE DEF x
  <2>3. /\ conns' \in [Conns -> Conn]
        /\ \A d \in Conns : conns'[d] = x \/ conns'[d] = conns[d]
    BY <1>1, <2>1, <2>2
  <2>4. x.out \in Seq(1 .. rows) /\ Len(x.out) <= x.room
    BY <1>2, <1>9, <2>1
  <2> QED
    BY <1>1, <2>2, <2>3, <2>4 DEF FeedTypeInv, FeedTypeOK, QueuesHoldRows, record, page
<1>12. CASE OnMessage
  <2>1. /\ wire # <<>> /\ wire' = Tail(wire) /\ cursor' \in {cursor, Head(wire)}
        /\ shown' \subseteq shown \cup {Head(wire)} /\ skipped' \subseteq skipped
        /\ UNCHANGED <<record, conns, socket, up, left, faults>>
    BY <1>12 DEF OnMessage, NextCursor
  <2>2. Head(wire) \in 1 .. rows /\ Tail(wire) \in Seq(1 .. rows) /\ Len(Tail(wire)) <= SocketSize
    BY <1>1, <1>2, <2>1
  <2> QED
    BY <1>1, <2>1, <2>2 DEF FeedTypeInv, FeedTypeOK, QueuesHoldRows, record
<1>13. CASE OnClose \/ Close \/ Break
  <2>1. <<>> \in Seq(1 .. rows) /\ Len(<<>>) <= SocketSize
    BY <1>2
  <2>2. wire' \in {wire, <<>>} /\ socket' \in {socket, NoConn} /\ up' \in BOOLEAN /\ left' \in BOOLEAN
        /\ faults' \in 0 .. MaxFaults /\ UNCHANGED <<record, conns, cursor, shown, skipped>>
    <3>1. CASE OnClose
      BY <1>1, <3>1 DEF OnClose, page
    <3>2. CASE Close
      BY <1>1, <3>2 DEF Close
    <3>3. CASE Break
      <4>1. UNCHANGED <<record, conns, socket, wire, page, skipped>> /\ up' = FALSE
            /\ faults' = faults + 1 /\ faults < MaxFaults
        BY <3>3 DEF Break
      <4>2. faults' \in 0 .. MaxFaults
        BY <1>1, <1>2, <4>1
      <4> QED
        BY <1>1, <4>1, <4>2 DEF page
    <3> QED
      BY <1>13, <3>1, <3>2, <3>3
  <2> QED
    BY <1>1, <2>1, <2>2 DEF FeedTypeInv, FeedTypeOK, QueuesHoldRows, record
<1>14. CASE UNCHANGED feedVars
  BY <1>1, <1>14 DEF feedVars, record, link, page, FeedTypeInv, FeedTypeOK, QueuesHoldRows
<1> QED
  BY <1>3, <1>4, <1>5, <1>6, <1>7, <1>8, <1>10, <1>11, <1>12, <1>13, <1>14 DEF FeedNext

(***************************************************************************)
(* The feed's state stays well typed: no queue outgrows its room, the      *)
(* socket its size, and the page shows only rows that are there.           *)
(***************************************************************************)
THEOREM FeedTypeCorrect == FeedSpec => []FeedTypeOK
<1>1. FeedInit => FeedTypeInv
  <2> SUFFICES ASSUME FeedInit PROVE FeedTypeInv
    OBVIOUS
  <2>1. Free \in Conn /\ Free.out = <<>> /\ Free.room = 0 /\ Len(Free.out) = 0
        /\ Free.out \in Seq(1 .. 0)
    BY DEF Free, Conn
  <2>2. conns \in [Conns -> Conn] /\ \A c \in Conns : conns[c] = Free
    BY <2>1 DEF FeedInit
  <2>3. wire \in Seq(1 .. rows) /\ Len(wire) <= SocketSize
    BY FeedAssumption DEF FeedInit
  <2>4. rows = 0 /\ rows \in 0 .. MaxRows /\ faults \in 0 .. MaxFaults /\ cursor \in 0 .. rows
    BY FeedAssumption DEF FeedInit
  <2>5. \A c \in Conns : Len(conns[c].out) <= conns[c].room /\ conns[c].out \in Seq(1 .. rows)
    <3>1. Len(Free.out) <= Free.room
      BY <2>1
    <3> QED
      BY <2>1, <2>2, <2>4, <3>1, Zenon
  <2> QED
    BY <2>2, <2>3, <2>4, <2>5 DEF FeedInit, FeedTypeInv, FeedTypeOK, QueuesHoldRows
<1>2. FeedTypeInv => FeedTypeOK
  BY DEF FeedTypeInv
<1> QED
  BY <1>1, <1>2, FeedTypeKept, FeedInvariant, PTL DEF FeedSpec
=============================================================================
