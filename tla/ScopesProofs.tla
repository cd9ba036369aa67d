---------------------------- MODULE ScopesProofs ----------------------------
(***************************************************************************)
(* Whatever the index says: a principal's yes binds nobody but a party,    *)
(* and what leads it away from its exchange is one of the same number in   *)
(* another scope or an opening proposal that a full queue dropped.         *)
(***************************************************************************)
EXTENDS ScopesProperties, TLAPS

(***************************************************************************)
(* The inductive invariant follows a resident's name along its ask: whose  *)
(* offer stands in a scope lives there, and so does who asks on its queue, *)
(* at a prompt or by an answer.  Who is merely named need not.             *)
(***************************************************************************)
ProposersLiveHere ==
  \A s \in ScopeIds : \A e \in DOMAIN deals[s] : deals[s][e].proposer \in Here(s)

AsksHere(s, note) ==
  note.kind = "ask_principal"
    => note.ask.scope = s /\ note.ask.exc = note.exc /\ claimed[note.ask.voice] = s

NotesAskHere ==
  \A s \in ScopeIds : \A i \in DOMAIN appendQ[s] : AsksHere(s, appendQ[s][i])

PromptsAskHere == \A a \in prompts : claimed[a.voice] = a.scope

AnswersAskHere ==
  \A k \in Calls :
    answers[k].stage # "unused" => claimed[answers[k].ask.voice] = answers[k].ask.scope

ScopesInv ==
  ScopesTypeOK /\ ProposersLiveHere /\ NotesAskHere /\ PromptsAskHere /\ AnswersAskHere

QueuesFit ==
  /\ appendQ \in [ScopeIds -> Seq(Note)]
  /\ \A s \in ScopeIds : Len(appendQ[s]) <= QueueSize

-----------------------------------------------------------------------------
LEMMA HereAreVoices ==
  ASSUME ScopesTypeOK, NEW s \in ScopeIds
  PROVE  /\ Here(s) \subseteq Voices
         /\ \A v \in Here(s) \cap Residents : claimed[v] = s
<1>1. SeedsOf[s] \subseteq SeedVoices
  BY DEF SeedVoices
<1>2. SeedVoices \cap Residents = {}
  BY ScopesAssumption
<1> QED
  BY <1>1, <1>2 DEF Here, Voices

LEMMA OfferType ==
  ASSUME ScopesTypeOK, NEW s \in ScopeIds, NEW e \in DOMAIN deals[s]
  PROVE  deals[s][e].offer \in Nat
<1>1. deals[s][e] \in Deal
  BY DEF ScopesTypeOK
<1> QED
  BY <1>1 DEF Deal

LEMMA SeqTail ==
  ASSUME NEW S, NEW q \in Seq(S), q # <<>>
  PROVE  /\ Tail(q) \in Seq(S) /\ Head(q) \in S
         /\ \A i \in DOMAIN Tail(q) : i + 1 \in DOMAIN q /\ Tail(q)[i] = q[i + 1]
         /\ 1 \in DOMAIN q /\ Head(q) = q[1]
OBVIOUS

LEMMA SeqConcat ==
  ASSUME NEW S, NEW q \in Seq(S), NEW r \in Seq(S)
  PROVE  /\ q \o r \in Seq(S)
         /\ \A i \in DOMAIN (q \o r) :
              (i \in DOMAIN q /\ (q \o r)[i] = q[i])
                \/ (i - Len(q) \in DOMAIN r /\ (q \o r)[i] = r[i - Len(q)])
OBVIOUS

LEMMA KeptNotes ==
  ASSUME NEW S, NEW notes \in Seq(S), NEW kept \in Kept(notes)
  PROVE  /\ kept \in Seq(S)
         /\ \A i \in DOMAIN kept : \E j \in DOMAIN notes : kept[i] = notes[j]
<1>1. CASE kept = <<>>
  BY <1>1
<1>2. CASE kept = notes
  BY <1>2
<1>3. ASSUME NEW j \in DOMAIN notes, kept = <<notes[j]>>
      PROVE  /\ kept \in Seq(S)
             /\ \A i \in DOMAIN kept : \E k \in DOMAIN notes : kept[i] = notes[k]
  <2>1. notes[j] \in S
    OBVIOUS
  <2>2. kept \in Seq(S) /\ \A i \in DOMAIN kept : kept[i] = notes[j]
    BY <1>3, <2>1
  <2> QED
    BY <2>2
<1> QED
  BY <1>1, <1>2, <1>3 DEF Kept

(***************************************************************************)
(* What is put goes behind what was there, and fits; some may be dropped.  *)
(***************************************************************************)
LEMMA PutAdds ==
  ASSUME ScopesTypeOK, NEW s \in ScopeIds, NEW notes \in Seq(Note), Put(s, notes)
  PROVE  /\ QueuesFit'
         /\ \A t \in ScopeIds : \A i \in DOMAIN appendQ[t] :
              i \in DOMAIN appendQ'[t] /\ appendQ'[t][i] = appendQ[t][i]
         /\ \A t \in ScopeIds : \A i \in DOMAIN appendQ'[t] :
              \/ i \in DOMAIN appendQ[t] /\ appendQ'[t][i] = appendQ[t][i]
              \/ t = s /\ \E j \in DOMAIN notes : appendQ'[t][i] = notes[j]
<1>1. /\ appendQ \in [ScopeIds -> Seq(Note)] /\ appendQ[s] \in Seq(Note)
      /\ \A t \in ScopeIds : Len(appendQ[t]) <= QueueSize
  BY DEF ScopesTypeOK
<1>2. PICK kept \in Kept(notes) :
        /\ Len(appendQ[s]) + Len(kept) <= QueueSize
        /\ appendQ' = [appendQ EXCEPT ![s] = appendQ[s] \o kept]
  BY DEF Put
<1>3. /\ kept \in Seq(Note)
      /\ \A i \in DOMAIN kept : \E j \in DOMAIN notes : kept[i] = notes[j]
  BY KeptNotes
<1>4. appendQ[s] \o kept \in Seq(Note)
      /\ Len(appendQ[s] \o kept) = Len(appendQ[s]) + Len(kept)
  BY <1>1, <1>3
<1>5. /\ appendQ'[s] = appendQ[s] \o kept
      /\ \A t \in ScopeIds \ {s} : appendQ'[t] = appendQ[t]
  BY <1>1, <1>2
<1>6. appendQ' \in [ScopeIds -> Seq(Note)]
  BY <1>1, <1>2, <1>4
<1>7. \A t \in ScopeIds : Len(appendQ'[t]) <= QueueSize
  BY <1>1, <1>2, <1>4, <1>5
<1>8. \A i \in DOMAIN appendQ[s] :
        i \in DOMAIN appendQ'[s] /\ appendQ'[s][i] = appendQ[s][i]
  BY <1>1, <1>3, <1>5
<1>9. \A i \in DOMAIN appendQ'[s] :
        \/ i \in DOMAIN appendQ[s] /\ appendQ'[s][i] = appendQ[s][i]
        \/ \E j \in DOMAIN notes : appendQ'[s][i] = notes[j]
  BY <1>1, <1>3, <1>5, SeqConcat
<1>10. QueuesFit'
  BY <1>6, <1>7 DEF QueuesFit
<1> QED
  BY <1>5, <1>8, <1>9, <1>10

LEMMA PutKeeps ==
  ASSUME ScopesInv, NEW s \in ScopeIds, NEW notes \in Seq(Note), Put(s, notes),
         UNCHANGED claimed, \A j \in DOMAIN notes : AsksHere(s, notes[j])
  PROVE  QueuesFit' /\ NotesAskHere'
<1>1. QueuesFit'
  BY PutAdds DEF ScopesInv
<1>2. ASSUME NEW t \in ScopeIds, NEW i \in DOMAIN appendQ'[t]
      PROVE  AsksHere(t, appendQ'[t][i])
  <2>1. \/ i \in DOMAIN appendQ[t] /\ appendQ'[t][i] = appendQ[t][i]
        \/ t = s /\ \E j \in DOMAIN notes : appendQ'[t][i] = notes[j]
    BY PutAdds DEF ScopesInv
  <2>2. CASE i \in DOMAIN appendQ[t] /\ appendQ'[t][i] = appendQ[t][i]
    BY <2>2 DEF ScopesInv, NotesAskHere
  <2> QED
    BY <2>1, <2>2
<1> QED
  BY <1>1, <1>2 DEF NotesAskHere, AsksHere

LEMMA PutOneKeeps ==
  ASSUME ScopesInv, NEW s \in ScopeIds, NEW x \in Note, Put(s, <<x>>), UNCHANGED claimed,
         AsksHere(s, x)
  PROVE  QueuesFit' /\ NotesAskHere'
<1> DEFINE notes == <<x>>
<1>1. notes \in Seq(Note) /\ Put(s, notes)
  OBVIOUS
<1>2. \A i \in DOMAIN notes : notes[i] = x
  OBVIOUS
<1> HIDE DEF notes
<1> QED
  BY <1>1, <1>2, PutKeeps

LEMMA PutTwoKeeps ==
  ASSUME ScopesInv, NEW s \in ScopeIds, NEW x \in Note, NEW y \in Note,
         Put(s, <<x, y>>), UNCHANGED claimed, AsksHere(s, x), AsksHere(s, y)
  PROVE  QueuesFit' /\ NotesAskHere'
<1> DEFINE notes == <<x, y>>
<1>1. notes \in Seq(Note) /\ Put(s, notes)
  OBVIOUS
<1>2. \A i \in DOMAIN notes : notes[i] \in {x, y}
  OBVIOUS
<1> HIDE DEF notes
<1> QED
  BY <1>1, <1>2, PutKeeps

(***************************************************************************)
(* A turn keeps an exchange's parties; only who lives here counters.       *)
(***************************************************************************)
LEMMA TurnGives ==
  ASSUME ScopesTypeOK, NEW s \in ScopeIds, NEW v \in Voices, NEW kind,
         NEW e \in DOMAIN deals[s], NEW status \in {"open", "settled", "abandoned"},
         Turn(s, v, kind, e, status)
  PROVE  \E y \in Deal :
           /\ deals' = [deals EXCEPT ![s] = [deals[s] EXCEPT ![e] = y]]
           /\ y.status = status /\ y.parts = deals[s][e].parts
           /\ y.offer \in {deals[s][e].offer, deals[s][e].offer + 1}
           /\ y.proposer = deals[s][e].proposer \/ (kind = "propose" /\ y.proposer = v)
<1> DEFINE x == deals[s][e]
<1>1. deals \in [ScopeIds -> Seq(Deal)] /\ deals[s] \in Seq(Deal)
  BY DEF ScopesTypeOK
<1>2. x \in Deal
  BY <1>1
<1>3. CASE kind = "propose"
  <2> DEFINE y == [status |-> status, parts |-> x.parts, proposer |-> v, offer |-> x.offer + 1]
  <2>1. y \in Deal
    BY <1>2 DEF Deal
  <2>2. deals' = [deals EXCEPT ![s] = [deals[s] EXCEPT ![e] = y]]
    BY <1>3 DEF Turn
  <2>3. /\ y.status = status /\ y.parts = x.parts /\ y.offer = x.offer + 1
        /\ y.proposer = v
    OBVIOUS
  <2> HIDE DEF y
  <2> QED
    BY <1>3, <2>1, <2>2, <2>3
<1>4. CASE kind # "propose"
  <2> DEFINE y == [status |-> status, parts |-> x.parts, proposer |-> x.proposer,
                   offer |-> x.offer]
  <2>1. y \in Deal
    BY <1>2 DEF Deal
  <2>2. deals' = [deals EXCEPT ![s] = [deals[s] EXCEPT ![e] = y]]
    BY <1>4 DEF Turn
  <2>3. /\ y.status = status /\ y.parts = x.parts /\ y.offer = x.offer
        /\ y.proposer = x.proposer
    OBVIOUS
  <2> HIDE DEF y
  <2> QED
    BY <2>1, <2>2, <2>3
<1> QED
  BY <1>3, <1>4

LEMMA TurnKeeps ==
  ASSUME ScopesInv, NEW s \in ScopeIds, NEW v \in Voices, NEW kind,
         NEW e \in DOMAIN deals[s], NEW status \in {"open", "settled", "abandoned"},
         Turn(s, v, kind, e, status), UNCHANGED claimed,
         kind = "propose" => v \in Here(s)
  PROVE  deals' \in [ScopeIds -> Seq(Deal)] /\ ProposersLiveHere'
<1>1. deals \in [ScopeIds -> Seq(Deal)] /\ deals[s] \in Seq(Deal)
  BY DEF ScopesInv, ScopesTypeOK
<1>2. PICK y \in Deal :
        /\ deals' = [deals EXCEPT ![s] = [deals[s] EXCEPT ![e] = y]]
        /\ y.proposer = deals[s][e].proposer \/ (kind = "propose" /\ y.proposer = v)
  BY TurnGives DEF ScopesInv
<1>3. [deals[s] EXCEPT ![e] = y] \in Seq(Deal)
  BY <1>1
<1>4. deals' \in [ScopeIds -> Seq(Deal)]
  BY <1>1, <1>2, <1>3
<1>5. y.proposer \in Here(s)
  BY <1>2 DEF ScopesInv, ProposersLiveHere
<1>6. ASSUME NEW t \in ScopeIds, NEW f \in DOMAIN deals'[t]
      PROVE  deals'[t][f].proposer \in Here(t)
  <2>1. f \in DOMAIN deals[t] /\ deals'[t][f] = IF t = s /\ f = e THEN y ELSE deals[t][f]
    BY <1>1, <1>2
  <2> QED
    BY <1>5, <2>1 DEF ScopesInv, ProposersLiveHere
<1>7. \A t : Here(t)' = Here(t)
  BY DEF Here
<1> QED
  BY <1>4, <1>6, <1>7 DEF ProposersLiveHere

(***************************************************************************)
(* What the funnel says, and the funnel, for a voice that asks and         *)
(* proposes only where it lives.                                           *)
(***************************************************************************)
LEMMA SaidType ==
  ASSUME NEW s, NEW kind \in (VoiceKinds \cup {"settle"}) \ {"ask_principal"}, NEW e \in Nat
  PROVE  /\ Said(kind, e) \in Note /\ AsksHere(s, Said(kind, e))
         /\ Said(kind, e).kind = kind /\ Said(kind, e).exc = e
BY DEF Said, Note, AsksHere

LEMMA AskedType ==
  ASSUME ScopesTypeOK, NEW s \in ScopeIds, NEW v \in Residents, claimed[v] = s,
         NEW e \in DOMAIN deals[s]
  PROVE  /\ Asked(s, v, e) \in Note /\ AsksHere(s, Asked(s, v, e))
         /\ Asked(s, v, e).kind = "ask_principal" /\ Asked(s, v, e).exc = e
         /\ Asked(s, v, e).ask.offer = deals[s][e].offer
<1>1. deals[s] \in Seq(Deal) /\ e \in Nat
  BY DEF ScopesTypeOK
<1>2. deals[s][e].offer \in Nat
  BY OfferType
<1>3. [voice |-> v, scope |-> s, exc |-> e, offer |-> deals[s][e].offer] \in Ask
  BY <1>1, <1>2 DEF Ask
<1> QED
  BY <1>1, <1>3 DEF Asked, Note, AsksHere

LEMMA FunnelKeeps ==
  ASSUME ScopesInv, NEW s \in ScopeIds, NEW v \in Voices, NEW kind \in VoiceKinds,
         NEW e \in Nat, Funnel(s, v, kind, e), UNCHANGED claimed,
         kind = "ask_principal" => v \in Residents /\ claimed[v] = s /\ e \in DOMAIN deals[s],
         kind = "propose" => v \in Here(s)
  PROVE  /\ deals' \in [ScopeIds -> Seq(Deal)] /\ ProposersLiveHere'
         /\ QueuesFit' /\ NotesAskHere' /\ UNCHANGED unlisted
<1>1. PICK said : said = IF kind = "ask_principal" THEN Asked(s, v, e) ELSE Said(kind, e)
  OBVIOUS
<1>2. said \in Note /\ AsksHere(s, said)
  BY <1>1, AskedType, SaidType DEF ScopesInv
<1>3. UNCHANGED unlisted
  BY DEF Funnel
<1>4. CASE ~IsOpen(s, e) /\ UNCHANGED deals /\ Put(s, <<said>>)
  <2>1. QueuesFit' /\ NotesAskHere'
    BY <1>2, <1>4, PutOneKeeps
  <2> QED
    BY <1>3, <1>4, <2>1 DEF ScopesInv, ScopesTypeOK, ProposersLiveHere, Here
<1>5. CASE /\ IsOpen(s, e)
           /\ Turn(s, v, kind, e, IF kind = "withdraw" THEN "abandoned" ELSE "open")
           /\ Put(s, <<said>>)
  <2>1. QueuesFit' /\ NotesAskHere'
    BY <1>2, <1>5, PutOneKeeps
  <2> QED
    BY <1>3, <1>5, <2>1, TurnKeeps DEF IsOpen
<1>6. ASSUME Matches(s, v, kind, e),
             NEW r \in {[status |-> "settled", kind |-> "settle"],
                        [status |-> "abandoned", kind |-> "decline"]},
             Turn(s, v, kind, e, r.status),
             Put(s, <<said, Said(r.kind, e)>>)
      PROVE  /\ deals' \in [ScopeIds -> Seq(Deal)] /\ ProposersLiveHere'
             /\ QueuesFit' /\ NotesAskHere'
  <2>1. /\ r.kind \in (VoiceKinds \cup {"settle"}) \ {"ask_principal"}
        /\ r.status \in {"open", "settled", "abandoned"}
    BY DEF VoiceKinds
  <2>2. Said(r.kind, e) \in Note /\ AsksHere(s, Said(r.kind, e))
    BY <2>1, SaidType
  <2>3. QueuesFit' /\ NotesAskHere'
    BY <1>2, <1>6, <2>2, PutTwoKeeps
  <2> QED
    BY <1>6, <2>1, <2>3, TurnKeeps DEF Matches, IsOpen
<1> QED
  BY <1>1, <1>3, <1>4, <1>5, <1>6 DEF Funnel

-----------------------------------------------------------------------------
LEMMA InitInv ==
  ASSUME ScopesInit
  PROVE  ScopesInv
<1>1. \A s \in ScopeIds : Len(appendQ[s]) <= QueueSize
  <2>1. 0 <= QueueSize
    BY ScopesAssumption
  <2>2. Len(<<>>) = 0
    OBVIOUS
  <2>3. \A s \in ScopeIds : appendQ[s] = <<>>
    BY DEF ScopesInit
  <2> QED
    BY <2>1, <2>2, <2>3
<1>2. /\ claimed \in [Residents -> ScopeIds \cup {NoScope}]
      /\ deals \in [ScopeIds -> Seq(Deal)] /\ appendQ \in [ScopeIds -> Seq(Note)]
  BY DEF ScopesInit
<1>3. /\ DOMAIN index = {} /\ prompts = {} /\ unlisted = {}
      /\ answers \in [Calls -> Answer]
  BY DEF ScopesInit, Answer
<1>4. ScopesTypeOK
  BY <1>1, <1>2, <1>3 DEF ScopesTypeOK
<1>5. ProposersLiveHere /\ NotesAskHere
  BY DEF ScopesInit, ProposersLiveHere, NotesAskHere
<1>6. PromptsAskHere /\ AnswersAskHere
  BY DEF ScopesInit, PromptsAskHere, AnswersAskHere, Unposted
<1> QED
  BY <1>4, <1>5, <1>6 DEF ScopesInv

(***************************************************************************)
(* A claim takes a name nobody has: none of the asks and offers is its.    *)
(***************************************************************************)
LEMMA ClaimKeeps ==
  ASSUME ScopesInv, NEW v \in Residents, NEW s \in ScopeIds, Claim(v, s)
  PROVE  ScopesInv'
<1>1. /\ claimed \in [Residents -> ScopeIds \cup {NoScope}]
      /\ claimed[v] = NoScope /\ NoScope \notin ScopeIds
      /\ claimed' = [claimed EXCEPT ![v] = s]
  BY ScopesAssumption DEF Claim, ScopesInv, ScopesTypeOK
<1>2. ScopesTypeOK'
  BY <1>1 DEF Claim, ScopesInv, ScopesTypeOK
<1>3. ASSUME NEW w \in Residents, claimed[w] \in ScopeIds
      PROVE  claimed'[w] = claimed[w]
  BY <1>1, <1>3
<1>4. \A t \in ScopeIds : Here(t) \subseteq Here(t)'
  BY <1>3 DEF Here
<1>5. ProposersLiveHere'
  BY <1>4 DEF ProposersLiveHere, ScopesInv, Claim
<1>6. NotesAskHere'
  <2>1. ASSUME NEW t \in ScopeIds, NEW i \in DOMAIN appendQ[t],
               appendQ[t][i].kind = "ask_principal"
        PROVE  appendQ[t][i].ask.voice \in Residents
    <3>1. appendQ[t][i] \in Note
      BY DEF ScopesInv, ScopesTypeOK
    <3> QED
      BY <2>1, <3>1 DEF Note, Ask
  <2> QED
    BY <1>3, <2>1 DEF NotesAskHere, AsksHere, ScopesInv, Claim
<1>7. PromptsAskHere'
  BY <1>3 DEF PromptsAskHere, ScopesInv, ScopesTypeOK, Claim, Ask
<1>8. AnswersAskHere'
  <2>1. ASSUME NEW k \in Calls, answers[k].stage # "unused"
        PROVE  answers[k].ask \in Ask
    BY <2>1 DEF ScopesInv, ScopesTypeOK, Answer, Unposted
  <2> QED
    BY <1>3, <2>1 DEF AnswersAskHere, ScopesInv, Claim, Ask
<1> QED
  BY <1>2, <1>5, <1>6, <1>7, <1>8 DEF ScopesInv

LEMMA VoiceOpensKeeps ==
  ASSUME ScopesInv, NEW s \in ScopeIds, NEW v \in Voices, NEW to \in Addressed,
         VoiceOpens(s, v, to)
  PROVE  ScopesInv'
<1>1. PICK n : n = Len(deals[s]) + 1
  OBVIOUS
<1> DEFINE x == [status |-> "open", parts |-> {v} \cup to, proposer |-> v, offer |-> 1]
<1>2. deals \in [ScopeIds -> Seq(Deal)] /\ deals[s] \in Seq(Deal) /\ n \in Nat
  BY <1>1 DEF ScopesInv, ScopesTypeOK
<1>3. x \in Deal /\ x.proposer = v
  BY ScopesAssumption DEF Deal
<1>4. /\ deals' = [deals EXCEPT ![s] = Append(deals[s], x)] /\ Put(s, <<Said("propose", n)>>)
      /\ unlisted' \in {unlisted, unlisted \cup {<<s, n>>}}
      /\ v \in Here(s) /\ UNCHANGED <<claimed, index, prompts, answers>>
  BY <1>1 DEF VoiceOpens, Opening
<1> HIDE DEF x
<1>5. deals' \in [ScopeIds -> Seq(Deal)]
  BY <1>2, <1>3, <1>4
<1>6. ASSUME NEW t \in ScopeIds, NEW f \in DOMAIN deals'[t]
      PROVE  \/ f \in DOMAIN deals[t] /\ deals'[t][f] = deals[t][f]
             \/ t = s /\ deals'[t][f] = x
  BY <1>2, <1>3, <1>4
<1>7. ProposersLiveHere'
  BY <1>3, <1>4, <1>6 DEF ProposersLiveHere, ScopesInv, Here
<1>8. QueuesFit' /\ NotesAskHere'
  BY <1>2, <1>4, SaidType, PutOneKeeps DEF VoiceKinds
<1>9. unlisted' \subseteq ScopeIds \X Nat
  BY <1>2, <1>4 DEF ScopesInv, ScopesTypeOK
<1> QED
  BY <1>4, <1>5, <1>7, <1>8, <1>9
  DEF ScopesInv, ScopesTypeOK, QueuesFit, PromptsAskHere, AnswersAskHere

LEMMA VoiceSpeaksKeeps ==
  ASSUME ScopesInv, NEW s \in ScopeIds, NEW v \in Voices, NEW kind \in VoiceKinds,
         NEW e \in DOMAIN deals[s], VoiceSpeaks(s, v, kind, e)
  PROVE  ScopesInv'
<1>1. e \in Nat
  BY DEF ScopesInv, ScopesTypeOK
<1>2. v \in Here(s) /\ (kind = "ask_principal" => v \in Residents /\ claimed[v] = s)
  BY HereAreVoices DEF VoiceSpeaks, ScopesInv
<1>3. Funnel(s, v, kind, e) /\ UNCHANGED <<claimed, index, prompts, answers>>
  BY DEF VoiceSpeaks
<1>4. /\ deals' \in [ScopeIds -> Seq(Deal)] /\ ProposersLiveHere'
      /\ QueuesFit' /\ NotesAskHere' /\ UNCHANGED unlisted
  BY <1>1, <1>2, <1>3, FunnelKeeps
<1> QED
  BY <1>3, <1>4 DEF ScopesInv, ScopesTypeOK, QueuesFit, PromptsAskHere, AnswersAskHere

(***************************************************************************)
(* The writer: an ask becomes a prompt of the scope it was asked in.       *)
(***************************************************************************)
LEMMA RecordKeeps ==
  ASSUME ScopesInv, NEW s \in ScopeIds, Record(s)
  PROVE  ScopesInv'
<1> DEFINE q == appendQ[s]
           p == Head(q)
<1>1. /\ appendQ \in [ScopeIds -> Seq(Note)] /\ q \in Seq(Note) /\ q # <<>>
      /\ appendQ' = [appendQ EXCEPT ![s] = Tail(q)]
      /\ index' = Indexed(s, p) /\ prompts' \in {Shown(s, p), prompts}
      /\ UNCHANGED <<claimed, deals, answers, unlisted>>
  BY DEF Record, ScopesInv, ScopesTypeOK
<1>2. /\ Tail(q) \in Seq(Note) /\ p \in Note
      /\ \A i \in DOMAIN Tail(q) : i + 1 \in DOMAIN q /\ Tail(q)[i] = q[i + 1]
      /\ 1 \in DOMAIN q /\ p = q[1]
  BY <1>1, SeqTail
<1>3. AsksHere(s, p)
  BY <1>2 DEF ScopesInv, NotesAskHere
<1>4. p.exc \in Nat
  BY <1>2 DEF Note
<1>5. p.kind = "ask_principal" => p.ask \in Ask
  BY <1>2 DEF Note
<1>6. Len(Tail(q)) <= Len(q) /\ \A t \in ScopeIds : Len(appendQ[t]) <= QueueSize
  BY <1>1 DEF ScopesInv, ScopesTypeOK
<1>7. \A t \in ScopeIds : Len(appendQ'[t]) <= QueueSize
  <2>1. ASSUME NEW t \in ScopeIds
        PROVE  Len(appendQ'[t]) <= QueueSize
    <3>1. CASE t = s
      <4>1. appendQ'[t] = Tail(q)
        BY <1>1, <3>1
      <4>2. Len(Tail(q)) = Len(q) - 1 /\ Len(q) \in Nat
        BY <1>1
      <4> QED
        BY <1>6, <4>1, <4>2, ScopesAssumption
    <3>2. CASE t # s
      BY <1>1, <1>6, <3>2
    <3> QED
      BY <3>1, <3>2
  <2> QED
    BY <2>1
<1> HIDE DEF q, p
<1>8. appendQ' \in [ScopeIds -> Seq(Note)]
  BY <1>1, <1>2
<1>9. NotesAskHere'
  BY <1>1, <1>2 DEF NotesAskHere, AsksHere, ScopesInv, q
<1>10. DOMAIN index' \subseteq Nat /\ \A e \in DOMAIN index' : index'[e] \in ScopeIds
  BY <1>1, <1>4 DEF Indexed, ScopesInv, ScopesTypeOK
<1>11. \A a \in prompts' :
         a \in prompts \/ (a \in Ask /\ claimed[a.voice] = a.scope)
  BY <1>1, <1>3, <1>5 DEF Shown, AsksHere
<1>12. prompts' \subseteq Ask /\ PromptsAskHere'
  BY <1>1, <1>11 DEF ScopesInv, ScopesTypeOK, PromptsAskHere
<1>13. ProposersLiveHere' /\ AnswersAskHere'
  BY <1>1 DEF ScopesInv, ProposersLiveHere, AnswersAskHere, Here
<1> QED
  BY <1>1, <1>7, <1>8, <1>9, <1>10, <1>12, <1>13 DEF ScopesInv, ScopesTypeOK

-----------------------------------------------------------------------------
(***************************************************************************)
(* The stages of an answer keep whose answer it is to what.                *)
(***************************************************************************)
LEMMA AnswerType ==
  ASSUME ScopesInv, NEW k \in Calls, answers[k].stage # "unused"
  PROVE  /\ answers[k].ask \in Ask /\ answers[k].approve \in BOOLEAN
         /\ claimed[answers[k].ask.voice] = answers[k].ask.scope
         /\ answers[k].stage \in {"found", "ready", "nothing", "landed"}
              => answers[k].at \in ScopeIds
<1>1. answers[k] \in Answer /\ claimed[answers[k].ask.voice] = answers[k].ask.scope
  BY DEF ScopesInv, ScopesTypeOK, AnswersAskHere
<1>2. \/ answers[k] \in [stage : {"sent", "lost", "unknown"}, ask : Ask, approve : BOOLEAN]
      \/ answers[k] \in [stage : {"found", "ready", "nothing", "landed"}, ask : Ask,
                         approve : BOOLEAN, at : ScopeIds]
  BY <1>1 DEF Answer, Unposted
<1> QED
  BY <1>1, <1>2

LEMMA MovesKeep ==
  ASSUME ScopesInv, NEW k \in Calls, NEW a \in Answer \ {Unposted},
         answers' = [answers EXCEPT ![k] = a],
         claimed[a.ask.voice] = a.ask.scope, UNCHANGED claimed
  PROVE  answers' \in [Calls -> Answer] /\ AnswersAskHere'
<1>1. answers \in [Calls -> Answer]
  BY DEF ScopesInv, ScopesTypeOK
<1>2. answers' \in [Calls -> Answer]
  BY <1>1
<1>3. \A j \in Calls : answers'[j] = IF j = k THEN a ELSE answers[j]
  BY <1>1
<1> QED
  BY <1>2, <1>3 DEF AnswersAskHere, ScopesInv

LEMMA PostKeeps ==
  ASSUME ScopesInv, NEW k \in Calls, NEW a \in prompts, NEW approve \in BOOLEAN,
         Post(k, a, approve)
  PROVE  ScopesInv'
<1> DEFINE b == [stage |-> "sent", ask |-> a, approve |-> approve]
<1>1. a \in Ask /\ claimed[a.voice] = a.scope
  BY DEF ScopesInv, ScopesTypeOK, PromptsAskHere
<1>2. b \in Answer \ {Unposted} /\ b.ask = a
  BY <1>1 DEF Answer, Unposted
<1>3. /\ answers' = [answers EXCEPT ![k] = b] /\ prompts' \subseteq prompts
      /\ UNCHANGED <<claimed, deals, appendQ, index, unlisted>>
  BY DEF Post
<1> HIDE DEF b
<1>4. answers' \in [Calls -> Answer] /\ AnswersAskHere'
  BY <1>1, <1>2, <1>3, MovesKeep
<1> QED
  BY <1>3, <1>4 DEF ScopesInv, ScopesTypeOK, ProposersLiveHere, NotesAskHere, AsksHere,
                     PromptsAskHere, Here

LEMMA PostIsLostKeeps ==
  ASSUME ScopesInv, NEW k \in Calls, PostIsLost(k)
  PROVE  ScopesInv'
<1> DEFINE b == [answers[k] EXCEPT !.stage = "lost"]
<1>1. answers \in [Calls -> Answer] /\ answers[k].stage = "sent"
  BY DEF ScopesInv, ScopesTypeOK, PostIsLost
<1>2. answers[k] \in [stage : {"sent", "lost", "unknown"}, ask : Ask, approve : BOOLEAN]
  BY <1>1 DEF Answer, Unposted
<1>3. b \in Answer \ {Unposted} /\ b.ask = answers[k].ask
  BY <1>2 DEF Answer, Unposted
<1>4. /\ answers' = [answers EXCEPT ![k] = b]
      /\ UNCHANGED <<claimed, deals, appendQ, index, prompts, unlisted>>
  BY DEF PostIsLost
<1>5. claimed[b.ask.voice] = b.ask.scope
  BY <1>1, <1>3, AnswerType
<1> HIDE DEF b
<1>6. answers' \in [Calls -> Answer] /\ AnswersAskHere'
  BY <1>3, <1>4, <1>5, MovesKeep
<1> QED
  BY <1>4, <1>6 DEF ScopesInv, ScopesTypeOK, ProposersLiveHere, NotesAskHere, AsksHere,
                     PromptsAskHere, Here

LEMMA RoutedType ==
  ASSUME ScopesInv, NEW k \in Calls, answers[k].stage # "unused",
         NEW stage \in {"found", "ready", "nothing", "landed"}, NEW s \in ScopeIds
  PROVE  LET b == Routed(answers[k], stage, s)
         IN  b \in Answer \ {Unposted} /\ b.ask = answers[k].ask
BY AnswerType DEF Routed, Answer, Unposted

LEMMA LookKeeps ==
  ASSUME ScopesInv, NEW k \in Calls, Look(k)
  PROVE  ScopesInv'
<1>1. answers \in [Calls -> Answer] /\ answers[k].stage = "sent"
      /\ UNCHANGED <<claimed, deals, appendQ, index, prompts, unlisted>>
  BY DEF ScopesInv, ScopesTypeOK, Look
<1>2. answers[k] \in [stage : {"sent", "lost", "unknown"}, ask : Ask, approve : BOOLEAN]
  BY <1>1 DEF Answer, Unposted
<1>3. PICK b : /\ answers' = [answers EXCEPT ![k] = b]
               /\ b \in Answer \ {Unposted} /\ b.ask = answers[k].ask
  <2>1. CASE answers[k].ask.exc \notin DOMAIN index
    <3>1. answers' = [answers EXCEPT ![k] = [answers[k] EXCEPT !.stage = "unknown"]]
      BY <2>1 DEF Look
    <3>2. [answers[k] EXCEPT !.stage = "unknown"] \in Answer \ {Unposted}
          /\ [answers[k] EXCEPT !.stage = "unknown"].ask = answers[k].ask
      BY <1>2 DEF Answer, Unposted
    <3> QED
      BY <3>1, <3>2
  <2>2. CASE answers[k].ask.exc \in DOMAIN index
    <3> DEFINE stage == IF answers[k].approve THEN "found" ELSE "ready"
               s == index[answers[k].ask.exc]
    <3>1. answers' = [answers EXCEPT ![k] = Routed(answers[k], stage, s)]
      BY <2>2 DEF Look
    <3>2. s \in ScopeIds /\ stage \in {"found", "ready", "nothing", "landed"}
      BY <2>2 DEF ScopesInv, ScopesTypeOK
    <3> HIDE DEF stage, s
    <3> QED
      BY <1>1, <3>1, <3>2, RoutedType
  <2> QED
    BY <2>1, <2>2
<1>4. claimed[b.ask.voice] = b.ask.scope
  BY <1>1, <1>3, AnswerType
<1>5. answers' \in [Calls -> Answer] /\ AnswersAskHere'
  BY <1>1, <1>3, <1>4, MovesKeep
<1> QED
  BY <1>1, <1>5 DEF ScopesInv, ScopesTypeOK, ProposersLiveHere, NotesAskHere, AsksHere,
                     PromptsAskHere, Here

LEMMA PendingKeeps ==
  ASSUME ScopesInv, NEW k \in Calls, Pending(k)
  PROVE  ScopesInv'
<1> DEFINE stage == IF IsOpen(answers[k].at, answers[k].ask.exc) THEN "ready" ELSE "nothing"
           b == Routed(answers[k], stage, answers[k].at)
<1>1. /\ answers[k].stage = "found" /\ answers' = [answers EXCEPT ![k] = b]
      /\ UNCHANGED <<claimed, deals, appendQ, index, prompts, unlisted>>
  BY DEF Pending
<1>2. /\ answers[k].at \in ScopeIds /\ stage \in {"found", "ready", "nothing", "landed"}
      /\ claimed[answers[k].ask.voice] = answers[k].ask.scope
  BY <1>1, AnswerType
<1> HIDE DEF stage
<1>3. b \in Answer \ {Unposted} /\ b.ask = answers[k].ask
  BY <1>1, <1>2, RoutedType
<1> HIDE DEF b
<1>4. answers' \in [Calls -> Answer] /\ AnswersAskHere'
  BY <1>1, <1>2, <1>3, MovesKeep
<1> QED
  BY <1>1, <1>4 DEF ScopesInv, ScopesTypeOK, ProposersLiveHere, NotesAskHere, AsksHere,
                     PromptsAskHere, Here

(***************************************************************************)
(* What lands, in whichever scope, is an accept or a decline, never an ask.*)
(***************************************************************************)
LEMMA LandKeeps ==
  ASSUME ScopesInv, NEW k \in Calls, Land(k)
  PROVE  ScopesInv'
<1> DEFINE a == answers[k]
           kind == IF a.approve THEN "accept" ELSE "decline"
           b == Routed(a, "landed", a.at)
<1>1. /\ a.stage = "ready" /\ Funnel(a.at, a.ask.voice, kind, a.ask.exc)
      /\ answers' = [answers EXCEPT ![k] = b]
      /\ UNCHANGED <<claimed, index, prompts>>
  BY DEF Land
<1>2. /\ a.at \in ScopeIds /\ a.ask \in Ask
      /\ claimed[a.ask.voice] = a.ask.scope
      /\ kind \in VoiceKinds \ {"ask_principal", "propose"}
  BY <1>1, AnswerType DEF VoiceKinds
<1>3. b \in Answer \ {Unposted} /\ b.ask = a.ask
  BY <1>1, <1>2, RoutedType
<1>4. a.ask.voice \in Voices /\ a.ask.exc \in Nat
  BY <1>2 DEF Ask, Voices
<1> HIDE DEF a, b, kind
<1>5. /\ deals' \in [ScopeIds -> Seq(Deal)] /\ ProposersLiveHere'
      /\ QueuesFit' /\ NotesAskHere' /\ UNCHANGED unlisted
  BY <1>1, <1>2, <1>4, FunnelKeeps
<1>6. answers' \in [Calls -> Answer] /\ AnswersAskHere'
  BY <1>1, <1>2, <1>3, MovesKeep
<1> QED
  BY <1>1, <1>5, <1>6 DEF ScopesInv, ScopesTypeOK, QueuesFit, PromptsAskHere

-----------------------------------------------------------------------------
(***************************************************************************)
(* Every step keeps the invariant.                                         *)
(***************************************************************************)
LEMMA NextKeeps ==
  ASSUME ScopesInv, [ScopesNext]_vars
  PROVE  ScopesInv'
<1>1. CASE UNCHANGED vars
  BY <1>1 DEF vars, ScopesInv, ScopesTypeOK, ProposersLiveHere, NotesAskHere, AsksHere,
              PromptsAskHere, AnswersAskHere, Here
<1>2. CASE ScopesNext
  BY <1>2, ClaimKeeps, VoiceOpensKeeps, VoiceSpeaksKeeps, RecordKeeps, PostKeeps,
     PostIsLostKeeps, LookKeeps, PendingKeeps, LandKeeps DEF ScopesNext
<1> QED
  BY <1>1, <1>2

LEMMA ScopesInvariant == ScopesSpec => []ScopesInv
  BY InitInv, NextKeeps, PTL DEF ScopesSpec

(***************************************************************************)
(* Claims, exchanges, asks and answers keep their types and no queue holds *)
(* more than it has room for, for any number of scopes, residents, answers *)
(* and exchanges and queues of any size.                                   *)
(***************************************************************************)
THEOREM ScopesTypeCorrect == ScopesSpec => []ScopesTypeOK
<1>1. ScopesInv => ScopesTypeOK
  BY DEF ScopesInv
<1> QED
  BY <1>1, ScopesInvariant, PTL

-----------------------------------------------------------------------------
(***************************************************************************)
(* Why only a twin or a dropped opening leads an answer astray.  An        *)
(* exchange is alone when it is open, no other scope has one of its        *)
(* number, and the proposal that opened it came onto its queue.            *)
(***************************************************************************)
Alone(s, e) ==
  /\ IsOpen(s, e) /\ <<s, e>> \notin unlisted
  /\ \A t \in ScopeIds \ {s} : e \notin DOMAIN deals[t]

(***************************************************************************)
(* What is queued, indexed, asked and answered is about exchanges the      *)
(* scope in question has, and no ask is ahead of its exchange's offers.    *)
(***************************************************************************)
AskStands(a) ==
  a.exc \in DOMAIN deals[a.scope] /\ a.offer <= deals[a.scope][a.exc].offer

NoteStands(s, note) ==
  /\ note.exc \in DOMAIN deals[s]
  /\ note.kind = "ask_principal" => AskStands(note.ask)

NotesOfDeals ==
  \A s \in ScopeIds : \A i \in DOMAIN appendQ[s] : NoteStands(s, appendQ[s][i])

IndexOfDeals == \A e \in DOMAIN index : e \in DOMAIN deals[index[e]]

AnswerPlaced(a) ==
  /\ a.stage # "unused" => AskStands(a.ask)
  /\ a.stage \in {"found", "ready", "nothing", "landed"} => a.ask.exc \in DOMAIN deals[a.at]

AsksOfDeals ==
  /\ \A a \in prompts : AskStands(a)
  /\ \A k \in Calls : AnswerPlaced(answers[k])

(***************************************************************************)
(* Nothing on a queue closes an open exchange; the first that is said in   *)
(* one is a proposal; so the index knows an exchange that is alone once an *)
(* ask in it has been shown.                                               *)
(***************************************************************************)
OpenIsNotPruned ==
  \A s \in ScopeIds : \A i \in DOMAIN appendQ[s] :
    IsOpen(s, appendQ[s][i].exc) => appendQ[s][i].kind \notin {"settle", "withdraw"}

ProposedFirst(s, e) ==
  \E i \in DOMAIN appendQ[s] :
    /\ appendQ[s][i].exc = e /\ appendQ[s][i].kind = "propose"
    /\ \A j \in 1 .. i - 1 : appendQ[s][j].exc # e

IndexKnows ==
  \A s \in ScopeIds : \A e \in DOMAIN deals[s] :
    Alone(s, e) => e \in DOMAIN index \/ ProposedFirst(s, e)

AnswerKnown(a) ==
  /\ a.stage = "sent" /\ Alone(a.ask.scope, a.ask.exc) => a.ask.exc \in DOMAIN index
  /\ a.stage = "unknown" => ~Alone(a.ask.scope, a.ask.exc)
  /\ a.stage = "nothing" /\ a.at = a.ask.scope => ~IsOpen(a.ask.scope, a.ask.exc)

AskedIsKnown ==
  /\ \A a \in prompts : Alone(a.scope, a.exc) => a.exc \in DOMAIN index
  /\ \A k \in Calls : AnswerKnown(answers[k])

AstrayInv ==
  /\ NotesOfDeals /\ IndexOfDeals /\ AsksOfDeals
  /\ OpenIsNotPruned /\ IndexKnows /\ AskedIsKnown

(***************************************************************************)
(* Exchanges come and close; none goes away, opens again or takes an offer *)
(* back.  So one the scope had before that is alone now was alone before.  *)
(***************************************************************************)
Grown ==
  /\ unlisted \subseteq unlisted'
  /\ \A s \in ScopeIds : \A e \in DOMAIN deals[s] :
       /\ e \in DOMAIN deals'[s]
       /\ IsOpen(s, e)' => IsOpen(s, e)
       /\ \A n \in Nat : n <= deals[s][e].offer => n <= deals'[s][e].offer

LEMMA AloneBefore ==
  ASSUME Grown, NEW s \in ScopeIds, NEW e \in DOMAIN deals[s], Alone(s, e)'
  PROVE  Alone(s, e)
BY DEF Grown, Alone

LEMMA AskStaysStanding ==
  ASSUME Grown, NEW a \in Ask, AskStands(a)
  PROVE  AskStands(a)'
BY DEF Grown, AskStands, Ask

LEMMA NoGrowth ==
  ASSUME UNCHANGED <<deals, unlisted>>
  PROVE  Grown
BY DEF Grown, IsOpen

LEMMA TurnGrows ==
  ASSUME ScopesInv, NEW s \in ScopeIds, NEW v \in Voices, NEW kind, NEW e,
         NEW status \in {"open", "settled", "abandoned"},
         IsOpen(s, e), Turn(s, v, kind, e, status), UNCHANGED unlisted
  PROVE  Grown /\ (status # "open" => ~IsOpen(s, e)')
         /\ \A t \in ScopeIds : DOMAIN deals'[t] = DOMAIN deals[t]
<1>1. deals \in [ScopeIds -> Seq(Deal)] /\ deals[s] \in Seq(Deal) /\ e \in DOMAIN deals[s]
  BY DEF ScopesInv, ScopesTypeOK, IsOpen
<1>2. PICK y \in Deal :
        /\ deals' = [deals EXCEPT ![s] = [deals[s] EXCEPT ![e] = y]]
        /\ y.status = status
        /\ y.offer \in {deals[s][e].offer, deals[s][e].offer + 1}
  BY <1>1, TurnGives DEF ScopesInv
<1>3. deals[s][e].offer \in Nat
  BY <1>1, OfferType DEF ScopesInv
<1>4. \A t \in ScopeIds : deals'[t] = IF t = s THEN [deals[s] EXCEPT ![e] = y] ELSE deals[t]
  BY <1>1, <1>2
<1>5. \A t \in ScopeIds : DOMAIN deals'[t] = DOMAIN deals[t]
  BY <1>4
<1>6. \A t \in ScopeIds : \A f \in DOMAIN deals[t] :
        deals'[t][f] = IF t = s /\ f = e THEN y ELSE deals[t][f]
  BY <1>1, <1>4
<1>7. ASSUME NEW t \in ScopeIds, NEW f \in DOMAIN deals[t], IsOpen(t, f)'
      PROVE  IsOpen(t, f)
  BY <1>6, <1>7 DEF IsOpen
<1>8. ASSUME NEW t \in ScopeIds, NEW f \in DOMAIN deals[t],
             NEW n \in Nat, n <= deals[t][f].offer
      PROVE  n <= deals'[t][f].offer
  <2>1. CASE t = s /\ f = e
    <3>1. deals'[t][f].offer \in {deals[s][e].offer, deals[s][e].offer + 1}
      BY <1>2, <1>6, <2>1
    <3> QED
      BY <1>3, <1>8, <2>1, <3>1
  <2> QED
    BY <1>6, <1>8, <2>1
<1>9. Grown
  BY <1>5, <1>7, <1>8 DEF Grown
<1> QED
  BY <1>1, <1>2, <1>5, <1>6, <1>9 DEF IsOpen

(***************************************************************************)
(* What the funnel says is said in the exchange it is given, and is never  *)
(* a settle or a withdraw unless it closes it.                             *)
(***************************************************************************)
Speech(s, e, note) ==
  /\ NoteStands(s, note) /\ note.exc = e
  /\ IsOpen(s, e) => note.kind \notin {"settle", "withdraw"}

LEMMA FunnelSays ==
  ASSUME ScopesInv, NEW s \in ScopeIds, NEW v \in Voices, NEW kind \in VoiceKinds,
         NEW e \in DOMAIN deals[s], Funnel(s, v, kind, e),
         kind = "ask_principal" => v \in Residents /\ claimed[v] = s
  PROVE  /\ Grown /\ \A t \in ScopeIds : DOMAIN deals'[t] = DOMAIN deals[t]
         /\ \E notes \in Seq(Note) :
              Put(s, notes) /\ \A i \in DOMAIN notes : Speech(s, e, notes[i])'
<1>1. e \in Nat /\ ScopesTypeOK /\ UNCHANGED unlisted
  BY DEF ScopesInv, ScopesTypeOK, Funnel
<1>2. PICK n : n = IF kind = "ask_principal" THEN Asked(s, v, e) ELSE Said(kind, e)
  OBVIOUS
<1>3. n \in Note /\ n.kind = kind /\ n.exc = e /\ kind # "settle"
  <2>1. kind # "settle"
    BY DEF VoiceKinds
  <2>2. CASE kind = "ask_principal"
    <3>1. n = Asked(s, v, e)
      BY <1>2, <2>2
    <3> QED
      BY <1>1, <2>1, <2>2, <3>1, AskedType
  <2>3. CASE kind # "ask_principal"
    <3>1. n = Said(kind, e)
      BY <1>2, <2>3
    <3> QED
      BY <1>1, <2>1, <2>3, <3>1, SaidType
  <2> QED
    BY <2>2, <2>3
<1>4. n.kind = "ask_principal" => n.ask \in Ask /\ AskStands(n.ask)
  <2>1. SUFFICES ASSUME kind = "ask_principal"
                 PROVE  n.ask \in Ask /\ AskStands(n.ask)
    BY <1>3
  <2>2. n = Asked(s, v, e) /\ AsksHere(s, n) /\ n.ask.offer = deals[s][e].offer
    BY <1>1, <1>2, <2>1, AskedType
  <2>3. n.ask \in Ask
    BY <1>3, <2>1 DEF Note
  <2>4. n.ask.scope = s /\ n.ask.exc = e /\ n.ask.offer \in Nat
    BY <1>3, <2>1, <2>2, <2>3 DEF AsksHere, Ask
  <2> QED
    BY <2>2, <2>3, <2>4 DEF AskStands
<1>5. ASSUME Grown, IsOpen(s, e)' => kind # "withdraw"
      PROVE  Speech(s, e, n)'
  <2>1. n.kind = "ask_principal" => AskStands(n.ask)'
    BY <1>4, <1>5, AskStaysStanding
  <2>2. e \in DOMAIN deals'[s]
    BY <1>5 DEF Grown
  <2> QED
    BY <1>3, <1>5, <2>1, <2>2 DEF Speech, NoteStands
<1> DEFINE one == <<n>>
<1>6. one \in Seq(Note) /\ \A i \in DOMAIN one : one[i] = n
  BY <1>3
<1>7. CASE ~IsOpen(s, e) /\ UNCHANGED deals /\ Put(s, one)
  <2>1. ~IsOpen(s, e)' /\ \A t \in ScopeIds : DOMAIN deals'[t] = DOMAIN deals[t]
    BY <1>7 DEF IsOpen
  <2>2. Grown
    BY <1>1, <1>7, NoGrowth
  <2> HIDE DEF one
  <2> QED
    BY <1>5, <1>6, <1>7, <2>1, <2>2
<1>8. CASE /\ IsOpen(s, e) /\ Put(s, one)
           /\ Turn(s, v, kind, e, IF kind = "withdraw" THEN "abandoned" ELSE "open")
  <2>1. Grown /\ \A t \in ScopeIds : DOMAIN deals'[t] = DOMAIN deals[t]
    BY <1>1, <1>8, TurnGrows
  <2>2. kind = "withdraw" => ~IsOpen(s, e)'
    BY <1>1, <1>8, TurnGrows
  <2> HIDE DEF one
  <2> QED
    BY <1>5, <1>6, <1>8, <2>1, <2>2
<1>9. ASSUME Matches(s, v, kind, e),
             NEW r \in {[status |-> "settled", kind |-> "settle"],
                        [status |-> "abandoned", kind |-> "decline"]},
             Turn(s, v, kind, e, r.status), Put(s, <<n, Said(r.kind, e)>>)
      PROVE  /\ Grown /\ \A t \in ScopeIds : DOMAIN deals'[t] = DOMAIN deals[t]
             /\ \E notes \in Seq(Note) :
                  Put(s, notes) /\ \A i \in DOMAIN notes : Speech(s, e, notes[i])'
  <2>1. /\ r.kind \in (VoiceKinds \cup {"settle"}) \ {"ask_principal"}
        /\ r.status \in {"settled", "abandoned"}
    BY DEF VoiceKinds
  <2>2. PICK c : c = Said(r.kind, e)
    OBVIOUS
  <2>3. c \in Note /\ c.exc = e /\ c.kind # "ask_principal" /\ IsOpen(s, e)
    BY <1>1, <1>9, <2>1, <2>2, SaidType DEF Matches
  <2>4. /\ Grown /\ \A t \in ScopeIds : DOMAIN deals'[t] = DOMAIN deals[t]
        /\ ~IsOpen(s, e)'
    BY <1>1, <1>9, <2>1, <2>3, TurnGrows
  <2>5. Speech(s, e, n)' /\ Speech(s, e, c)'
    BY <1>5, <2>3, <2>4 DEF Speech, NoteStands, Grown
  <2> DEFINE two == <<n, c>>
  <2>6. two \in Seq(Note) /\ \A i \in DOMAIN two : two[i] \in {n, c}
    BY <1>3, <2>3
  <2>7. Put(s, two)
    BY <1>9, <2>2
  <2> HIDE DEF two
  <2>8. \A i \in DOMAIN two : Speech(s, e, two[i])'
    BY <2>5, <2>6
  <2> QED
    BY <2>4, <2>6, <2>7, <2>8
<1> QED
  BY <1>2, <1>7, <1>8, <1>9 DEF Funnel

(***************************************************************************)
(* What is said goes behind what was said before it.                       *)
(***************************************************************************)
LEMMA FirstStays ==
  ASSUME ScopesInv, NEW s \in ScopeIds, NEW notes \in Seq(Note), Put(s, notes),
         NEW t \in ScopeIds, NEW e, ProposedFirst(t, e)
  PROVE  ProposedFirst(t, e)'
<1>1. appendQ[t] \in Seq(Note)
  BY DEF ScopesInv, ScopesTypeOK
<1>2. \A i \in DOMAIN appendQ[t] : i \in DOMAIN appendQ'[t] /\ appendQ'[t][i] = appendQ[t][i]
  BY PutAdds DEF ScopesInv
<1>3. PICK i \in DOMAIN appendQ[t] :
        /\ appendQ[t][i].exc = e /\ appendQ[t][i].kind = "propose"
        /\ \A j \in 1 .. i - 1 : appendQ[t][j].exc # e
  BY DEF ProposedFirst
<1>4. \A j \in 1 .. i - 1 : j \in DOMAIN appendQ[t]
  BY <1>1
<1> QED
  BY <1>2, <1>3, <1>4 DEF ProposedFirst

LEMMA SayingKeeps ==
  ASSUME ScopesInv, AstrayInv, Grown, UNCHANGED index,
         NEW s \in ScopeIds, NEW notes \in Seq(Note), Put(s, notes),
         NEW e, \A i \in DOMAIN notes : Speech(s, e, notes[i])',
         \A t \in ScopeIds : \A f \in DOMAIN deals'[t] :
           f \in DOMAIN deals[t] \/ ProposedFirst(t, f)' \/ <<t, f>> \in unlisted'
  PROVE  NotesOfDeals' /\ IndexOfDeals' /\ OpenIsNotPruned' /\ IndexKnows'
<1>1. \A t \in ScopeIds : \A i \in DOMAIN appendQ'[t] :
        \/ i \in DOMAIN appendQ[t] /\ appendQ'[t][i] = appendQ[t][i]
        \/ t = s /\ \E j \in DOMAIN notes : appendQ'[t][i] = notes[j]
  BY PutAdds DEF ScopesInv
<1>2. ASSUME NEW t \in ScopeIds, NEW i \in DOMAIN appendQ[t], NEW c, c = appendQ[t][i]
      PROVE  NoteStands(t, c)'
  <2>1. c \in Note /\ NoteStands(t, c)
    BY <1>2 DEF ScopesInv, ScopesTypeOK, AstrayInv, NotesOfDeals
  <2>2. c.kind = "ask_principal" => c.ask \in Ask
    BY <2>1 DEF Note
  <2>3. c.kind = "ask_principal" => AskStands(c.ask)'
    BY <2>1, <2>2, AskStaysStanding DEF NoteStands
  <2> QED
    BY <2>1, <2>3 DEF NoteStands, Grown
<1>3. ASSUME NEW t \in ScopeIds, NEW i \in DOMAIN appendQ[t], NEW c, c = appendQ[t][i],
             IsOpen(t, c.exc)'
      PROVE  c.kind \notin {"settle", "withdraw"}
  <2>1. c.exc \in DOMAIN deals[t]
    BY <1>3 DEF AstrayInv, NotesOfDeals, NoteStands
  <2>2. IsOpen(t, c.exc)
    BY <1>3, <2>1 DEF Grown
  <2> QED
    BY <1>3, <2>2 DEF AstrayInv, OpenIsNotPruned
<1>4. ASSUME NEW t \in ScopeIds, NEW i \in DOMAIN appendQ'[t], NEW c, c = appendQ'[t][i]
      PROVE  /\ NoteStands(t, c)'
             /\ IsOpen(t, c.exc)' => c.kind \notin {"settle", "withdraw"}
  <2>1. CASE i \in DOMAIN appendQ[t] /\ appendQ'[t][i] = appendQ[t][i]
    BY <1>2, <1>3, <1>4, <2>1
  <2>2. ASSUME t = s, NEW j \in DOMAIN notes, appendQ'[t][i] = notes[j]
        PROVE  Speech(t, e, c)'
    <3>1. Speech(s, e, notes[j])'
      OBVIOUS
    <3>2. c = notes[j]
      BY <1>4, <2>2
    <3> QED
      BY <2>2, <3>1, <3>2 DEF Speech, NoteStands
  <2> QED
    BY <1>1, <2>1, <2>2 DEF Speech
<1>5. NotesOfDeals' /\ OpenIsNotPruned'
  BY <1>4 DEF NotesOfDeals, OpenIsNotPruned, NoteStands
<1>6. IndexOfDeals'
  BY DEF AstrayInv, IndexOfDeals, ScopesInv, ScopesTypeOK, Grown
<1>7. ASSUME NEW t \in ScopeIds, NEW f \in DOMAIN deals'[t], Alone(t, f)'
      PROVE  f \in DOMAIN index' \/ ProposedFirst(t, f)'
  <2>1. CASE f \in DOMAIN deals[t]
    BY <1>7, <2>1, AloneBefore, FirstStays DEF AstrayInv, IndexKnows
  <2>2. <<t, f>> \notin unlisted'
    BY <1>7 DEF Alone
  <2> QED
    BY <2>1, <2>2
<1>8. IndexKnows'
  BY <1>7 DEF IndexKnows
<1> QED
  BY <1>5, <1>6, <1>8

(***************************************************************************)
(* What stood asked or answered stays known, as long as the index keeps    *)
(* the exchanges that are alone.                                           *)
(***************************************************************************)
IndexStays ==
  \A s \in ScopeIds : \A e \in DOMAIN deals[s] :
    Alone(s, e)' /\ e \in DOMAIN index => e \in DOMAIN index'

LEMMA PromptStays ==
  ASSUME ScopesInv, AstrayInv, Grown, IndexStays, NEW a \in prompts
  PROVE  AskStands(a)' /\ (Alone(a.scope, a.exc)' => a.exc \in DOMAIN index')
<1>1. a \in Ask /\ AskStands(a)
  BY DEF ScopesInv, ScopesTypeOK, AstrayInv, AsksOfDeals
<1>2. a.scope \in ScopeIds /\ a.exc \in DOMAIN deals[a.scope]
  BY <1>1 DEF Ask, AskStands
<1>3. Alone(a.scope, a.exc) => a.exc \in DOMAIN index
  BY DEF AstrayInv, AskedIsKnown
<1>4. Alone(a.scope, a.exc)' => Alone(a.scope, a.exc)
  BY <1>2, AloneBefore
<1>5. AskStands(a)'
  BY <1>1, AskStaysStanding
<1> QED
  BY <1>2, <1>3, <1>4, <1>5 DEF IndexStays

LEMMA AnswerStays ==
  ASSUME ScopesInv, AstrayInv, Grown, IndexStays, NEW k \in Calls, NEW b, b = answers[k]
  PROVE  AnswerPlaced(b)' /\ AnswerKnown(b)'
<1>1. AnswerPlaced(b) /\ AnswerKnown(b)
  BY DEF AstrayInv, AsksOfDeals, AskedIsKnown
<1>2. CASE b.stage = "unused"
  BY <1>2 DEF AnswerPlaced, AnswerKnown
<1>3. CASE b.stage # "unused"
  <2> DEFINE s == b.ask.scope
             e == b.ask.exc
  <2>1. s \in ScopeIds /\ e \in DOMAIN deals[s] /\ b.ask \in Ask /\ AskStands(b.ask)
    BY <1>1, <1>3, AnswerType DEF AnswerPlaced, AskStands, Ask
  <2>2. b.stage \in {"found", "ready", "nothing", "landed"}
          => b.at \in ScopeIds /\ e \in DOMAIN deals[b.at]
    BY <1>1, <1>3, AnswerType DEF AnswerPlaced
  <2>3. Alone(s, e)' => Alone(s, e)
    BY <2>1, AloneBefore
  <2>4. IsOpen(s, e)' => IsOpen(s, e)
    BY <2>1 DEF Grown
  <2>5. AnswerPlaced(b)'
    BY <2>1, <2>2, AskStaysStanding DEF AnswerPlaced, Grown
  <2>6. AnswerKnown(b)'
    BY <1>1, <2>1, <2>3, <2>4 DEF AnswerKnown, IndexStays
  <2> QED
    BY <2>5, <2>6
<1> QED
  BY <1>2, <1>3

LEMMA AnswersStay ==
  ASSUME ScopesInv, AstrayInv, Grown, IndexStays, UNCHANGED answers
  PROVE  \A k \in Calls : (AnswerPlaced(answers[k]) /\ AnswerKnown(answers[k]))'
<1>1. ASSUME NEW k \in Calls
      PROVE  (AnswerPlaced(answers[k]) /\ AnswerKnown(answers[k]))'
  <2>1. PICK b : b = answers[k]
    OBVIOUS
  <2>2. AnswerPlaced(b)' /\ AnswerKnown(b)'
    BY <2>1, AnswerStays
  <2>3. b = answers'[k]
    BY <2>1
  <2> QED
    BY <2>2, <2>3 DEF AnswerPlaced, AnswerKnown, AskStands
<1> QED
  BY <1>1

LEMMA SayingKeepsAsks ==
  ASSUME ScopesInv, AstrayInv, Grown, UNCHANGED <<index, prompts, answers>>
  PROVE  AsksOfDeals' /\ AskedIsKnown'
<1>1. IndexStays
  BY DEF IndexStays
<1>2. \A k \in Calls : (AnswerPlaced(answers[k]) /\ AnswerKnown(answers[k]))'
  BY <1>1, AnswersStay
<1>3. ASSUME NEW a \in prompts'
      PROVE  AskStands(a)' /\ (Alone(a.scope, a.exc)' => a.exc \in DOMAIN index')
  BY <1>1, <1>3, PromptStays
<1> QED
  BY <1>2, <1>3 DEF AsksOfDeals, AskedIsKnown

(***************************************************************************)
(* An answer moves on a stage, or lands: the others stay as they are.      *)
(***************************************************************************)
LEMMA AnswerMoves ==
  ASSUME ScopesInv, AstrayInv, Grown, UNCHANGED index, prompts' \subseteq prompts,
         NEW k \in Calls, NEW b, answers' = [answers EXCEPT ![k] = b],
         AnswerPlaced(b)', AnswerKnown(b)'
  PROVE  AsksOfDeals' /\ AskedIsKnown'
<1>1. IndexStays /\ answers \in [Calls -> Answer]
  BY DEF IndexStays, ScopesInv, ScopesTypeOK
<1>2. ASSUME NEW j \in Calls
      PROVE  (AnswerPlaced(answers[j]) /\ AnswerKnown(answers[j]))'
  <2>1. PICK c : c = IF j = k THEN b ELSE answers[j]
    OBVIOUS
  <2>2. AnswerPlaced(c)' /\ AnswerKnown(c)'
    BY <1>1, <2>1, AnswerStays
  <2>3. c = answers'[j]
    BY <1>1, <2>1
  <2> QED
    BY <2>2, <2>3 DEF AnswerPlaced, AnswerKnown, AskStands
<1>3. ASSUME NEW a \in prompts'
      PROVE  AskStands(a)' /\ (Alone(a.scope, a.exc)' => a.exc \in DOMAIN index')
  BY <1>1, <1>3, PromptStays
<1> QED
  BY <1>2, <1>3 DEF AsksOfDeals, AskedIsKnown

-----------------------------------------------------------------------------
LEMMA QuietKeeps ==
  ASSUME AstrayInv, UNCHANGED <<deals, appendQ, index, unlisted>>
  PROVE  NotesOfDeals' /\ IndexOfDeals' /\ OpenIsNotPruned' /\ IndexKnows'
<1>1. NotesOfDeals'
  BY DEF AstrayInv, NotesOfDeals, NoteStands, AskStands
<1>2. IndexOfDeals'
  BY DEF AstrayInv, IndexOfDeals
<1>3. OpenIsNotPruned'
  BY DEF AstrayInv, OpenIsNotPruned, IsOpen
<1>4. IndexKnows'
  BY DEF AstrayInv, IndexKnows, Alone, IsOpen, ProposedFirst
<1> QED
  BY <1>1, <1>2, <1>3, <1>4

LEMMA AstrayStutters ==
  ASSUME ScopesInv, AstrayInv, UNCHANGED <<deals, appendQ, index, prompts, answers, unlisted>>
  PROVE  AstrayInv'
<1>1. Grown
  BY NoGrowth
<1>2. NotesOfDeals' /\ IndexOfDeals' /\ OpenIsNotPruned' /\ IndexKnows'
  BY QuietKeeps
<1>3. AsksOfDeals' /\ AskedIsKnown'
  BY <1>1, SayingKeepsAsks
<1> QED
  BY <1>2, <1>3 DEF AstrayInv

(***************************************************************************)
(* A new exchange has a new number: nothing was said in it before, so what *)
(* opens it is its first on the queue, if it comes there at all.           *)
(***************************************************************************)
LEMMA OpeningAstray ==
  ASSUME ScopesInv, AstrayInv, NEW s \in ScopeIds, NEW v \in Voices, NEW to \in Addressed,
         VoiceOpens(s, v, to)
  PROVE  AstrayInv'
<1>1. PICK n : n = Len(deals[s]) + 1
  OBVIOUS
<1>2. PICK p : p = Said("propose", n)
  OBVIOUS
<1> DEFINE x == [status |-> "open", parts |-> {v} \cup to, proposer |-> v, offer |-> 1]
           notes == <<p>>
<1>3. /\ deals \in [ScopeIds -> Seq(Deal)] /\ deals[s] \in Seq(Deal)
      /\ appendQ \in [ScopeIds -> Seq(Note)] /\ appendQ[s] \in Seq(Note)
  BY DEF ScopesInv, ScopesTypeOK
<1>4. /\ deals' = [deals EXCEPT ![s] = Append(deals[s], x)] /\ Put(s, notes)
      /\ unlisted' = IF appendQ' = appendQ THEN unlisted \cup {<<s, n>>} ELSE unlisted
      /\ UNCHANGED <<claimed, index, prompts, answers>>
  BY <1>1, <1>2 DEF VoiceOpens, Opening
<1>5. n \in Nat /\ n \notin DOMAIN deals[s]
  BY <1>1, <1>3
<1>6. p \in Note /\ p.kind = "propose" /\ p.exc = n
  BY <1>2, <1>5, SaidType DEF VoiceKinds
<1>7. x \in Deal
  BY ScopesAssumption DEF Deal
<1> HIDE DEF x
<1>8. DOMAIN deals'[s] = DOMAIN deals[s] \cup {n}
      /\ \A e \in DOMAIN deals[s] : deals'[s][e] = deals[s][e]
  BY <1>1, <1>3, <1>4, <1>7
<1>9. \A t \in ScopeIds \ {s} : deals'[t] = deals[t]
  BY <1>3, <1>4
<1>10. \A t \in ScopeIds : \A e \in DOMAIN deals[t] :
         e \in DOMAIN deals'[t] /\ deals'[t][e] = deals[t][e]
  BY <1>8, <1>9
<1>11. Grown
  BY <1>4, <1>10 DEF Grown, IsOpen
<1>12. ProposedFirst(s, n)' \/ <<s, n>> \in unlisted'
  <2>1. PICK kept \in Kept(notes) : appendQ' = [appendQ EXCEPT ![s] = appendQ[s] \o kept]
    BY <1>4 DEF Put
  <2>2. kept = <<>> \/ kept = <<p>>
    BY DEF Kept
  <2>3. CASE kept = <<>>
    <3>1. appendQ[s] \o kept = appendQ[s]
      BY <1>3, <2>3
    <3>2. appendQ' = appendQ
      BY <1>3, <2>1, <3>1
    <3> QED
      BY <1>4, <3>2
  <2>4. CASE kept = <<p>>
    <3> DEFINE i == Len(appendQ[s]) + 1
    <3>1. appendQ'[s] = appendQ[s] \o <<p>>
      BY <1>3, <2>1, <2>4
    <3>2. i \in DOMAIN appendQ'[s] /\ appendQ'[s][i] = p
      BY <1>3, <1>6, <3>1
    <3>3. \A j \in 1 .. i - 1 : j \in DOMAIN appendQ[s] /\ appendQ'[s][j] = appendQ[s][j]
      BY <1>3, <1>6, <3>1
    <3>4. \A j \in 1 .. i - 1 : appendQ'[s][j].exc # n
      BY <1>5, <3>3 DEF AstrayInv, NotesOfDeals, NoteStands
    <3> QED
      BY <1>6, <3>2, <3>4 DEF ProposedFirst
  <2> QED
    BY <2>2, <2>3, <2>4
<1>13. notes \in Seq(Note) /\ \A i \in DOMAIN notes : notes[i] = p
  BY <1>6
<1> HIDE DEF notes
<1>14. Speech(s, n, p)'
  BY <1>6, <1>8 DEF Speech, NoteStands
<1>15. \A i \in DOMAIN notes : Speech(s, n, notes[i])'
  BY <1>13, <1>14
<1>16. \A t \in ScopeIds : \A f \in DOMAIN deals'[t] :
         f \in DOMAIN deals[t] \/ ProposedFirst(t, f)' \/ <<t, f>> \in unlisted'
  BY <1>8, <1>9, <1>12
<1>17. NotesOfDeals' /\ IndexOfDeals' /\ OpenIsNotPruned' /\ IndexKnows'
  BY <1>4, <1>11, <1>13, <1>15, <1>16, SayingKeeps
<1>18. AsksOfDeals' /\ AskedIsKnown'
  BY <1>4, <1>11, SayingKeepsAsks
<1> QED
  BY <1>17, <1>18 DEF AstrayInv

LEMMA FunnelAstray ==
  ASSUME ScopesInv, AstrayInv, NEW s \in ScopeIds, NEW v \in Voices, NEW kind \in VoiceKinds,
         NEW e \in DOMAIN deals[s], Funnel(s, v, kind, e), UNCHANGED index,
         kind = "ask_principal" => v \in Residents /\ claimed[v] = s
  PROVE  Grown /\ NotesOfDeals' /\ IndexOfDeals' /\ OpenIsNotPruned' /\ IndexKnows'
<1>1. Grown /\ \A t \in ScopeIds : DOMAIN deals'[t] = DOMAIN deals[t]
  BY FunnelSays
<1>2. PICK notes \in Seq(Note) :
        Put(s, notes) /\ \A i \in DOMAIN notes : Speech(s, e, notes[i])'
  BY FunnelSays
<1>3. \A t \in ScopeIds : \A f \in DOMAIN deals'[t] : f \in DOMAIN deals[t]
  BY <1>1
<1> QED
  BY <1>1, <1>2, <1>3, SayingKeeps

LEMMA SpeakingAstray ==
  ASSUME ScopesInv, AstrayInv, NEW s \in ScopeIds, NEW v \in Voices, NEW kind \in VoiceKinds,
         NEW e \in DOMAIN deals[s], VoiceSpeaks(s, v, kind, e)
  PROVE  AstrayInv'
<1>1. /\ Funnel(s, v, kind, e) /\ UNCHANGED <<claimed, index, prompts, answers>>
      /\ kind = "ask_principal" => v \in Residents /\ claimed[v] = s
  BY HereAreVoices DEF VoiceSpeaks, ScopesInv
<1>2. Grown /\ NotesOfDeals' /\ IndexOfDeals' /\ OpenIsNotPruned' /\ IndexKnows'
  BY <1>1, FunnelAstray
<1>3. AsksOfDeals' /\ AskedIsKnown'
  BY <1>1, <1>2, SayingKeepsAsks
<1> QED
  BY <1>2, <1>3 DEF AstrayInv

(***************************************************************************)
(* The writer.  Whatever of an exchange that is alone is at the head of    *)
(* the queue is the proposal that enters it into the index, or comes after *)
(* that; and it is not what prunes it.                                     *)
(***************************************************************************)
LEMMA HeadIsKnown ==
  ASSUME ScopesInv, AstrayInv, NEW s \in ScopeIds, appendQ[s] # <<>>,
         NEW p, p = Head(appendQ[s])
  PROVE  /\ NoteStands(s, p) /\ AsksHere(s, p)
         /\ IsOpen(s, p.exc) => p.kind \notin {"settle", "withdraw"}
         /\ Alone(s, p.exc) /\ p.kind # "propose" => p.exc \in DOMAIN index
<1>1. appendQ[s] \in Seq(Note)
  BY DEF ScopesInv, ScopesTypeOK
<1>2. 1 \in DOMAIN appendQ[s] /\ p = appendQ[s][1]
  BY <1>1, SeqTail
<1>3. NoteStands(s, p) /\ AsksHere(s, p)
  BY <1>2 DEF AstrayInv, NotesOfDeals, ScopesInv, NotesAskHere
<1>4. IsOpen(s, p.exc) => p.kind \notin {"settle", "withdraw"}
  BY <1>2 DEF AstrayInv, OpenIsNotPruned
<1>5. ASSUME ProposedFirst(s, p.exc)
      PROVE  p.kind = "propose"
  <2>1. PICK i \in DOMAIN appendQ[s] :
          /\ appendQ[s][i].kind = "propose"
          /\ \A j \in 1 .. i - 1 : appendQ[s][j].exc # p.exc
    BY <1>5 DEF ProposedFirst
  <2>2. i = 1 \/ 1 \in 1 .. i - 1
    BY <1>1
  <2> QED
    BY <1>2, <2>1, <2>2
<1> QED
  BY <1>3, <1>4, <1>5 DEF AstrayInv, IndexKnows, NoteStands

LEMMA FirstAfterHead ==
  ASSUME ScopesInv, NEW s \in ScopeIds, Record(s), NEW t \in ScopeIds, NEW e,
         ProposedFirst(t, e), t = s => e # Head(appendQ[s]).exc
  PROVE  ProposedFirst(t, e)'
<1>1. appendQ \in [ScopeIds -> Seq(Note)] /\ appendQ[s] \in Seq(Note) /\ appendQ[s] # <<>>
      /\ appendQ' = [appendQ EXCEPT ![s] = Tail(appendQ[s])]
  BY DEF ScopesInv, ScopesTypeOK, Record
<1>2. CASE t # s
  BY <1>1, <1>2 DEF ProposedFirst
<1>3. CASE t = s
  <2>1. appendQ'[t] = Tail(appendQ[s])
    BY <1>1, <1>3
  <2>2. PICK i \in DOMAIN appendQ[s] :
          /\ appendQ[s][i].exc = e /\ appendQ[s][i].kind = "propose"
          /\ \A j \in 1 .. i - 1 : appendQ[s][j].exc # e
    BY <1>3 DEF ProposedFirst
  <2>3. i # 1
    BY <1>1, <1>3, <2>2, SeqTail
  <2>4. i - 1 \in DOMAIN Tail(appendQ[s]) /\ Tail(appendQ[s])[i - 1] = appendQ[s][i]
    BY <1>1, <2>3
  <2>5. \A j \in 1 .. (i - 1) - 1 :
          j + 1 \in 1 .. i - 1 /\ Tail(appendQ[s])[j] = appendQ[s][j + 1]
    BY <1>1, <2>3
  <2>6. \A j \in 1 .. (i - 1) - 1 : Tail(appendQ[s])[j].exc # e
    BY <2>2, <2>5
  <2> QED
    BY <2>1, <2>2, <2>4, <2>6 DEF ProposedFirst
<1> QED
  BY <1>2, <1>3

LEMMA RecordAstray ==
  ASSUME ScopesInv, AstrayInv, NEW s \in ScopeIds, Record(s)
  PROVE  AstrayInv'
<1>1. PICK p : p = Head(appendQ[s])
  OBVIOUS
<1>2. /\ appendQ \in [ScopeIds -> Seq(Note)] /\ appendQ[s] \in Seq(Note) /\ appendQ[s] # <<>>
      /\ appendQ' = [appendQ EXCEPT ![s] = Tail(appendQ[s])]
      /\ index' = Indexed(s, p) /\ prompts' \in {Shown(s, p), prompts}
      /\ UNCHANGED <<claimed, deals, answers, unlisted>>
  BY <1>1 DEF Record, ScopesInv, ScopesTypeOK
<1>3. /\ NoteStands(s, p) /\ AsksHere(s, p) /\ p.exc \in DOMAIN deals[s]
      /\ IsOpen(s, p.exc) => p.kind \notin {"settle", "withdraw"}
      /\ Alone(s, p.exc) /\ p.kind # "propose" => p.exc \in DOMAIN index
  BY <1>1, <1>2, HeadIsKnown DEF NoteStands
<1>4. ASSUME NEW t \in ScopeIds, NEW i \in DOMAIN appendQ'[t]
      PROVE  \E j \in DOMAIN appendQ[t] : appendQ'[t][i] = appendQ[t][j]
  <2>1. CASE t # s
    BY <1>2, <1>4, <2>1
  <2>2. CASE t = s
    <3>1. appendQ'[t] = Tail(appendQ[s])
      BY <1>2, <2>2
    <3> QED
      BY <1>2, <1>4, <2>2, <3>1, SeqTail
  <2> QED
    BY <2>1, <2>2
<1>5. NotesOfDeals' /\ OpenIsNotPruned'
  <2>1. ASSUME NEW t \in ScopeIds, NEW i \in DOMAIN appendQ'[t]
        PROVE  /\ NoteStands(t, appendQ'[t][i])
               /\ IsOpen(t, appendQ'[t][i].exc)
                    => appendQ'[t][i].kind \notin {"settle", "withdraw"}
    <3>1. PICK j \in DOMAIN appendQ[t] : appendQ'[t][i] = appendQ[t][j]
      BY <1>4
    <3> QED
      BY <1>2, <3>1 DEF AstrayInv, NotesOfDeals, OpenIsNotPruned
  <2> QED
    BY <1>2, <2>1 DEF NotesOfDeals, NoteStands, AskStands, OpenIsNotPruned, IsOpen
<1>6. IndexOfDeals'
  BY <1>2, <1>3 DEF IndexOfDeals, Indexed, AstrayInv
<1>7. \A t \in ScopeIds : \A e : Alone(t, e)' = Alone(t, e)
  BY <1>2 DEF Alone, IsOpen
<1>8. ASSUME NEW t \in ScopeIds, NEW e \in DOMAIN deals[t], Alone(t, e), e = p.exc
      PROVE  t = s /\ e \in DOMAIN index'
  <2>1. t = s /\ IsOpen(s, e)
    BY <1>3, <1>8 DEF Alone
  <2> QED
    BY <1>2, <1>3, <1>8, <2>1 DEF Indexed
<1>9. ASSUME NEW e, e # p.exc, e \in DOMAIN index
      PROVE  e \in DOMAIN index'
  BY <1>2, <1>9 DEF Indexed
<1>10. IndexKnows'
  <2>1. ASSUME NEW t \in ScopeIds, NEW e \in DOMAIN deals[t], Alone(t, e)
        PROVE  e \in DOMAIN index' \/ ProposedFirst(t, e)'
    <3>1. CASE e = p.exc
      BY <1>8, <2>1, <3>1
    <3>2. CASE e # p.exc
      BY <1>1, <1>9, <2>1, <3>2, FirstAfterHead DEF AstrayInv, IndexKnows
    <3> QED
      BY <3>1, <3>2
  <2> QED
    BY <1>2, <1>7, <2>1 DEF IndexKnows
<1>11. Grown
  BY <1>2, NoGrowth
<1>12. IndexStays
  BY <1>7, <1>8, <1>9 DEF IndexStays
<1>13. \A k \in Calls : (AnswerPlaced(answers[k]) /\ AnswerKnown(answers[k]))'
  BY <1>2, <1>11, <1>12, AnswersStay
<1>14. ASSUME NEW a \in prompts'
       PROVE  AskStands(a)' /\ (Alone(a.scope, a.exc)' => a.exc \in DOMAIN index')
  <2>1. CASE a \in prompts
    BY <1>11, <1>12, <2>1, PromptStays
  <2>2. CASE p.kind = "ask_principal" /\ a = p.ask
    <3>1. a.scope = s /\ a.exc = p.exc /\ AskStands(a)
      BY <1>3, <2>2 DEF NoteStands, AsksHere
    <3>2. AskStands(a)'
      BY <1>2, <3>1 DEF AskStands
    <3> QED
      BY <1>3, <1>7, <1>8, <3>1, <3>2
  <2> QED
    BY <1>2, <1>14, <2>1, <2>2 DEF Shown
<1>15. AsksOfDeals' /\ AskedIsKnown'
  BY <1>13, <1>14 DEF AsksOfDeals, AskedIsKnown
<1> QED
  BY <1>5, <1>6, <1>10, <1>15 DEF AstrayInv

(***************************************************************************)
(* The answer on its way.                                                  *)
(***************************************************************************)
LEMMA MovesAstray ==
  ASSUME ScopesInv, AstrayInv,
         UNCHANGED <<deals, appendQ, index, unlisted>>, prompts' \subseteq prompts,
         NEW k \in Calls, NEW b, answers' = [answers EXCEPT ![k] = b],
         AnswerPlaced(b), AnswerKnown(b)
  PROVE  AstrayInv'
<1>1. Grown
  BY NoGrowth
<1>2. NotesOfDeals' /\ IndexOfDeals' /\ OpenIsNotPruned' /\ IndexKnows'
  BY QuietKeeps
<1>3. AnswerPlaced(b)' /\ AnswerKnown(b)'
  BY DEF AnswerPlaced, AnswerKnown, AskStands, Alone, IsOpen
<1>4. AsksOfDeals' /\ AskedIsKnown'
  BY <1>1, <1>3, AnswerMoves
<1> QED
  BY <1>2, <1>4 DEF AstrayInv

LEMMA PostAstray ==
  ASSUME ScopesInv, AstrayInv, NEW k \in Calls, NEW a \in prompts, NEW approve \in BOOLEAN,
         Post(k, a, approve)
  PROVE  AstrayInv'
<1> DEFINE b == [stage |-> "sent", ask |-> a, approve |-> approve]
<1>1. /\ answers' = [answers EXCEPT ![k] = b] /\ prompts' \subseteq prompts
      /\ UNCHANGED <<claimed, deals, appendQ, index, unlisted>>
  BY DEF Post
<1>2. AnswerPlaced(b) /\ AnswerKnown(b)
  BY DEF AnswerPlaced, AnswerKnown, AstrayInv, AsksOfDeals, AskedIsKnown
<1> HIDE DEF b
<1> QED
  BY <1>1, <1>2, MovesAstray

LEMMA PostIsLostAstray ==
  ASSUME ScopesInv, AstrayInv, NEW k \in Calls, PostIsLost(k)
  PROVE  AstrayInv'
<1>1. answers \in [Calls -> Answer] /\ answers[k].stage = "sent"
  BY DEF ScopesInv, ScopesTypeOK, PostIsLost
<1>2. answers[k] \in [stage : {"sent", "lost", "unknown"}, ask : Ask, approve : BOOLEAN]
  BY <1>1 DEF Answer, Unposted
<1> DEFINE b == [answers[k] EXCEPT !.stage = "lost"]
<1>3. b.stage = "lost" /\ b.ask = answers[k].ask
  BY <1>2
<1>4. answers' = [answers EXCEPT ![k] = b]
      /\ UNCHANGED <<claimed, deals, appendQ, index, prompts, unlisted>>
  BY DEF PostIsLost
<1> HIDE DEF b
<1>5. AnswerPlaced(b) /\ AnswerKnown(b)
  BY <1>1, <1>3 DEF AnswerPlaced, AnswerKnown, AstrayInv, AsksOfDeals
<1> QED
  BY <1>4, <1>5, MovesAstray

LEMMA LookAstray ==
  ASSUME ScopesInv, AstrayInv, NEW k \in Calls, Look(k)
  PROVE  AstrayInv'
<1>1. PICK a : a = answers[k]
  OBVIOUS
<1>2. /\ answers \in [Calls -> Answer] /\ a.stage = "sent" /\ a \in Answer
      /\ UNCHANGED <<claimed, deals, appendQ, index, prompts, unlisted>>
  BY <1>1 DEF ScopesInv, ScopesTypeOK, Look
<1>3. a \in [stage : {"sent", "lost", "unknown"}, ask : Ask, approve : BOOLEAN]
  BY <1>2 DEF Answer, Unposted
<1>4. AnswerPlaced(a) /\ AnswerKnown(a)
  BY <1>1 DEF AstrayInv, AsksOfDeals, AskedIsKnown
<1>5. PICK b : answers' = [answers EXCEPT ![k] = b] /\ AnswerPlaced(b) /\ AnswerKnown(b)
  <2>1. CASE a.ask.exc \notin DOMAIN index
    <3> DEFINE b == [a EXCEPT !.stage = "unknown"]
    <3>1. b.stage = "unknown" /\ b.ask = a.ask
      BY <1>3
    <3>2. answers' = [answers EXCEPT ![k] = b]
      BY <1>1, <2>1 DEF Look
    <3> HIDE DEF b
    <3>3. AnswerPlaced(b) /\ AnswerKnown(b)
      BY <1>2, <1>4, <2>1, <3>1 DEF AnswerPlaced, AnswerKnown
    <3> QED
      BY <3>2, <3>3
  <2>2. CASE a.ask.exc \in DOMAIN index
    <3> DEFINE stage == IF a.approve THEN "found" ELSE "ready"
               b == Routed(a, stage, index[a.ask.exc])
    <3>1. b.stage \in {"found", "ready"} /\ b.ask = a.ask /\ b.at = index[a.ask.exc]
      BY DEF Routed
    <3>2. answers' = [answers EXCEPT ![k] = b]
      BY <1>1, <2>2 DEF Look
    <3> HIDE DEF b
    <3>3. AnswerPlaced(b) /\ AnswerKnown(b)
      BY <1>2, <1>4, <2>2, <3>1 DEF AnswerPlaced, AnswerKnown, AstrayInv, IndexOfDeals
    <3> QED
      BY <3>2, <3>3
  <2> QED
    BY <2>1, <2>2
<1> QED
  BY <1>2, <1>5, MovesAstray

LEMMA PendingAstray ==
  ASSUME ScopesInv, AstrayInv, NEW k \in Calls, Pending(k)
  PROVE  AstrayInv'
<1>1. PICK a : a = answers[k]
  OBVIOUS
<1> DEFINE stage == IF IsOpen(a.at, a.ask.exc) THEN "ready" ELSE "nothing"
           b == Routed(a, stage, a.at)
<1>2. a.stage = "found" /\ answers' = [answers EXCEPT ![k] = b]
      /\ UNCHANGED <<claimed, deals, appendQ, index, prompts, unlisted>>
  BY <1>1 DEF Pending
<1>3. AnswerPlaced(a)
  BY <1>1 DEF AstrayInv, AsksOfDeals
<1>4. b.stage = stage /\ b.ask = a.ask /\ b.at = a.at
  BY DEF Routed
<1> HIDE DEF b
<1>5. AnswerPlaced(b) /\ AnswerKnown(b)
  BY <1>2, <1>3, <1>4 DEF AnswerPlaced, AnswerKnown
<1> QED
  BY <1>2, <1>5, MovesAstray

LEMMA LandAstray ==
  ASSUME ScopesInv, AstrayInv, NEW k \in Calls, Land(k)
  PROVE  AstrayInv'
<1>1. PICK a : a = answers[k]
  OBVIOUS
<1> DEFINE kind == IF a.approve THEN "accept" ELSE "decline"
           b == Routed(a, "landed", a.at)
<1>2. /\ a.stage = "ready" /\ Funnel(a.at, a.ask.voice, kind, a.ask.exc)
      /\ answers' = [answers EXCEPT ![k] = b]
      /\ UNCHANGED <<claimed, index, prompts>>
  BY <1>1 DEF Land
<1>3. AnswerPlaced(a)
  BY <1>1 DEF AstrayInv, AsksOfDeals
<1>4. /\ a.at \in ScopeIds /\ a.ask.exc \in DOMAIN deals[a.at] /\ a.ask.voice \in Voices
      /\ a.ask.scope \in ScopeIds /\ a.ask.exc \in DOMAIN deals[a.ask.scope]
      /\ kind \in VoiceKinds \ {"ask_principal"}
      /\ a.ask \in Ask /\ AskStands(a.ask)
  BY <1>1, <1>2, <1>3, AnswerType DEF VoiceKinds, Ask, Voices, AnswerPlaced, AskStands
<1>5. b.stage = "landed" /\ b.ask = a.ask /\ b.at = a.at
  BY DEF Routed
<1> HIDE DEF kind, b
<1>6. Grown /\ NotesOfDeals' /\ IndexOfDeals' /\ OpenIsNotPruned' /\ IndexKnows'
  BY <1>2, <1>4, FunnelAstray
<1>7. AskStands(a.ask)'
  BY <1>4, <1>6, AskStaysStanding
<1>8. AnswerPlaced(b)' /\ AnswerKnown(b)'
  BY <1>4, <1>5, <1>6, <1>7 DEF AnswerPlaced, AnswerKnown, Grown
<1>9. AsksOfDeals' /\ AskedIsKnown'
  BY <1>2, <1>6, <1>8, AnswerMoves
<1> QED
  BY <1>6, <1>9 DEF AstrayInv

-----------------------------------------------------------------------------
LEMMA AstrayInit ==
  ASSUME ScopesInit
  PROVE  AstrayInv
BY DEF ScopesInit, AstrayInv, NotesOfDeals, IndexOfDeals, AsksOfDeals, OpenIsNotPruned,
       IndexKnows, AskedIsKnown, AnswerPlaced, AnswerKnown, Unposted

LEMMA AstrayKeeps ==
  ASSUME ScopesInv, AstrayInv, [ScopesNext]_vars
  PROVE  AstrayInv'
<1>1. CASE UNCHANGED vars
  BY <1>1, AstrayStutters DEF vars
<1>2. ASSUME NEW v \in Residents, NEW s \in ScopeIds, Claim(v, s)
      PROVE  AstrayInv'
  BY <1>2, AstrayStutters DEF Claim
<1>3. CASE ScopesNext
  BY <1>2, <1>3, OpeningAstray, SpeakingAstray, RecordAstray, PostAstray,
     PostIsLostAstray, LookAstray, PendingAstray, LandAstray DEF ScopesNext
<1> QED
  BY <1>1, <1>3

LEMMA AstrayInvariant == ScopesSpec => []AstrayInv
  BY AstrayInit, AstrayKeeps, ScopesInvariant, PTL DEF ScopesSpec

(***************************************************************************)
(* An answer that is posted and never reaches its exchange, while that is  *)
(* open, crossed an exchange of the same number in another scope, or a     *)
(* full queue dropped the proposal that opened its own: for any number of  *)
(* scopes, residents, answers and exchanges and queues of any size,        *)
(* declines, counter-offers, failed stores, slow writers and whatever else *)
(* a queue drops lead none astray.                                         *)
(***************************************************************************)
THEOREM OnlyTwinsMislead == ScopesSpec => []OnlyTwinsGoAstray
<1>1. ASSUME ScopesInv, AstrayInv
      PROVE  OnlyTwinsGoAstray
  <2>1. SUFFICES ASSUME NEW k \in Calls, NEW a, a = answers[k],
                        Missed(a), IsOpen(a.ask.scope, a.ask.exc)
                 PROVE  Twin(a.ask) \/ NeverListed(a.ask)
    BY DEF OnlyTwinsGoAstray
  <2>2. AnswerPlaced(a) /\ AnswerKnown(a)
    BY <1>1, <2>1 DEF AstrayInv, AsksOfDeals, AskedIsKnown
  <2>3. a.stage \in {"unknown", "nothing", "landed"} /\ a.stage # "unused"
    BY <2>1 DEF Missed
  <2>4. a.stage \in {"nothing", "landed"} => a.at \in ScopeIds
    BY <1>1, <2>1, <2>3, AnswerType
  <2>5. CASE a.stage = "unknown"
    BY <2>1, <2>2, <2>5 DEF AnswerKnown, Alone, Twin, NeverListed
  <2>6. CASE a.stage \in {"nothing", "landed"} /\ a.at # a.ask.scope
    BY <2>2, <2>4, <2>6 DEF AnswerPlaced, Twin
  <2>7. CASE a.stage = "nothing" /\ a.at = a.ask.scope
    BY <2>1, <2>2, <2>7 DEF AnswerKnown
  <2> QED
    BY <2>1, <2>3, <2>5, <2>6, <2>7 DEF Missed
<1> QED
  BY <1>1, AstrayInvariant, ScopesInvariant, PTL

-----------------------------------------------------------------------------
(***************************************************************************)
(* The funnel closes an exchange only in the scope and of the number it is *)
(* given, and of what onConsent gives it only on the accept of a party to  *)
(* somebody else's offer.                                                  *)
(***************************************************************************)
LEMMA FunnelCloses ==
  ASSUME ScopesInv, NEW t \in ScopeIds, NEW v \in Residents, NEW kind \in {"accept", "decline"},
         NEW f \in Nat, Funnel(t, v, kind, f),
         NEW s \in ScopeIds, NEW e \in DOMAIN deals[s], Closes(s, e)
  PROVE  /\ s = t /\ e = f /\ kind = "accept"
         /\ v \in deals[s][e].parts /\ v # deals[s][e].proposer
<1>1. deals \in [ScopeIds -> Seq(Deal)] /\ deals[s] \in Seq(Deal) /\ ScopesTypeOK
      /\ v \in Voices
  BY DEF ScopesInv, ScopesTypeOK, Voices
<1>2. ~UNCHANGED deals
  BY DEF Closes
<1>3. ASSUME NEW status \in {"open", "settled", "abandoned"},
             Turn(t, v, kind, f, status), f \in DOMAIN deals[t]
      PROVE  s = t /\ e = f /\ status # "open"
  <2>1. PICK y \in Deal :
          /\ deals' = [deals EXCEPT ![t] = [deals[t] EXCEPT ![f] = y]]
          /\ y.status = status
    BY <1>1, <1>3, TurnGives
  <2>2. deals'[s][e] = IF s = t /\ e = f THEN y ELSE deals[s][e]
    BY <1>1, <2>1
  <2> QED
    BY <2>1, <2>2 DEF Closes
<1>4. CASE IsOpen(t, f) /\ Turn(t, v, kind, f, "open")
  BY <1>3, <1>4 DEF IsOpen
<1>5. CASE Matches(t, v, kind, f) /\ \E status \in {"settled", "abandoned"} :
                                      Turn(t, v, kind, f, status)
  BY <1>3, <1>5 DEF Matches, IsOpen
<1> QED
  BY <1>2, <1>4, <1>5 DEF Funnel

(***************************************************************************)
(* onConsent sends an answer where the index says, which may be the wrong  *)
(* scope.  What a yes closes there is still an exchange its principal's    *)
(* voice is named in, open on the offer of somebody who lives there, and   *)
(* of the number it was asked about; at home, of that offer or a later     *)
(* one.  For any number of scopes, residents, answers and exchanges.       *)
(***************************************************************************)
THEOREM ConsentBindsAParty == ScopesSpec => YesBindsAParty
<1> DEFINE Bound(k, s, e) ==
      LET ask == answers[k].ask
          d   == deals[s][e]
      IN  /\ answers[k].approve /\ e = ask.exc
          /\ ask.voice \in d.parts
          /\ d.proposer \in Here(s) \ {ask.voice}
          /\ AsAsked(ask, s, d) \/ Countered(ask, s, d) \/ Misrouted(ask, s)
<1>1. ASSUME ScopesInv, AstrayInv, [ScopesNext]_vars, NEW k \in Calls, NEW s \in ScopeIds,
             NEW e \in DOMAIN deals[s],
             answers[k].stage = "ready", answers'[k] # answers[k], Closes(s, e)
      PROVE  Bound(k, s, e)
  <2>1. answers \in [Calls -> Answer]
    BY <1>1 DEF ScopesInv, ScopesTypeOK
  <2>2. Land(k)
    <3>1. ASSUME NEW j \in Calls, NEW a \in prompts, NEW approve \in BOOLEAN
          PROVE  ~Post(j, a, approve)
      BY <1>1, <2>1 DEF Post, Unposted
    <3>2. ASSUME NEW j \in Calls, PostIsLost(j) \/ Look(j) \/ Pending(j) \/ Land(j)
          PROVE  Land(k)
      BY <1>1, <2>1, <3>2 DEF PostIsLost, Look, Pending, Land
    <3>3. ~UNCHANGED answers
      BY <1>1
    <3> QED
      BY <1>1, <3>1, <3>2, <3>3
      DEF ScopesNext, Claim, VoiceOpens, VoiceSpeaks, Record, vars
  <2>3. PICK a : a = answers[k]
    OBVIOUS
  <2> DEFINE kind == IF a.approve THEN "accept" ELSE "decline"
  <2>4. a.at \in ScopeIds /\ a.ask \in Ask /\ a.approve \in BOOLEAN
        /\ claimed[a.ask.voice] = a.ask.scope
    BY <1>1, <2>3, AnswerType
  <2>5. Funnel(a.at, a.ask.voice, kind, a.ask.exc) /\ kind \in {"accept", "decline"}
        /\ a.ask.exc \in Nat /\ a.ask.voice \in Residents /\ a.ask.offer \in Nat
        /\ a.ask.scope \in ScopeIds
    BY <2>2, <2>3, <2>4 DEF Land, Ask
  <2> HIDE DEF kind
  <2>6. /\ s = a.at /\ e = a.ask.exc /\ kind = "accept"
        /\ a.ask.voice \in deals[s][e].parts /\ a.ask.voice # deals[s][e].proposer
    BY <1>1, <2>4, <2>5, FunnelCloses
  <2>7. a.approve
    BY <2>6 DEF kind
  <2>8. deals[s][e].proposer \in Here(s)
    BY <1>1 DEF ScopesInv, ProposersLiveHere
  <2>9. CASE s = a.ask.scope
    <3>1. AskStands(a.ask)
      BY <1>1, <2>3 DEF AstrayInv, AsksOfDeals, AnswerPlaced
    <3>2. a.ask.offer <= deals[s][e].offer
      BY <2>6, <2>9, <3>1 DEF AskStands
    <3>3. deals[s][e].offer \in Nat
      BY <1>1, OfferType DEF ScopesInv
    <3>4. AsAsked(a.ask, s, deals[s][e]) \/ Countered(a.ask, s, deals[s][e])
      BY <2>5, <2>9, <3>2, <3>3 DEF AsAsked, Countered
    <3> QED
      BY <2>3, <2>6, <2>7, <2>8, <3>4
  <2>10. CASE s # a.ask.scope
    <3>1. a.ask.voice \notin Here(s)
      BY <1>1, <2>4, <2>5, <2>10, HereAreVoices DEF ScopesInv
    <3> QED
      BY <2>3, <2>6, <2>7, <2>8, <2>10, <3>1 DEF Misrouted
  <2> QED
    BY <2>9, <2>10
<1>2. ASSUME ScopesInv, AstrayInv, [ScopesNext]_vars
      PROVE  [\A k \in Calls, s \in ScopeIds :
                \A e \in DOMAIN deals[s] :
                  answers[k].stage = "ready" /\ answers'[k] # answers[k] /\ Closes(s, e)
                    => Bound(k, s, e)]_vars
  BY <1>1, <1>2
<1> QED
  BY <1>2, AstrayInvariant, ScopesInvariant, PTL DEF ScopesSpec, YesBindsAParty
=============================================================================
