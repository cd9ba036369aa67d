------------------------------ MODULE Protocol ------------------------------
(***************************************************************************)
(* The wire vocabulary of the fabric: the kinds of envelope, the terms a   *)
(* propose carries and the envelopes themselves                            *)
(* (fabric/internal/protocol, fabric/internal/protocol/termschema).        *)
(*                                                                         *)
(* Envelope ids, timestamps, scopes, bodies and serves are left out: no    *)
(* decision of the fabric reads them.  A payload is abstracted to what its *)
(* readers make of it, see Forms.                                          *)
(***************************************************************************)
EXTENDS Integers, Sequences, FiniteSets

CONSTANTS
  Names,        \* every voice name an envelope or a payload can mention
  Values,       \* what a comfort term can set a thing to
  Terms,        \* the terms that can appear on an envelope
  NoTerms,      \* an envelope without terms
  SchemaValid   \* the terms the schema registry accepts (all of them when
                \* the orchestrator runs without a registry)

Kinds == {"say", "hail", "propose", "accept", "decline", "withdraw",
          "ask_principal", "settle"}

VoiceKinds == {"person", "thing"}

(***************************************************************************)
(* The term types that set a thing's state, as opposed to "trade", which   *)
(* moves marks, and to any other type, which the world refuses.            *)
(***************************************************************************)
ComfortTypes == {"temperature.set", "lamp.set", "curtains.set"}

(***************************************************************************)
(* How a payload decodes.  The fabric decodes a trade with three different *)
(* Go structs: {buyer, seller} at the party check, {price_marks, buyer} at *)
(* the spend gates and the whole payload in World.Apply.  A field of the   *)
(* wrong JSON type fails only the structs that name it.                    *)
(***************************************************************************)
Forms == {"ok",        \* every struct decodes
          "badgoods",  \* give or get is not a string: only Apply fails
          "badprice",  \* price_marks is not an integer
          "garbled"}   \* nothing decodes

PartiesRead(t) == t.form # "garbled"
SpendReads(t)  == t.form \in {"ok", "badgoods"}
ApplyReads(t)  == t.form = "ok"

ASSUME TermsAssumption ==
  /\ NoTerms \notin Terms
  /\ SchemaValid \subseteq Terms
  /\ \A t \in Terms :
       /\ t.type \in STRING
       /\ t.form \in Forms
       /\ t.type \in ComfortTypes => t.value \in Values
       /\ t.type = "trade" => /\ t.price \in Int
                              /\ t.buyer \in Names
                              /\ t.seller \in Names

(***************************************************************************)
(* What a charter lets its voice do by itself.                             *)
(***************************************************************************)
Charter == [kind : VoiceKinds,
            mayPropose : SUBSET STRING,   \* Mandate.MayProposeTerms
            solo : BOOLEAN,               \* MaySettleWithoutPrincipal
            limit : Int]                  \* SpendLimitMarks

(***************************************************************************)
(* An exchange id is the value of the exchange counter that made it; NoExc *)
(* stands for the empty id.                                                *)
(***************************************************************************)
NoExc == 0

(***************************************************************************)
(* An envelope as a caller hands it in (`to` is an ordered list) and as it *)
(* stands on the record.  On the record only membership of the To list     *)
(* matters, so there `to` is a set; `via` is not on the wire: it remembers *)
(* which path of the orchestrator the envelope came by.                    *)
(***************************************************************************)
Envelope == [from : Names, to : Seq(Names), kind : Kinds, exc : Nat,
             terms : Terms \cup {NoTerms}]

Vias == {"principal", "inject", "think", "cap", "synth"}

Post == [from : Names, to : SUBSET Names, kind : Kinds, exc : Nat,
         terms : Terms \cup {NoTerms}, via : Vias]

SetOf(list) == {list[i] : i \in DOMAIN list}
=============================================================================
