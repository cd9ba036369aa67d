-------------------------- MODULE ScenesProperties --------------------------
(***************************************************************************)
(* What a scope run by its seeds' rules owes its residents.                *)
(***************************************************************************)
EXTENDS Scenes

(***************************************************************************)
(* The voices do not talk among themselves for ever: a word of a principal *)
(* makes six envelopes at most, its own, and for a trade the hail, the     *)
(* bid, the ask, the answer and the settlement.                            *)
(***************************************************************************)
TalkIsBounded == uttSeq <= 6 * said

(***************************************************************************)
(* When every think is over, an exchange that is still open waits for a    *)
(* principal, was declined by one, was made to a voice that is not in this *)
(* scope, or was passed over: a later trigger superseded the think that    *)
(* would have answered it.  That last kind stays open for ever.            *)
(***************************************************************************)
Unattended(e) == \E p \in SetOf(exchanges[e].parts) : ~Registered(p)

NobodyLeftHanging ==
  timers = {} =>
    \A e \in DOMAIN exchanges :
      IsOpen(e) => \/ e \in DOMAIN answer /\ answer[e] \in {"waiting", "no"}
                   \/ Unattended(e)
                   \/ e \in passed

(***************************************************************************)
(* A resident's marks go only where its principal said yes to the very     *)
(* exchange: "ask before anything irreversible", although the charter      *)
(* would let the agent settle a trade of this price by itself.             *)
(***************************************************************************)
NothingBoughtUnasked == [][
  \A v \in Residents :
    marks'[v] < marks[v]
      => \E e \in DOMAIN answer :
           /\ answer[e] = "waiting" /\ answer'[e] = "yes"
           /\ exchanges'[e].status = "settled"
           /\ exchanges[e].pending.terms.buyer = v]_sceneVars

(***************************************************************************)
(* Every think ends, and what it says starts no endless exchange: the      *)
(* scope falls silent.                                                     *)
(***************************************************************************)
FallsSilent == timers # {} ~> timers = {}

-----------------------------------------------------------------------------
(***************************************************************************)
(* Two residents, of the household or of the street.                       *)
(***************************************************************************)
MCPrincipalOf == [v \in {"her_agent", "his_agent"} |-> IF v = "her_agent" THEN "her" ELSE "his"]

MCNames ==
  {"her_agent", "his_agent", "her", "his", "heating", "lamp", "curtains", "door", "shop"}

MCValues == 0 .. 46

MCTerms ==
  {Comfort("temperature.set", x) : x \in MCValues} \cup {Comfort("lamp.set", 1)}
    \cup {Bid(v) : v \in {"her_agent", "his_agent"}}
=============================================================================
