--------------------------- MODULE MCOrchestrator ---------------------------
(***************************************************************************)
(* Instances of the orchestrator for TLC.                                  *)
(***************************************************************************)
EXTENDS OrchestratorProperties

MCValues == {"on", "off"}

Dark == [c \in ComfortTypes |-> "off"]

Trade(price, buyer, seller, form) ==
  [type |-> "trade", form |-> form, price |-> price, buyer |-> buyer,
   seller |-> seller]

Comfort(type, value, form) == [type |-> type, form |-> form, value |-> value]

Mandated(kind, may, solo, limit) ==
  [kind |-> kind, mayPropose |-> may, solo |-> solo, limit |-> limit]

Part(voice, charter, init) == [voice |-> voice, charter |-> charter, init |-> init]

Act(to, kind, terms) == [to |-> to, kind |-> kind, terms |-> terms]

Word(from, to, kind, terms) ==
  [from |-> from, to |-> to, kind |-> kind, terms |-> terms]

NoPrincipal == [v \in {} |-> v]

-----------------------------------------------------------------------------
(***************************************************************************)
(* Trade: ada, whose charter lets her spend one mark by herself, her       *)
(* principal, and a shop.  Every price comes up: within and beyond ada's   *)
(* limit, negative, and undecodable for one reader or another.             *)
(***************************************************************************)
TradeNames == {"ada", "shop", "her"}

Cheap  == Trade(1, "ada", "shop", "ok")
Dear   == Trade(2, "ada", "shop", "ok")
Refund == Trade(-1, "ada", "shop", "ok")
Murky  == Trade(2, "ada", "shop", "badprice")

TradeTerms == {Cheap, Dear, Refund, Murky}

TradeCast ==
  {Part("ada", Mandated("person", {"trade"}, TRUE, 1), NoThing),
   Part("shop", Mandated("person", {"trade"}, TRUE, 0), NoThing)}

TradeCredits == {[voice |-> "ada", n |-> 2]}

TradePrincipal == [v \in {"ada"} |-> "her"]

TradeInjections ==
  {Word("ada", <<"shop">>, "accept", NoTerms),
   Word("shop", <<"ada">>, "propose", Dear)}

TradeActs ==
  {Act(<<"shop">>, "propose", t) : t \in {Cheap, Refund}} \cup
  {Act(<<"shop">>, "propose", Dear), Act(<<"shop">>, "accept", NoTerms)}
-----------------------------------------------------------------------------
(***************************************************************************)
(* Room: a lamp with a body and a fan without; nobody's brain listens, so  *)
(* only the funnel is exercised: outside speakers inject every kind of     *)
(* envelope into every exchange, none, known, closed or unknown.           *)
(***************************************************************************)
RoomNames == {"ada", "ben", "lamp", "fan"}

LampOn   == Comfort("lamp.set", "on", "ok")
LampBad  == Comfort("lamp.set", "on", "garbled")
SoldAway == Trade(0, "ben", "fan", "ok")
Gift     == Trade(0, "ben", "ada", "ok")

RoomTerms == {LampOn, LampBad, SoldAway, Gift}

RoomCast ==
  {Part("lamp", Mandated("thing", {"lamp.set"}, FALSE, 0), Dark),
   Part("fan", Mandated("thing", {}, FALSE, 0), NoThing)}

RoomInjections ==
  {Word("ada", <<"lamp">>, "propose", t) : t \in {LampOn, LampBad, NoTerms}} \cup
  {Word("ada", <<"fan", "lamp">>, "propose", LampOn),
   Word("ada", <<>>, "propose", LampOn),
   Word("ben", <<"ada">>, "propose", SoldAway),
   Word("ben", <<"ada">>, "propose", Gift)} \cup
  {Word(from, <<"ada">>, "accept", NoTerms) : from \in {"ben", "lamp", "fan"}} \cup
  {Word("ada", <<"lamp">>, k, NoTerms) :
     k \in {"accept", "decline", "withdraw", "ask_principal"}}

-----------------------------------------------------------------------------
(***************************************************************************)
(* Reclaim: ada is re-claimed under another charter while ben talks to     *)
(* her, offers, counters and walks away.                                   *)
(***************************************************************************)
ReclaimNames == {"ada", "ben"}

ReclaimTerms == {LampOn, Gift}

ReclaimCast ==
  {Part("ada", Mandated("person", {"trade"}, FALSE, 0), NoThing),
   Part("ada", Mandated("person", {"lamp.set"}, FALSE, 0), NoThing)}

ReclaimInjections ==
  {Word("ben", <<"ada">>, "say", NoTerms),
   Word("ben", <<"ada">>, "propose", LampOn),
   Word("ben", <<"ada">>, "withdraw", NoTerms)}

ReclaimActs ==
  {Act(<<"ben">>, "propose", t) : t \in ReclaimTerms} \cup
  {Act(<<"ben">>, "decline", NoTerms)}
=============================================================================
