------------------------------ MODULE MCFabricd ------------------------------
(***************************************************************************)
(* Instances of the composition root for TLC: ada can be claimed and her   *)
(* is her principal; the shop is a seed.  The shop murmurs and sells, ada  *)
(* asks or takes.                                                          *)
(***************************************************************************)
EXTENDS FabricdProperties

MCNames == {"ada", "shop", "her"}

MCListeners == {"ada", "shop"}

MCValues == {"on", "off"}

Trade(price) ==
  [type |-> "trade", form |-> "ok", price |-> price, buyer |-> "ada", seller |-> "shop"]

MCTerms == {Trade(1), Trade(2)}

MCCharter(kind) == [kind |-> kind, mayPropose |-> {"trade"}, solo |-> TRUE, limit |-> 2]

MCCast == {[voice |-> "shop", charter |-> MCCharter("thing"), init |-> NoThing]}

MCResidents == {"ada"}

MCResidentCharter == MCCharter("person")

MCPrincipalOf == [v \in {"ada"} |-> "her"]

Murmurs == {[from |-> "shop", to |-> <<>>, kind |-> "say", terms |-> NoTerms]}

Act(to, kind, terms) == [to |-> <<to>>, kind |-> kind, terms |-> terms]

Sells == {Act("ada", "propose", t) : t \in MCTerms}

Asks == {Act("her", "ask_principal", NoTerms)}

Takes == {Act("shop", "accept", NoTerms)}

Market == Sells \cup Asks \cup Takes
=============================================================================
