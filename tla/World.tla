-------------------------------- MODULE World --------------------------------
(***************************************************************************)
(* The typed state of the world: what each registered thing is set to and  *)
(* the marks each voice holds (fabric/internal/world).  World has no lock  *)
(* of its own, the orchestrator owns it; so it has operations, used inside *)
(* the orchestrator's steps, and no next-state relation.                   *)
(***************************************************************************)
EXTENDS Protocol

CONSTANT NoThing     \* the state of a voice that never registered a body

VARIABLES
  things,            \* World.things
  marks              \* World.marks; a missing key reads as 0

ThingState == [ComfortTypes -> Values]

ASSUME ThingAssumption == NoThing \notin ThingState

WorldTypeOK ==
  /\ things \in [Names -> ThingState \cup {NoThing}]
  /\ marks \in [Names -> Int]

WorldInit ==
  /\ things = [n \in Names |-> NoThing]
  /\ marks = [n \in Names |-> 0]

(***************************************************************************)
(* Register gives voice a body, Credit adjusts its marks.                  *)
(***************************************************************************)
Register(voice, init) == things' = [things EXCEPT ![voice] = init]

Credit(voice, n) == marks' = [marks EXCEPT ![voice] = @ + n]

(***************************************************************************)
(* Apply either takes effect or returns an error and changes nothing.      *)
(* Applies(owner, t) is the first case, Apply(owner, t) its effect; owner  *)
(* is whose body a comfort term sets.  The two assignments of a trade run  *)
(* one after the other, so a voice that trades with itself keeps its       *)
(* marks.                                                                  *)
(***************************************************************************)
AppliesAnyPrice(owner, t) ==           \* variant: the sign is not checked
  /\ ApplyReads(t)
  /\ \/ t.type \in ComfortTypes /\ things[owner] # NoThing
     \/ t.type = "trade" /\ marks[t.buyer] >= t.price

Applies(owner, t) ==
  /\ ApplyReads(t)
  /\ \/ /\ t.type \in ComfortTypes
        /\ things[owner] # NoThing
     \/ /\ t.type = "trade"
        /\ t.price >= 0
        /\ marks[t.buyer] >= t.price

Apply(owner, t) ==
  \/ /\ t.type \in ComfortTypes
     /\ things' = [things EXCEPT ![owner][t.type] = t.value]
     /\ UNCHANGED marks
  \/ /\ t.type = "trade"
     /\ marks' = [[marks EXCEPT ![t.buyer] = @ - t.price] EXCEPT ![t.seller] = @ + t.price]
     /\ UNCHANGED things
=============================================================================
