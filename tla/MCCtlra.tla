------------------------------- MODULE MCCtlra -------------------------------
(***************************************************************************)
(* Instances of Ctlra for TLC: two units of different models, one of the   *)
(* model with the LEFT quirk, and a controller behind a hub of its own.    *)
(***************************************************************************)
EXTENDS Ctlra

CONSTANTS u1, u2, mk3, jam, mikro2, hub, firmata

MCModels == {mk3, jam, mikro2, hub}
Different == (u1 :> mk3) @@ (u2 :> jam)
Quirky == (u1 :> mikro2) @@ (u2 :> mk3)
HubAndDevice == (u1 :> hub) @@ (u2 :> mk3)
NoQuirk == [m \in MCModels |-> m]
HubQuirk == [m \in MCModels |-> IF m = hub THEN mk3 ELSE m]

\* Only filters a list as SelectSeq does.
ASSUME OnlyIsSelection ==
  \A s \in BoundedSeq(1..3, 4), S \in SUBSET (1..3) :
    Only(s, S) = SelectSeq(s, LAMBDA x : x \in S)
=============================================================================
