---------------------------- MODULE MCBlockSync ----------------------------
(***************************************************************************)
(*   g - a1 - a2 - a3 - a4                                                 *)
(*     \ b1                                                                *)
(***************************************************************************)
EXTENDS BlockSync

CONSTANTS A, B, C

MCPrev == [g |-> "none", a1 |-> "g", a2 |-> "a1", a3 |-> "a2", a4 |-> "a3", b1 |-> "g"]
MCBlock == DOMAIN MCPrev

(* B opens a connection to A and may find a block before or after that. *)
OneDial  == << <<B, A>> >>
OneStart == (A :> "a3") @@ (B :> "g")
OneMine  == (A :> {"a4"}) @@ (B :> {"b1"})

(* The connection breaks and B opens it again. *)
TwoDials == << <<B, A>>, <<B, A>> >>
TwoStart == (A :> "a3") @@ (B :> "b1")
TwoMine  == (A :> {"a4"}) @@ (B :> {})

(* B gets blocks from C and has a connection to A as well. *)
ThreeDials == << <<B, C>>, <<B, A>>, <<A, C>> >>
ThreeStart == (A :> "a2") @@ (B :> "g") @@ (C :> "a3")
ThreeMine  == [n \in {A, B, C} |-> {}]
=============================================================================
