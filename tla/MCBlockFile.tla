---------------------------- MODULE MCBlockFile ----------------------------
(* Two branches after the genesis block: a1, a2 and b1, b2. *)
EXTENDS BlockFile

CONSTANTS g0, a1, a2, b1, b2

MCBlock == {g0, a1, a2, b1, b2}
MCPrev == (g0 :> NoBlock) @@ (a1 :> g0) @@ (a2 :> a1) @@ (b1 :> g0) @@ (b2 :> b1)
MCSize == (g0 :> 1) @@ (a1 :> 2) @@ (a2 :> 1) @@ (b1 :> 2) @@ (b2 :> 2)

All == {"extend", "reserve", "write", "flush", "index", "best"}

(* A power failure is the only fault of its behaviour. *)
PowerAlone == powerFails = 0 \/ (fails = 0 /\ kills = 0)
=============================================================================
