------------------------------ MODULE MCMiner ------------------------------
(***************************************************************************)
(* A miner beside a node that learns of these blocks:                      *)
(*                                                                         *)
(*   g - a1[N1 N2] - a2[] - a3[]                                           *)
(*                 \ b2[F1] - b3[]                                         *)
(*                 \ x2[F1 F2]     invalid                                 *)
(*                                                                         *)
(* F1 and F2 are the name_firstupdates of two users who reserved the same  *)
(* name, U1 updates it after F1.                                           *)
(***************************************************************************)
EXTENDS Miner

CONSTANT Blocks  \* the part of the tree that is used

Tree == [
    g  |-> <<"none">>, a1 |-> <<"g", "N1", "N2">>,
    a2 |-> <<"a1">>, a3 |-> <<"a2">>,
    b2 |-> <<"a1", "F1">>, b3 |-> <<"b2">>, x2 |-> <<"a1", "F1", "F2">>]

MCPrev == [b \in Blocks |-> Tree[b][1]]
MCVtx == [b \in Blocks |-> <<b>> \o Tail(Tree[b])]
MCTx == Blocks \cup {"N1", "N2", "F1", "F2", "U1"}
MCVin == [t \in MCTx |->
    CASE t = "N1" -> {<<"a1", 1>>} [] t = "N2" -> {<<"a1", 2>>}
      [] t = "F1" -> {<<"N1", 1>>} [] t = "F2" -> {<<"N2", 1>>} [] t = "U1" -> {<<"F1", 1>>}
      [] OTHER -> {}]
Pay(op, rand) == [op |-> op, name |-> "n", rand |-> rand, nValue |-> 1]
MCVout == [t \in MCTx |->
    CASE t = "a1" -> <<Pay("none", 0), Pay("none", 0)>>
      [] t = "N1" -> <<Pay("new", 1)>> [] t = "N2" -> <<Pay("new", 2)>>
      [] t = "F1" -> <<Pay("firstupdate", 1)>> [] t = "F2" -> <<Pay("firstupdate", 2)>>
      [] t = "U1" -> <<Pay("update", 0)>> [] OTHER -> <<Pay("none", 0)>>]
MCIsNameTx == [t \in MCTx |-> t \in {"N1", "N2", "F1", "F2", "U1"}]
MCWork == [b \in Blocks |-> 1]
=============================================================================
