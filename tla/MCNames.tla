------------------------------- MODULE MCNames -------------------------------
(***************************************************************************)
(* A user who has reserved the name n with N1, and may register it with F1 *)
(* or spend the change of N1 with P:                                       *)
(*                                                                         *)
(*   g - a1[N1] - a2[F1] - a3[U1]                                          *)
(*              |         \ x3[U1 P]    invalid                            *)
(*              \ b2[] - b3[P]                                             *)
(*                                                                         *)
(* Each of F1, U1, U2 and P may come from this wallet or from the network, *)
(* made with a copy of the wallet; U1 and U2 are two updates of the name.  *)
(***************************************************************************)
EXTENDS NameCommands, NodeProps

CONSTANT Blocks  \* the part of the tree that is used

Tree == [
    g  |-> <<"none">>, a1 |-> <<"g", "N1">>,
    a2 |-> <<"a1", "F1">>, a3 |-> <<"a2", "U1">>, x3 |-> <<"a2", "U1", "P">>,
    b2 |-> <<"a1">>, b3 |-> <<"b2", "P">>]

MCPrev == [b \in Blocks |-> Tree[b][1]]
MCVtx == [b \in Blocks |-> <<b>> \o Tail(Tree[b])]
MCTx == Blocks \cup {"N1", "F1", "U1", "U2", "P"}
MCVin == [t \in MCTx |->
    CASE t = "N1" -> {<<"a1", 1>>}
      [] t = "F1" -> {<<"N1", 1>>, <<"N1", 2>>} [] t = "P" -> {<<"N1", 2>>}
      [] t \in {"U1", "U2"} -> {<<"F1", 1>>} [] OTHER -> {}]
Out1(op, r, v) == [op |-> op, name |-> "n", rand |-> r, nValue |-> v]
MCVout == [t \in MCTx |->
    CASE t = "a1" -> <<Out1("none", 0, 3)>>
      [] t = "N1" -> <<Out1("new", 1, 1), Out1("none", 0, 2)>>
      [] t = "F1" -> <<Out1("firstupdate", 1, 1), Out1("return", 0, 2)>>
      [] t \in {"U1", "U2"} -> <<Out1("update", 0, 1)>>
      [] OTHER -> <<Out1("none", 0, 2)>>]
MCIsNameTx == [t \in MCTx |-> t \in {"N1", "F1", "U1", "U2"}]
MCWork == [b \in Blocks |-> 1]
MCMine == {<<"N1", 1>>, <<"N1", 2>>} \cup {<<t, 1>> : t \in {"F1", "U1", "U2", "P"}}

(* The instance meets the hypotheses of RestartRemembers and of             *)
(* UpdatesAreTaken.                                                         *)
ASSUME MCCoinbasesPayFirst == CoinbasesPayFirst
ASSUME MCNoNameBug == NoNameBug
ASSUME MCUpdatesAsMade == UpdatesAsMade
ASSUME MCMatchingSpends == MatchingSpends
=============================================================================
