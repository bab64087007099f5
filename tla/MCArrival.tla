------------------------------ MODULE MCArrival ------------------------------
(***************************************************************************)
(* Blocks and transactions that arrive in any order:                       *)
(*                                                                         *)
(*   g - a1[] - a2[P]                                                      *)
(*            \ b2[Q] - b3[] - b4[]                                        *)
(*                    \ x3[P]   invalid: Q has spent the output            *)
(*                                                                         *)
(* P has two children C and E, and D spends from both of them.             *)
(***************************************************************************)
EXTENDS OrphanTx

CONSTANT Blocks  \* the part of the tree that is used

Tree == [
    g  |-> <<"none">>, a1 |-> <<"g">>, a2 |-> <<"a1", "P">>,
    b2 |-> <<"a1", "Q">>, b3 |-> <<"b2">>, b4 |-> <<"b3">>, x3 |-> <<"b2", "P">>]

MCPrev == [b \in Blocks |-> Tree[b][1]]
MCVtx == [b \in Blocks |-> <<b>> \o Tail(Tree[b])]
MCTx == Blocks \cup {"P", "Q", "C", "D", "E"}
MCVin == [t \in MCTx |->
    CASE t \in {"P", "Q"} -> {<<"a1", 1>>} [] t = "C" -> {<<"P", 1>>}
      [] t = "E" -> {<<"P", 2>>} [] t = "D" -> {<<"C", 1>>, <<"E", 1>>}
      [] OTHER -> {}]
Pay(v) == [op |-> "none", name |-> "n", rand |-> 0, nValue |-> v]
MCVout == [t \in MCTx |-> IF t = "P" THEN <<Pay(1), Pay(1)>>
                          ELSE IF t \in Blocks THEN <<Pay(2)>> ELSE <<Pay(1)>>]
MCIsNameTx == [t \in MCTx |-> FALSE]
MCWork == [b \in Blocks |-> 1]
=============================================================================
