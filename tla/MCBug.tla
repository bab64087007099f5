------------------------------- MODULE MCBug -------------------------------
(***************************************************************************)
(* Before the libcoin fork (height 5 here): transactions that use a name   *)
(* they do not own are let into blocks and kept out of the name index.     *)
(*                                                                         *)
(*   g - h1[] - h2[N1 N2] - c3[F1 F2] - c4[X Y] - c5[U1] - c6[V1]          *)
(*                        |           \ d4[U1]  - d5[]  - d6[W2]           *)
(*                        \ a3[F1 M]  - a4[L]   - a5[L2]                   *)
(*                        \ b3[]      - b4[]                               *)
(*                                                                         *)
(* N1, N2 reserve the names n and k, F1, F2 register them, U1, V1 update n. *)
(* M reveals N2 as the name m, which it is not; L and L2 update m on top    *)
(* of it.  X spends the coin of k and claims to update n; W2 tries that     *)
(* after the fork.  Y is an ordinary transaction with a name output.        *)
(***************************************************************************)
EXTENDS NodeRefine

Tree == [
    g  |-> <<"none">>, h1 |-> <<"g">>, h2 |-> <<"h1", "N1", "N2">>,
    c3 |-> <<"h2", "F1", "F2">>, c4 |-> <<"c3", "X", "Y">>, c5 |-> <<"c4", "U1">>,
    c6 |-> <<"c5", "V1">>,
    d4 |-> <<"c3", "U1">>, d5 |-> <<"d4">>, d6 |-> <<"d5", "W2">>,
    a3 |-> <<"h2", "F1", "M">>, a4 |-> <<"a3", "L">>, a5 |-> <<"a4", "L2">>,
    b3 |-> <<"h2">>, b4 |-> <<"b3">>]

MCBlock == DOMAIN Tree
MCPrev == [b \in MCBlock |-> Tree[b][1]]

(* Every block has a coinbase of its own, named after it. *)
MCVtx == [b \in MCBlock |-> <<b>> \o Tail(Tree[b])]

MCNameTx == {"N1", "N2", "F1", "F2", "U1", "V1", "M", "L", "L2", "X", "W2"}
MCTx == MCBlock \cup MCNameTx \cup {"Y"}

MCVin == [t \in MCTx |->
    CASE t = "N1" -> {<<"h1", 1>>} [] t = "N2" -> {<<"h1", 2>>} [] t = "Y" -> {<<"h1", 3>>}
      [] t = "F1" -> {<<"N1", 1>>} [] t \in {"F2", "M"} -> {<<"N2", 1>>}
      [] t = "U1" -> {<<"F1", 1>>} [] t = "V1" -> {<<"U1", 1>>}
      [] t \in {"X", "W2"} -> {<<"F2", 1>>}
      [] t = "L" -> {<<"M", 1>>} [] t = "L2" -> {<<"L", 1>>}
      [] OTHER -> {}]

Coin(op, n, r) == <<[op |-> op, name |-> n, rand |-> r, nValue |-> 1]>>

MCVout == [t \in MCTx |->
    CASE t = "h1" -> Coin("none", "n", 0) \o Coin("none", "n", 0) \o Coin("none", "n", 0)
      [] t = "N1" -> Coin("new", "n", 1) [] t = "N2" -> Coin("new", "k", 2)
      [] t = "F1" -> Coin("firstupdate", "n", 1) [] t = "F2" -> Coin("firstupdate", "k", 2)
      [] t = "M" -> Coin("firstupdate", "m", 2)
      [] t \in {"U1", "V1", "X", "W2", "Y"} -> Coin("update", "n", 0)
      [] t \in {"L", "L2"} -> Coin("update", "m", 0)
      [] OTHER -> Coin("none", "n", 0)]

MCIsNameTx == [t \in MCTx |-> t \in MCNameTx]

MCWork == [b \in MCBlock |-> 1]

(* The pool is exercised in MCFork: here it only gets resurrected transactions. *)
BlocksOnly ==
    stage \in {"idle", "orphans"} =>
        \A t \in mapTransactions : \E b \in mapBlockIndex \ Ancestors[pindexBest] :
            t \in Range(vtx[b])
=============================================================================
