------------------------------ MODULE MCRules ------------------------------
(***************************************************************************)
(* What validation accepts, height by height, without competing branches   *)
(* or a memory pool: every path of the tree below from its root.           *)
(*                                                                         *)
(* "fund" pays three outputs, "res" reserves the name n twice (N1, N2);    *)
(* f1, f2 are their name_firstupdates and u1 updates the first.  A name    *)
(* lives 3 blocks at these heights.  Coinbases pay all they may: the       *)
(* subsidy of 6, and in "res" the fee of N2.  The other contents are wrong *)
(* in one way each.                                                        *)
(***************************************************************************)
EXTENDS NodeRefine

Tree == [
    g   |-> <<"none", "e">>,  h1  |-> <<"g", "fund">>, h2  |-> <<"h1", "res">>,
    a3  |-> <<"h2", "f1">>,   a4  |-> <<"a3", "e">>,   a5  |-> <<"a4", "e">>,
    a6  |-> <<"a5", "f2">>,   a7  |-> <<"a6", "u1">>,  \* re-registered; then a late update
    l5  |-> <<"a4", "f2">>,   l6  |-> <<"a5", "u1">>,  \* one block early, one block late
    b4  |-> <<"a3", "u1">>,   b5  |-> <<"b4", "e">>,   b6  |-> <<"b5", "f2">>,
    b7  |-> <<"b5", "e">>,    b8  |-> <<"b7", "f2">>,  \* the update renewed the name
    d3  |-> <<"h2", "e">>,    d4  |-> <<"d3", "u1">>,  \* no such name yet
    mf  |-> <<"d3", "mf">>,                            \* reveals something else than N2
    f3  |-> <<"h2", "f2">>,   f4  |-> <<"d3", "f2">>,  \* without the network fee; it is 0 later
    f5  |-> <<"f4", "f1">>,                            \* taken
    e5  |-> <<"f4", "e">>,    e6  |-> <<"e5", "e">>,   e7 |-> <<"e6", "f1">>,
    e8  |-> <<"e7", "u1">>,
    uu  |-> <<"a3", "uu">>,   u8  |-> <<"uu", "u1">>,  \* two updates in one block; then again
    x   |-> <<"a3", "x">>,    \* an ordinary transaction spends a name coin
    gr  |-> <<"a3", "greedy">>, \* the coinbase pays itself too much
    nf  |-> <<"a3", "nf">>,   \* a name_firstupdate right after its name_new
    m   |-> <<"a3", "m">>,    \* a name_update that changes the name
    z   |-> <<"a3", "z">>,    \* a transaction that pays more than it has
    zz  |-> <<"a3", "twice">>, \* the same transaction twice: malformed
    ti  |-> <<"a3", "time">>] \* refused by the contextual header checks

MCBlock == DOMAIN Tree
MCPrev == [b \in MCBlock |-> Tree[b][1]]
Contents(b) == Tree[b][2]
MCHeaderOK == {b \in MCBlock : Contents(b) # "time"}

Body(c) ==
    CASE c = "res" -> <<"N1", "N2">> [] c = "f1" -> <<"F1">> [] c = "f2" -> <<"F2">>
      [] c = "u1" -> <<"U1">> [] c = "uu" -> <<"U1", "V1">>
      [] c = "x" -> <<"X">> [] c = "nf" -> <<"N3", "F3">> [] c = "m" -> <<"M">>
      [] c = "z" -> <<"Z">> [] c = "mf" -> <<"F4">> [] c = "twice" -> <<"N3", "N3">>
      [] OTHER -> <<>>

(* Every block has a coinbase of its own, named after it. *)
MCVtx == [b \in MCBlock |-> <<b>> \o Body(Contents(b))]

MCTx ==
    MCBlock \cup
    {"N1", "N2", "N3", "F1", "F2", "F3", "F4", "U1", "V1", "X", "M", "Z"}

Out2(op, n, r, v) == [op |-> op, name |-> n, rand |-> r, nValue |-> v]

MCVin == [t \in MCTx |->
    CASE t = "N1" -> {<<"h1", 1>>} [] t = "N2" -> {<<"h1", 2>>}
      [] t \in {"N3", "Z"} -> {<<"h1", 3>>}
      [] t = "F1" -> {<<"N1", 1>>, <<"N1", 2>>} [] t \in {"F2", "F4"} -> {<<"N2", 1>>}
      [] t = "F3" -> {<<"N3", 1>>, <<"N3", 2>>}
      [] t = "U1" -> {<<"F1", 1>>} [] t = "V1" -> {<<"U1", 1>>}
      [] t \in {"X", "M"} -> {<<"F1", 1>>}
      [] OTHER -> {}]

MCVout == [t \in MCTx |->
    CASE t = "h1" -> [i \in 1 .. 3 |-> Out2("none", "n", 0, 2)]
      [] t = "N1" -> <<Out2("new", "n", 1, 1), Out2("none", "n", 0, 1)>>
      [] t = "N2" -> <<Out2("new", "n", 2, 1)>>
      [] t = "N3" -> <<Out2("new", "m", 3, 1), Out2("none", "n", 0, 1)>>
      [] t = "F1" -> <<Out2("firstupdate", "n", 1, 1), Out2("return", "n", 0, 1)>>
      [] t = "F2" -> <<Out2("firstupdate", "n", 2, 1)>>
      [] t = "F4" -> <<Out2("firstupdate", "n", 9, 1)>>
      [] t = "F3" -> <<Out2("firstupdate", "m", 3, 1), Out2("return", "n", 0, 1)>>
      [] t \in {"U1", "V1"} -> <<Out2("update", "n", 0, 1)>>
      [] t = "M" -> <<Out2("update", "m", 0, 1)>>
      [] t = "X" -> <<Out2("none", "n", 0, 1)>>
      [] t = "Z" -> <<Out2("none", "n", 0, 3)>>
      [] t \in {"h2", "gr"} -> <<Out2("none", "n", 0, 7)>>
      [] OTHER -> <<Out2("none", "n", 0, 6)>>]

MCIsNameTx == [t \in MCTx |-> t \in {"N1", "N2", "N3", "F1", "F2", "F3", "F4", "U1", "V1", "M"}]

MCWork == [b \in MCBlock |-> 1]

(* The hypotheses of the theorems on the name index and the ledger hold. *)
ASSUME MCNoNameBug == NoNameBug
ASSUME MCModernRules == ModernRules

(* One chain at a time, and an empty pool. *)
OneChain ==
    /\ mapTransactions = {}
    /\ \E b \in mapBlockIndex : mapBlockIndex \subseteq Ancestors[b]
=============================================================================
