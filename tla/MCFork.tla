------------------------------- MODULE MCFork -------------------------------
(***************************************************************************)
(* Competing registrations on a tree of blocks:                            *)
(*                                                                         *)
(*   g - a1[N1 N2] - a2[F1 P] - a3[U1]                                     *)
(*                 |          \ c3[]  - c4[F2]   F1 has expired            *)
(*                 \ b2[F2] - b3[U2 F1]          invalid: F1 on a taken name*)
(*                          \ d3[U2 Q] - d4[]                              *)
(*                                                                         *)
(* Two users reserved the same name n (name_new N1, N2); F1, F2 are their  *)
(* name_firstupdates, U1, U2 updates; P and Q are payments that spend the  *)
(* same output.                                                            *)
(***************************************************************************)
EXTENDS NodeRefine

Out1(op, r, v) == [op |-> op, name |-> "n", rand |-> r, nValue |-> v]

MCPrev == [b \in {"g", "a1", "a2", "a3", "b2", "b3", "c3", "c4", "d3", "d4"} |->
    CASE b = "g" -> "none" [] b = "a1" -> "g"
      [] b \in {"a2", "b2"} -> "a1" [] b \in {"a3", "c3"} -> "a2"
      [] b = "c4" -> "c3"
      [] b \in {"b3", "d3"} -> "b2" [] b = "d4" -> "d3"]

MCBlock == DOMAIN MCPrev

(* Every block has a coinbase of its own, named after it. *)
MCBody == [b \in MCBlock |->
    CASE b = "a1" -> <<"N1", "N2">> [] b = "a2" -> <<"F1", "P">>
      [] b = "a3" -> <<"U1">> [] b \in {"b2", "c4"} -> <<"F2">>
      [] b = "b3" -> <<"U2", "F1">> [] b = "d3" -> <<"U2", "Q">>
      [] OTHER -> <<>>]

MCVtx == [b \in MCBlock |-> <<b>> \o MCBody[b]]

MCTx == MCBlock \cup {"N1", "N2", "F1", "F2", "U1", "U2", "P", "Q"}

MCVin == [t \in MCTx |->
    CASE t = "N1" -> {<<"a1", 1>>} [] t = "N2" -> {<<"a1", 2>>}
      [] t \in {"P", "Q"} -> {<<"a1", 3>>}
      [] t = "F1" -> {<<"N1", 1>>, <<"N1", 2>>} [] t = "F2" -> {<<"N2", 1>>, <<"N2", 2>>}
      [] t = "U1" -> {<<"F1", 1>>} [] t = "U2" -> {<<"F2", 1>>}
      [] OTHER -> {}]

MCVout == [t \in MCTx |->
    CASE t = "a1" -> [i \in 1 .. 3 |-> Out1("none", 0, 3)]
      [] t = "N1" -> <<Out1("new", 1, 1), Out1("none", 0, 2)>>
      [] t = "N2" -> <<Out1("new", 2, 1), Out1("none", 0, 2)>>
      [] t = "F1" -> <<Out1("firstupdate", 1, 1), Out1("return", 0, 2)>>
      [] t = "F2" -> <<Out1("firstupdate", 2, 1), Out1("return", 0, 2)>>
      [] t \in {"U1", "U2"} -> <<Out1("update", 0, 1)>>
      [] OTHER -> <<Out1("none", 0, 3)>>]

MCIsNameTx == [t \in MCTx |-> t \in {"N1", "N2", "F1", "F2", "U1", "U2"}]

MCWork == [b \in MCBlock |-> 1]

(* The hypotheses of the theorems on the name index and the ledger hold. *)
ASSUME MCNoNameBug == NoNameBug
ASSUME MCModernRules == ModernRules
=============================================================================
