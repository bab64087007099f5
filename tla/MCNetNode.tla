----------------------------- MODULE MCNetNode -----------------------------
(* Three nodes, two of them from one address.                              *)
EXTENDS NetNode

CONSTANTS n1, n2, n3

OneAddress == [n \in Node |-> IF n = n3 THEN "b" ELSE "a"]
=============================================================================
