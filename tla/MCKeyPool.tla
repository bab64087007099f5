----------------------------- MODULE MCKeyPool -----------------------------
(* Small instances of KeyPool.  Keys are interchangeable, and so are the   *)
(* holders.                                                                *)
EXTENDS KeyPool, TLC

Symmetry == Permutations(Key) \cup Permutations(Holder)
=============================================================================
