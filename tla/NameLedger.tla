----------------------------- MODULE NameLedger -----------------------------
(***************************************************************************)
(* The abstract node: it holds a valid chain, with the unspent outputs and *)
(* the name history that chain implies, and may only move to another valid *)
(* chain with more work.                                                   *)
(***************************************************************************)
EXTENDS Integers

CONSTANTS Block, Genesis, bnChainWork, ValidChains, UnspentOf, RegistryOf

VARIABLES best,      \* the tip of the accepted chain
          unspent,   \* the outputs nobody on that chain has spent
          registry   \* name -> positions of its operations, oldest first

vars == <<best, unspent, registry>>

Init == best = Genesis /\ unspent = UnspentOf[Genesis] /\ registry = RegistryOf[Genesis]

(* The node adopts a valid chain with more work. *)
Adopt(b) ==
    /\ bnChainWork[b] > bnChainWork[best]
    /\ best' = b
    /\ b \in ValidChains
    /\ unspent' = UnspentOf[b] /\ registry' = RegistryOf[b]

Next == \E b \in Block : Adopt(b)

Spec == Init /\ [][Next]_vars
=============================================================================
