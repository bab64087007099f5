------------------------------ MODULE NodeLive ------------------------------
(***************************************************************************)
(* What the node must eventually do.                                       *)
(*                                                                         *)
(* The fairness under which this is so is stated in OrphanTx: the thread   *)
(* that holds cs_main keeps going, as ProcessBlock waits for nothing but   *)
(* the disk between its steps.  Nothing is assumed about blocks or         *)
(* transactions arriving.                                                  *)
(***************************************************************************)
EXTENDS NodeRefine

(* CsMainReleased: ProcessBlock always returns: neither the walk of         *)
(* Reorganize, nor the pool updates, nor the orphan queue runs for ever.    *)
CsMainReleased == (stage # "idle") ~> (stage = "idle")

(* HeavierChainAdopted: once every block of a valid chain has been accepted, *)
(* the node ends up on a chain with at least that much work.                 *)
HeavierChainAdopted ==
    \A b \in Block :
        (b \in mapBlockIndex /\ ValidChain(b)) ~> (bnChainWork[dbBest] >= bnChainWork[b])

(* OrphansAccepted: an orphan block of a valid chain does not wait once its  *)
(* predecessor has been accepted.                                            *)
OrphansAccepted ==
    \A b \in Block :
        (b \in mapOrphanBlocks /\ hashPrevBlock[b] \in mapBlockIndex /\ ValidChain(b))
            ~> (b \in mapBlockIndex)
=============================================================================
