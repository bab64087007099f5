------------------------------ MODULE OrphanTx ------------------------------
(***************************************************************************)
(* The "tx" message and the orphan transactions (main.cpp), beside the     *)
(* node of NodeCore.  AcceptToMemoryPool sets fMissingInputs whenever      *)
(* ConnectInputs fails, whatever the reason; such a transaction is kept in *)
(* mapOrphanTransactions, with a pointer to it in                          *)
(* mapOrphanTransactionsByPrev for each transaction that it spends from.   *)
(* A transaction that is accepted takes its orphans with it, and theirs.   *)
(*                                                                         *)
(* The handler holds cs_main throughout; a step is one call of             *)
(* AcceptToMemoryPool.  A restart only empties the two maps and is left    *)
(* out, like the failing commit, so that the liveness of NodeLive can be   *)
(* checked in the presence of both kinds of orphans.                       *)
(***************************************************************************)
EXTENDS NodeLive

VARIABLES
    mapOrphanTransactions,        \* the transactions kept
    mapOrphanTransactionsByPrev,  \* pairs <<previous transaction, orphan>>
    vTxQueue,                     \* vWorkQueue of the handler, <<>> outside it
    nQueue,                       \* the position in it
    children                      \* orphans of that position still to be tried

orphanVars == <<mapOrphanTransactions, mapOrphanTransactionsByPrev>>
queueVars  == <<vTxQueue, nQueue, children>>
allVars    == <<vars, orphanVars, queueVars>>

nodeOnly == <<diskVars, txnVars, chainVars, jobVars, faults>>

OrphanInit ==
    /\ Init
    /\ mapOrphanTransactions = {} /\ mapOrphanTransactionsByPrev = {}
    /\ vTxQueue = <<>> /\ nQueue = 0 /\ children = {}

-----------------------------------------------------------------------------
Acceptable(t) == PoolAdmits(t) /\ CheckInputs(t)

(* ConnectInputs has been reached, and has failed. *)
fMissingInputs(t) ==
    /\ CheckTransaction(t) /\ ~IsCoinBase(t)
    /\ t \notin mapTransactions /\ ~HasTxIndex(dbTx, t)
    /\ \A o \in vin[t] : mapNextTx[o] = NoTx
    /\ ~CheckInputs(t)

ByPrevOf(t) == {<<o[1], t>> : o \in vin[t]}

AddOrphanTx(t) ==
    /\ mapOrphanTransactions' = mapOrphanTransactions \cup {t}
    /\ mapOrphanTransactionsByPrev' = mapOrphanTransactionsByPrev \cup ByPrevOf(t)

(* Mutant: only the pointers found on the way to the orphan are erased. *)
EraseOrphanTx_Visited(S) ==
    /\ mapOrphanTransactions' = mapOrphanTransactions \ S
    /\ mapOrphanTransactionsByPrev' =
         mapOrphanTransactionsByPrev \
           {<<vTxQueue[i], vTxQueue[i+1]>> : i \in 1 .. Len(vTxQueue) - 1}

(* EraseOrphanTx for each transaction of S; one that is not there is       *)
(* passed over.                                                            *)
EraseOrphanTx(S) ==
    /\ mapOrphanTransactions' = mapOrphanTransactions \ S
    /\ mapOrphanTransactionsByPrev' =
         mapOrphanTransactionsByPrev \
           UNION {ByPrevOf(t) : t \in S \cap mapOrphanTransactions}

(* Mutant: find instead of lower_bound .. upper_bound, one orphan only. *)
OrphansOf_Find(t) ==
    LET us == {u \in Tx : <<t, u>> \in mapOrphanTransactionsByPrev}
    IN  IF us = {} THEN {} ELSE {CHOOSE u \in us : TRUE}

OrphansOf(t) == {u \in Tx : <<t, u>> \in mapOrphanTransactionsByPrev}

-----------------------------------------------------------------------------
(* The transaction is accepted. *)
TxAccepted(t) ==
    /\ vTxQueue = <<>>
    /\ AcceptToMemoryPool(t)
    /\ vTxQueue' = <<t>> /\ nQueue' = 1 /\ children' = OrphansOf(t)
    /\ UNCHANGED orphanVars

(* It is kept as an orphan. *)
TxOrphan(t) ==
    /\ stage = "idle" /\ vTxQueue = <<>>
    /\ fMissingInputs(t)
    /\ AddOrphanTx(t)
    /\ UNCHANGED <<nodeOnly, poolVars, queueVars>>

(* An orphan is accepted ... *)
TryOrphan(u) ==
    /\ u \in children
    /\ AcceptToMemoryPool(u)
    /\ vTxQueue' = Append(vTxQueue, u)
    /\ children' = children \ {u}
    /\ UNCHANGED <<nQueue, orphanVars>>

(* ... or still not. *)
OrphanRefused(u) ==
    /\ u \in children /\ ~Acceptable(u)
    /\ children' = children \ {u}
    /\ UNCHANGED <<nodeOnly, poolVars, vTxQueue, nQueue, orphanVars>>

NextAccepted ==
    /\ children = {} /\ nQueue < Len(vTxQueue)
    /\ nQueue' = nQueue + 1
    /\ children' = OrphansOf(vTxQueue[nQueue + 1])
    /\ UNCHANGED <<nodeOnly, poolVars, vTxQueue, orphanVars>>

(* The handler erases the orphans it has accepted, and returns. *)
TxDone ==
    /\ vTxQueue # <<>> /\ children = {} /\ nQueue = Len(vTxQueue)
    /\ EraseOrphanTx(Range(vTxQueue))
    /\ vTxQueue' = <<>> /\ nQueue' = 0 /\ children' = {}
    /\ UNCHANGED <<nodeOnly, poolVars>>

(* What else happens to the node, while no "tx" message is handled.        *)
(* deletetransaction and the wallet's own payments are in Wallet.          *)
Working == vTxQueue = <<>> /\ Work /\ UNCHANGED <<orphanVars, queueVars>>

BlockArrives ==
    /\ vTxQueue = <<>>
    /\ \E b \in Block : ProcessBlock(b) \/ ProcessBlockOrphan(b) \/ ProcessBlockRefused(b)
    /\ UNCHANGED <<orphanVars, queueVars>>

HandleQueue ==
    \/ NextAccepted \/ TxDone
    \/ \E u \in Tx : TryOrphan(u) \/ OrphanRefused(u)

OrphanNext ==
    \/ \E t \in Tx : TxAccepted(t) \/ TxOrphan(t)
    \/ HandleQueue \/ Working \/ BlockArrives

(* As in NodeLive: the thread that holds cs_main goes on. *)
OrphanSpec ==
    /\ OrphanInit /\ [][OrphanNext]_allVars
    /\ WF_allVars(Working) /\ WF_allVars(HandleQueue)

-----------------------------------------------------------------------------
(* mapOrphanTransactionsByPrev points at exactly the orphans kept, under   *)
(* each transaction they spend from: EraseOrphanTx, which frees an orphan, *)
(* leaves no pointer to it behind, however it came to be accepted.         *)
PointersMatchOrphans ==
    /\ mapOrphanTransactions \subseteq Tx
    /\ mapOrphanTransactionsByPrev = UNION {ByPrevOf(t) : t \in mapOrphanTransactions}

(* When the "tx" handler returns, no orphan that spends from one of the    *)
(* transactions it has accepted, directly or as an orphan of an orphan,    *)
(* could be accepted now: the order in which a family of orphans arrives   *)
(* does not matter.                                                        *)
OrphansFollow ==
    [][TxDone => \A u \in mapOrphanTransactions' :
                     (\E o \in vin[u] : o[1] \in Range(vTxQueue)) => ~Acceptable(u)]_allVars
=============================================================================
