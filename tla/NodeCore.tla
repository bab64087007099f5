------------------------------ MODULE NodeCore ------------------------------
(***************************************************************************)
(* The block chain and memory pool of one node (main.cpp), with the name   *)
(* index and the pending-name bookkeeping of the hooks (namecoin.cpp).     *)
(*                                                                         *)
(* ProcessBlock, the "tx" message and the RPC calls run under cs_main, so  *)
(* at most one of them is under way.  A block that becomes the best one is *)
(* handled one transaction at a time: each call of ConnectInputs,          *)
(* DisconnectInputs, AcceptToMemoryPool and RemoveFromMemoryPool is one    *)
(* step, and the process may die between any two steps.  The variable      *)
(* stage says where the holder of cs_main is:                              *)
(*   idle        nobody holds it;                                          *)
(*   disconnect  Reorganize undoes the blocks of the old branch;           *)
(*   connect     ConnectBlock of the blocks of the new branch;             *)
(*   connected   one of those ConnectBlock calls has returned;             *)
(*   resurrect, delete   the pool is adjusted after the commit;            *)
(*   orphans     ProcessBlock looks for orphan blocks to accept.           *)
(* Steps of the database transaction change txTx, txName and txNext; only  *)
(* TxnCommit changes the databases dbTx, dbName, dbNext and dbBest.        *)
(***************************************************************************)
EXTENDS NameHooks

CONSTANTS NoTx,      \* "no transaction" in mapNextTx
          MaxFaults, \* how many crashes and failed commits a behaviour has
          MaxOrphans \* how many orphan blocks are held (the code has no limit)

ASSUME NoTxAssumption == NoTx \notin Tx

VARIABLES
    mapBlockIndex,    \* blocks in the index (on disk and in memory)
    mapOrphanBlocks,  \* blocks whose predecessor is unknown
    pindexBest,       \* tip of the main chain, in memory
    pnext,            \* CBlockIndex::pnext, in memory
    dbTx, dbName, dbNext, dbBest,  \* the committed databases
    txTx, txName, txNext,          \* as seen inside the open transaction
    mapTransactions,  \* the memory pool
    mapNextTx,        \* outpoint -> the pool transaction that spends it
    mapNamePending,   \* name -> pool transactions that operate on it
    setNewHashes,     \* hashes of the name_new's accepted into the pool
    stage, pindexNew, \* what SetBestChain is doing, and for which block
    tip, nTx,         \* the view holds the chain up to the nTx-th tx of tip
    nFees,            \* fees of the transactions of tip connected so far
    vResurrect, vDelete, vWorkQueue,
    bnBestInvalidWork,
    faults

diskVars  == <<dbTx, dbName, dbNext, dbBest>>
txnVars   == <<txTx, txName, txNext>>
chainVars == <<mapBlockIndex, mapOrphanBlocks, pindexBest, pnext, bnBestInvalidWork>>
poolVars  == <<mapTransactions, mapNextTx, mapNamePending, setNewHashes>>
viewVars  == <<tip, nTx, nFees>>
jobVars   == <<stage, pindexNew, viewVars, vResurrect, vDelete, vWorkQueue>>
vars == <<diskVars, txnVars, chainVars, poolVars, jobVars, faults>>

NoIndex == [pos |-> NoPos, spent |-> {}]

(* LoadBlockIndex creates the genesis block and makes it the best one; its *)
(* transactions are never connected.                                       *)
Init ==
    /\ mapBlockIndex = {Genesis} /\ mapOrphanBlocks = {}
    /\ pindexBest = Genesis /\ dbBest = Genesis
    /\ pnext = [b \in Block |-> NoBlock] /\ dbNext = pnext /\ txNext = pnext
    /\ dbTx = [t \in Tx |-> NoIndex] /\ txTx = dbTx
    /\ dbName = <<>> /\ txName = <<>>
    /\ mapTransactions = {} /\ mapNextTx = [o \in OutPoint |-> NoTx]
    /\ mapNamePending = [n \in Name |-> {}] /\ setNewHashes = {}
    /\ stage = "idle" /\ pindexNew = NoBlock
    /\ tip = Genesis /\ nTx = Len(vtx[Genesis]) /\ nFees = 0
    /\ vResurrect = <<>> /\ vDelete = <<>> /\ vWorkQueue = <<>>
    /\ bnBestInvalidWork = 0 /\ faults = 0

-----------------------------------------------------------------------------
(* The memory pool                                                         *)

NewHash(t) == <<NameOut(t).rand, NameOut(t).name>>

(* What AcceptToMemoryPool asks whether or not fCheckInputs is set; the     *)
(* last conjunct is the hook's.                                             *)
PoolAdmits(t) ==
    /\ CheckTransaction(t) /\ ~IsCoinBase(t)
    /\ t \notin mapTransactions
    /\ \A o \in vin[t] : mapNextTx[o] = NoTx
    /\ isNameTx[t] /\ NameOut(t).op = "new" => NewHash(t) \notin setNewHashes

(* ... and only with fCheckInputs.  The height used is the current one.     *)
CheckInputs(t) ==
    /\ ~HasTxIndex(dbTx, t)
    /\ InputsOK(t, pindexBest, dbTx, "pool", mapTransactions)
    /\ HookConnectInputs(t, pindexBest, dbTx, dbName, "pool", {}, {})
    /\ TxFee(t) >= 0

(* The hook's bookkeeping, then AddToMemoryPoolUnchecked. *)
AddToMemoryPool(t) ==
    /\ mapTransactions' = mapTransactions \cup {t}
    /\ mapNextTx' = [o \in OutPoint |-> IF o \in vin[t] THEN t ELSE mapNextTx[o]]
    /\ setNewHashes' = IF isNameTx[t] /\ NameOut(t).op = "new"
                       THEN setNewHashes \cup {NewHash(t)} ELSE setNewHashes
    /\ mapNamePending' = IF isNameTx[t] /\ NameOut(t).op # "new"
                         THEN [mapNamePending EXCEPT ![NameOut(t).name] = @ \cup {t}]
                         ELSE mapNamePending

(* Mutant: the hook is not called. *)
PendingWithout_NoHook(t) == mapNamePending

PendingWithout(t) ==
    IF isNameTx[t] /\ DecodeNameTx(t) /\ NameOut(t).op # "new"
    THEN [mapNamePending EXCEPT ![NameOut(t).name] = @ \ {t}]
    ELSE mapNamePending

(* Mutant: mapNextTx is left alone. *)
RemoveFromMemoryPool_KeepsNext(t) ==
    /\ mapTransactions' = mapTransactions \ {t}
    /\ mapNamePending' = PendingWithout(t)
    /\ UNCHANGED <<mapNextTx, setNewHashes>>

(* mapNextTx is erased by outpoint, whoever the entry belongs to. *)
RemoveFromMemoryPool(t) ==
    /\ mapTransactions' = mapTransactions \ {t}
    /\ mapNextTx' = [o \in OutPoint |-> IF o \in vin[t] THEN NoTx ELSE mapNextTx[o]]
    /\ mapNamePending' = PendingWithout(t)
    /\ UNCHANGED setNewHashes

(* The "tx" message and the wallet's own transactions. *)
AcceptToMemoryPool(t) ==
    /\ stage = "idle"
    /\ PoolAdmits(t) /\ CheckInputs(t)
    /\ AddToMemoryPool(t)
    /\ UNCHANGED <<diskVars, txnVars, chainVars, jobVars, faults>>

(* RPC deletetransaction, as far as the pool is concerned: refused for a    *)
(* transaction of the block chain that is not also in the pool.             *)
deletetransaction(t) ==
    /\ stage = "idle"
    /\ t \in mapTransactions \/ ~HasTxIndex(dbTx, t)
    /\ RemoveFromMemoryPool(t)
    /\ UNCHANGED <<diskVars, txnVars, chainVars, jobVars, faults>>

-----------------------------------------------------------------------------
(* Accepting a block                                                       *)

(* Mutant: one block more is not enough. *)
HasMoreWork_ByTwo(b) == bnChainWork[b] > bnChainWork[pindexBest] + 1

HasMoreWork(b) == bnChainWork[b] > bnChainWork[pindexBest]

(* AcceptBlock up to the commit of the index record in AddToBlockIndex.    *)
(* With more work than the best chain the block goes on to SetBestChain,   *)
(* which opens a database transaction; otherwise AcceptBlock succeeds.     *)
IndexBlock(b) ==
    /\ mapBlockIndex' = mapBlockIndex \cup {b}
    /\ IF HasMoreWork(b)
       THEN /\ stage' = "disconnect" /\ pindexNew' = b
            /\ UNCHANGED vWorkQueue
       ELSE /\ stage' = "orphans"
            /\ vWorkQueue' = Append(vWorkQueue, b)
            /\ UNCHANGED pindexNew

AcceptBlock(b) ==
    /\ b \in HeaderOK
    /\ IndexBlock(b)
    /\ UNCHANGED <<pindexBest, pnext, bnBestInvalidWork, diskVars, txnVars, poolVars,
                   viewVars, vResurrect, vDelete, faults>>

(* AcceptBlock refuses the block: nothing is recorded. *)
RejectBlock(b) ==
    /\ b \notin HeaderOK
    /\ stage' = "orphans"
    /\ UNCHANGED <<mapBlockIndex, pindexBest, pnext, bnBestInvalidWork, diskVars, txnVars,
                   poolVars, pindexNew, viewVars, vResurrect, vDelete, vWorkQueue, faults>>

(* ProcessBlock on a block that is already known or malformed: an error.   *)
ProcessBlockRefused(b) ==
    /\ stage = "idle"
    /\ b \in mapBlockIndex \cup mapOrphanBlocks \/ ~CheckBlock(b)
    /\ UNCHANGED vars

(* ... on a block whose predecessor is unknown: hold it. *)
ProcessBlockOrphan(b) ==
    /\ stage = "idle" /\ CheckBlock(b)
    /\ b \notin mapBlockIndex \cup mapOrphanBlocks
    /\ hashPrevBlock[b] \notin mapBlockIndex
    /\ Cardinality(mapOrphanBlocks) < MaxOrphans
    /\ mapOrphanBlocks' = mapOrphanBlocks \cup {b}
    /\ UNCHANGED <<mapBlockIndex, pindexBest, pnext, bnBestInvalidWork, diskVars,
                   txnVars, poolVars, jobVars, faults>>

(* ... on a block that extends a known one. *)
ProcessBlock(b) ==
    /\ stage = "idle" /\ CheckBlock(b)
    /\ b \notin mapBlockIndex \cup mapOrphanBlocks
    /\ hashPrevBlock[b] \in mapBlockIndex
    /\ AcceptBlock(b) \/ RejectBlock(b)
    /\ UNCHANGED mapOrphanBlocks

(* The work queue: every orphan that waits for its first block is tried,   *)
(* and leaves the orphan map whatever AcceptBlock says.                    *)
ProcessOrphan(b) ==
    /\ stage = "orphans" /\ vWorkQueue # <<>>
    /\ b \in mapOrphanBlocks /\ hashPrevBlock[b] = Head(vWorkQueue)
    /\ mapOrphanBlocks' = mapOrphanBlocks \ {b}
    /\ AcceptBlock(b) \/ RejectBlock(b)

(* Mutant: a block leaves the queue before its orphans were tried. *)
NextInQueue_Early ==
    /\ stage = "orphans" /\ vWorkQueue # <<>>
    /\ vWorkQueue' = Tail(vWorkQueue)
    /\ UNCHANGED <<diskVars, txnVars, chainVars, poolVars, stage, pindexNew, viewVars,
                   vResurrect, vDelete, faults>>

(* Mutant: a block never leaves the queue. *)
NextInQueue_Rotates ==
    /\ stage = "orphans" /\ vWorkQueue # <<>>
    /\ \A b \in mapOrphanBlocks : hashPrevBlock[b] # Head(vWorkQueue)
    /\ vWorkQueue' = Append(Tail(vWorkQueue), Head(vWorkQueue))
    /\ UNCHANGED <<diskVars, txnVars, chainVars, poolVars, stage, pindexNew, viewVars,
                   vResurrect, vDelete, faults>>

NextInQueue ==
    /\ stage = "orphans" /\ vWorkQueue # <<>>
    /\ \A b \in mapOrphanBlocks : hashPrevBlock[b] # Head(vWorkQueue)
    /\ vWorkQueue' = Tail(vWorkQueue)
    /\ UNCHANGED <<diskVars, txnVars, chainVars, poolVars, stage, pindexNew, viewVars,
                   vResurrect, vDelete, faults>>

ProcessBlockDone ==
    /\ stage = "orphans" /\ vWorkQueue = <<>>
    /\ stage' = "idle"
    /\ UNCHANGED <<diskVars, txnVars, chainVars, poolVars, pindexNew, viewVars,
                   vResurrect, vDelete, vWorkQueue, faults>>

-----------------------------------------------------------------------------
(* SetBestChain and Reorganize.  Adding to the current best branch is the  *)
(* case in which there is nothing to disconnect.                           *)

AtFork == tip \in Ancestors[pindexNew]

(* The block of the new branch that comes after tip. *)
NextToConnect ==
    CHOOSE b \in Ancestors[pindexNew] : hashPrevBlock[b] = tip

(* CTransaction::DisconnectInputs of the last connected transaction. *)
DisconnectInputs ==
    /\ stage = "disconnect" /\ ~AtFork /\ nTx > 0
    /\ LET t == vtx[tip][nTx]
       IN  /\ CanDisconnect(t, txTx, txName)
           /\ txName' = NameDisconnected(t, txTx, txName)
           /\ txTx' = TxDisconnected(t, txTx)
    /\ nTx' = nTx - 1
    /\ UNCHANGED <<diskVars, txNext, chainVars, poolVars, stage, pindexNew, tip, nFees,
                   vResurrect, vDelete, vWorkQueue, faults>>

(* The end of DisconnectBlock, and the transactions queued for the pool: all *)
(* but the coinbase, which CheckBlock has found to be the first one.         *)
DisconnectBlock ==
    /\ stage = "disconnect" /\ ~AtFork /\ nTx = 0
    /\ LET prev == hashPrevBlock[tip]
       IN  /\ txNext' = [txNext EXCEPT ![prev] = NoBlock]
           /\ tip' = prev /\ nTx' = Len(vtx[prev])
    /\ vResurrect' = vResurrect \o Tail(vtx[tip])
    /\ UNCHANGED <<diskVars, txTx, txName, chainVars, poolVars, stage, pindexNew, nFees,
                   vDelete, vWorkQueue, faults>>

(* ConnectBlock of the next block begins. *)
ConnectNext ==
    /\ \/ stage = "disconnect" /\ AtFork
       \/ stage = "connected" /\ tip # pindexNew
    /\ stage' = "connect"
    /\ tip' = NextToConnect /\ nTx' = 0 /\ nFees' = 0
    /\ UNCHANGED <<diskVars, txnVars, chainVars, poolVars, pindexNew,
                   vResurrect, vDelete, vWorkQueue, faults>>

TxConnects(t) ==
    /\ InputsOK(t, tip, txTx, "block", {})
    /\ HookConnectInputs(t, tip, txTx, txName, "block", {}, {})

(* CTransaction::ConnectInputs of the next transaction, the hook included. *)
ConnectInputs ==
    /\ stage = "connect" /\ nTx < Len(vtx[tip])
    /\ LET t == vtx[tip][nTx + 1]
       IN  /\ ~IsCoinBase(t) => TxConnects(t) /\ TxFee(t) >= 0
           /\ nFees' = IF IsCoinBase(t) THEN nFees ELSE nFees + TxFee(t)
           /\ txName' = NameConnected(t, tip, nTx + 1, txTx, txName)
           /\ txTx' = TxConnected(t, tip, nTx + 1, txTx)
           /\ mapNamePending' = IF ErasesPending(t) THEN PendingWithout(t)
                                ELSE mapNamePending
    /\ nTx' = nTx + 1
    /\ UNCHANGED <<diskVars, txNext, chainVars, mapTransactions, mapNextTx, setNewHashes,
                   stage, pindexNew, tip, vResurrect, vDelete, vWorkQueue, faults>>

(* The coinbase pays no more than the subsidy and the fees. *)
CoinbaseOK == GetValueOut(vtx[tip][1]) <= GetBlockValue(nHeight[tip], nFees)

(* The end of ConnectBlock, and the transactions queued for deletion. *)
ConnectBlock ==
    /\ stage = "connect" /\ nTx = Len(vtx[tip])
    /\ CoinbaseOK
    /\ txNext' = [txNext EXCEPT ![hashPrevBlock[tip]] = tip]
    /\ vDelete' = vDelete \o vtx[tip]
    /\ stage' = "connected"
    /\ UNCHANGED <<diskVars, txTx, txName, chainVars, poolVars, pindexNew, viewVars,
                   vResurrect, vWorkQueue, faults>>

(* Mutant: only the blockindex database has its transaction aborted. *)
TxnAbort_KeepsNames == txTx' = dbTx /\ txNext' = dbNext /\ UNCHANGED txName

TxnAbort == txTx' = dbTx /\ txName' = dbName /\ txNext' = dbNext

(* The open transaction is dropped and SetBestChain fails; the block stays *)
(* in the index and its orphans stay where they are.                       *)
Abort ==
    /\ TxnAbort
    /\ tip' = pindexBest /\ nTx' = Len(vtx[pindexBest]) /\ nFees' = 0
    /\ vResurrect' = <<>> /\ vDelete' = <<>>
    /\ stage' = "orphans" /\ pindexNew' = NoBlock
    /\ UNCHANGED <<diskVars, mapBlockIndex, mapOrphanBlocks, pindexBest, pnext,
                   mapTransactions, mapNextTx, setNewHashes, vWorkQueue>>

InvalidChainFound ==
    bnBestInvalidWork' = IF bnChainWork[pindexNew] > bnBestInvalidWork
                         THEN bnChainWork[pindexNew] ELSE bnBestInvalidWork

(* DisconnectInputs returns an error. *)
DisconnectFails ==
    /\ stage = "disconnect" /\ ~AtFork /\ nTx > 0
    /\ ~CanDisconnect(vtx[tip][nTx], txTx, txName)
    /\ Abort /\ InvalidChainFound
    /\ UNCHANGED <<mapNamePending, faults>>

(* ConnectInputs returns an error.  When only the fee is wrong, the hook   *)
(* has already taken the transaction out of mapNamePending.                *)
ConnectInputsFails ==
    /\ stage = "connect" /\ nTx < Len(vtx[tip])
    /\ LET t == vtx[tip][nTx + 1]
       IN  /\ ~IsCoinBase(t) /\ ~(TxConnects(t) /\ TxFee(t) >= 0)
           /\ mapNamePending' = IF TxConnects(t) /\ ErasesPending(t)
                                THEN PendingWithout(t) ELSE mapNamePending
    /\ Abort /\ InvalidChainFound
    /\ UNCHANGED faults

(* The coinbase claims too much. *)
ConnectBlockFails ==
    /\ stage = "connect" /\ nTx = Len(vtx[tip])
    /\ ~CoinbaseOK
    /\ Abort /\ InvalidChainFound
    /\ UNCHANGED <<mapNamePending, faults>>

(* Mutants: a database is left out of the commit. *)
WriteDatabases_NoNext == dbTx' = txTx /\ dbName' = txName /\ UNCHANGED dbNext
WriteDatabases_NoNames == dbTx' = txTx /\ dbNext' = txNext /\ UNCHANGED dbName

WriteDatabases == dbTx' = txTx /\ dbName' = txName /\ dbNext' = txNext

ReadyToCommit == stage = "connected" /\ tip = pindexNew

(* WriteHashBestChain, TxnCommit, and the pnext pointers in memory: those  *)
(* of the old branch are cleared, then those of the new branch are set.    *)
TxnCommit ==
    /\ ReadyToCommit
    /\ WriteDatabases /\ dbBest' = pindexNew
    /\ LET vDisconnect == Ancestors[pindexBest] \ Ancestors[pindexNew]
           vConnect    == Ancestors[pindexNew] \ Ancestors[pindexBest]
       IN  pnext' = [b \in Block |->
              IF \E c \in vConnect : hashPrevBlock[c] = b
              THEN CHOOSE c \in vConnect : hashPrevBlock[c] = b
              ELSE IF \E d \in vDisconnect : hashPrevBlock[d] = b THEN NoBlock
              ELSE pnext[b]]
    /\ stage' = "resurrect"
    /\ UNCHANGED <<txnVars, mapBlockIndex, mapOrphanBlocks, pindexBest, bnBestInvalidWork,
                   poolVars, pindexNew, viewVars, vResurrect, vDelete, vWorkQueue, faults>>

(* TxnCommit returns an error: the transaction is gone, nothing in memory  *)
(* is changed.  Only Reorganize's caller records an invalid chain.         *)
TxnCommitFails ==
    /\ ReadyToCommit /\ faults < MaxFaults
    /\ Abort
    /\ IF hashPrevBlock[pindexNew] = pindexBest THEN UNCHANGED bnBestInvalidWork
       ELSE InvalidChainFound
    /\ faults' = faults + 1
    /\ UNCHANGED mapNamePending

(* AcceptToMemoryPool(dbset, false) for a transaction of the old branch. *)
ResurrectTx ==
    /\ stage = "resurrect" /\ vResurrect # <<>>
    /\ LET t == Head(vResurrect)
       IN  IF PoolAdmits(t) THEN AddToMemoryPool(t) ELSE UNCHANGED poolVars
    /\ vResurrect' = Tail(vResurrect)
    /\ UNCHANGED <<diskVars, txnVars, chainVars, stage, pindexNew, viewVars, vDelete,
                   vWorkQueue, faults>>

ResurrectDone ==
    /\ stage = "resurrect" /\ vResurrect = <<>>
    /\ stage' = "delete"
    /\ UNCHANGED <<diskVars, txnVars, chainVars, poolVars, pindexNew, viewVars,
                   vResurrect, vDelete, vWorkQueue, faults>>

(* RemoveFromMemoryPool for a transaction of the new branch. *)
DeleteTx ==
    /\ stage = "delete" /\ vDelete # <<>>
    /\ RemoveFromMemoryPool(Head(vDelete))
    /\ vDelete' = Tail(vDelete)
    /\ UNCHANGED <<diskVars, txnVars, chainVars, stage, pindexNew, viewVars, vResurrect,
                   vWorkQueue, faults>>

(* Mutant: the job is not cleared. *)
NewBestBlock_KeepsJob ==
    /\ stage = "delete" /\ vDelete = <<>>
    /\ pindexBest' = pindexNew
    /\ stage' = "orphans" /\ vWorkQueue' = Append(vWorkQueue, pindexNew)
    /\ UNCHANGED <<diskVars, txnVars, mapBlockIndex, mapOrphanBlocks, pnext, pindexNew,
                   bnBestInvalidWork, poolVars, viewVars, vResurrect, vDelete, faults>>

(* The end of SetBestChain: AcceptBlock succeeds. *)
NewBestBlock ==
    /\ stage = "delete" /\ vDelete = <<>>
    /\ pindexBest' = pindexNew /\ pindexNew' = NoBlock
    /\ stage' = "orphans" /\ vWorkQueue' = Append(vWorkQueue, pindexNew)
    /\ UNCHANGED <<diskVars, txnVars, mapBlockIndex, mapOrphanBlocks, pnext,
                   bnBestInvalidWork, poolVars, viewVars, vResurrect, vDelete, faults>>

(* The process dies and is started again: LoadBlockIndex reads the index,  *)
(* hashNext and hashBestChain; the open transaction, the orphans and the   *)
(* pool with its bookkeeping are gone.                                     *)
Restart ==
    /\ faults < MaxFaults /\ faults' = faults + 1
    /\ pindexBest' = dbBest /\ pnext' = dbNext
    /\ txTx' = dbTx /\ txName' = dbName /\ txNext' = dbNext
    /\ mapOrphanBlocks' = {}
    /\ mapTransactions' = {} /\ mapNextTx' = [o \in OutPoint |-> NoTx]
    /\ mapNamePending' = [n \in Name |-> {}] /\ setNewHashes' = {}
    /\ stage' = "idle" /\ pindexNew' = NoBlock
    /\ tip' = dbBest /\ nTx' = Len(vtx[dbBest]) /\ nFees' = 0
    /\ vResurrect' = <<>> /\ vDelete' = <<>> /\ vWorkQueue' = <<>>
    /\ UNCHANGED <<diskVars, mapBlockIndex, bnBestInvalidWork>>

-----------------------------------------------------------------------------
(* What the node does on its own once it holds cs_main ... *)
Work ==
    \/ \E b \in Block : ProcessOrphan(b)
    \/ NextInQueue \/ ProcessBlockDone
    \/ DisconnectInputs \/ DisconnectBlock \/ DisconnectFails
    \/ ConnectNext \/ ConnectInputs \/ ConnectBlock
    \/ ConnectInputsFails \/ ConnectBlockFails
    \/ TxnCommit
    \/ ResurrectTx \/ ResurrectDone \/ DeleteTx \/ NewBestBlock

(* ... and what comes from outside. *)
Input ==
    \/ \E b \in Block : ProcessBlock(b) \/ ProcessBlockOrphan(b) \/ ProcessBlockRefused(b)
    \/ \E t \in Tx : AcceptToMemoryPool(t) \/ deletetransaction(t)

Fault == TxnCommitFails \/ Restart

Next == Work \/ Input \/ Fault

Spec == Init /\ [][Next]_vars
=============================================================================
