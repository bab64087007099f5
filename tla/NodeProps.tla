------------------------------ MODULE NodeProps ------------------------------
(***************************************************************************)
(* The properties of NodeCore.                                             *)
(***************************************************************************)
EXTENDS NodeCore

IndexedTx(tv) == {t \in Tx : HasTxIndex(tv, t)}

(* <<b, i>> is a position of the chain up to the n-th transaction of block e. *)
InChain(b, i, e, n) ==
    /\ b \in Ancestors[e] \ {Genesis} /\ i \in 1 .. Len(vtx[b])
    /\ b = e => i <= n

(* The index tv holds exactly the transactions of that chain, each at its   *)
(* position.                                                                *)
IndexIsChain(tv, e, n) ==
    /\ \A b \in Block : \A i \in 1 .. Len(vtx[b]) :
          InChain(b, i, e, n) => tv[vtx[b][i]].pos = PosOf(b, i)
    /\ \A t \in Tx : HasTxIndex(tv, t) =>
          /\ InChain(tv[t].pos[1], tv[t].pos[2], e, n)
          /\ vtx[tv[t].pos[1]][tv[t].pos[2]] = t

-----------------------------------------------------------------------------
(* TypeOK: every variable of the node has its type; a job is under way      *)
(* exactly when SetBestChain has a block to work for.                       *)
TxIndexType == [Tx -> [pos : (Block \cup {NoBlock}) \X Nat, spent : SUBSET Nat]]

NameIndexType(nv) == DOMAIN nv \subseteq Name /\ \A n \in DOMAIN nv : nv[n] \in Seq(CNameIndex)

NextType == [Block -> Block \cup {NoBlock}]

ChainType ==
    /\ mapBlockIndex \subseteq Block /\ mapOrphanBlocks \subseteq Block
    /\ pindexBest \in mapBlockIndex /\ dbBest \in mapBlockIndex
    /\ pnext \in NextType /\ dbNext \in NextType /\ txNext \in NextType
    /\ bnBestInvalidWork \in Nat /\ faults \in Nat

StoreType ==
    /\ dbTx \in TxIndexType /\ txTx \in TxIndexType
    /\ NameIndexType(dbName) /\ NameIndexType(txName)

PoolType ==
    /\ mapTransactions \subseteq Tx
    /\ mapNextTx \in [OutPoint -> Tx \cup {NoTx}]
    /\ mapNamePending \in [Name -> SUBSET Tx]
    /\ setNewHashes \subseteq Nat \X Name

JobType ==
    /\ stage \in {"idle", "disconnect", "connect", "connected",
                  "resurrect", "delete", "orphans"}
    /\ pindexNew \in mapBlockIndex \cup {NoBlock}
    /\ pindexNew # NoBlock <=> stage \notin {"idle", "orphans"}
    /\ tip \in mapBlockIndex /\ nTx \in 0 .. Len(vtx[tip]) /\ nFees \in Int
    /\ vResurrect \in Seq(Tx) /\ vDelete \in Seq(Tx) /\ vWorkQueue \in Seq(Block)

TypeOK == ChainType /\ StoreType /\ PoolType /\ JobType

(* TxIndexIsChain: inside a database transaction, after any number of      *)
(* ConnectInputs and DisconnectInputs calls, the index holds exactly the   *)
(* transactions of the chain up to the current position, at their place.   *)
TxIndexIsChain == IndexIsChain(txTx, tip, nTx)

(* NoDoubleSpend: no two transactions of the chain spend the same output,  *)
(* and the spent flags are exactly what the chain's transactions spend.    *)
OutputsSpentOnce(tv) ==
    /\ \A t, u \in IndexedTx(tv) : t # u => vin[t] \cap vin[u] = {}
    /\ \A t \in IndexedTx(tv) : \A k \in 1 .. Len(vout[t]) :
          k \in tv[t].spent <=> \E u \in IndexedTx(tv) : <<t, k>> \in vin[u]

NoDoubleSpend == OutputsSpentOnce(txTx)

(* SetSpentAssertion: the assert in CTxIndex::SetSpent never fires.  An    *)
(* input that DisconnectInputs releases is found, and is marked spent.     *)
SetSpentAssertion ==
    stage = "disconnect" /\ ~AtFork /\ nTx > 0 =>
        \A o \in vin[vtx[tip][nTx]] : HasTxIndex(txTx, o[1]) /\ o[2] \in txTx[o[1]].spent

(* ReorgCanUndo: DisconnectInputs never fails, so no block that was        *)
(* connected keeps the node from leaving its branch.                       *)
ReorgCanUndo ==
    stage = "disconnect" /\ ~AtFork /\ nTx > 0 =>
        CanDisconnect(vtx[tip][nTx], txTx, txName)

(* OneLiveCoin: of all unspent coins of a name, only the one of the last   *)
(* entry of the name's history may be unexpired, and it is unspent: nobody *)
(* else can update the name, and the holder can.                           *)
NameCoin(t) == CHOOSE i \in DOMAIN vout[t] : i \in NameOutputs(t)

UnspentNameCoins(n) ==
    {t \in IndexedTx(txTx) :
        /\ isNameTx[t] /\ NameOut(t).op \in {"firstupdate", "update"}
        /\ NameOut(t).name = n
        /\ NameCoin(t) \notin txTx[t].spent}

OneLiveCoin ==
    \A n \in DOMAIN txName :
        LET vtxPos == txName[n]
        IN  /\ \A t \in UnspentNameCoins(n) :
                  \/ vtxPos # <<>> /\ txTx[t].pos = Last(vtxPos).pos
                  \/ ~NameUnexpired(nHeight[txTx[t].pos[1]], nHeight[tip])
            /\ vtxPos # <<>> =>
                  \E t \in UnspentNameCoins(n) : txTx[t].pos = Last(vtxPos).pos

(* The blocks hold none of the transactions ConnectInputs only lets through *)
(* because of a bug: below the libcoin fork a name_firstupdate or           *)
(* name_update that does not match its input, or that spends the name       *)
(* output of a transaction without the name version; at any height a        *)
(* coinbase that operates on a name, for which the hook is never called.    *)
WithoutBug(t, b) ==
    /\ ~IsCoinBase(t)
    /\ ~postLibcoinFork(nHeight[b]) =>
          /\ ~Mismatch(t)
          /\ NameOut(t).op = "update" => NamePopped(NameInput(t)[1])

NoNameBug ==
    \A b \in Block \ {Genesis} : \A i \in DOMAIN vtx[b] :
        NamePopped(vtx[b][i]) => WithoutBug(vtx[b][i], b)

(* CustodyChain: a name's history is a chain of custody.  Every entry is a *)
(* name_firstupdate that reveals its own name_new, or a name_update that   *)
(* spends the coin of the entry before it; before the fork the mismatching *)
(* transactions the code tolerates never get into it.                      *)
CustodyChain ==
    \A n \in DOMAIN txName : \A k \in DOMAIN txName[n] :
        LET pos == txName[n][k].pos
            t   == vtx[pos[1]][pos[2]]
        IN  /\ txTx[t].pos = pos /\ txName[n][k].nHeight = nHeight[pos[1]]
            /\ NameOut(t).name = n
            /\ \/ /\ NameOut(t).op = "firstupdate" /\ Out(NameInput(t)).op = "new"
                  /\ Out(NameInput(t)).name = n /\ Out(NameInput(t)).rand = NameOut(t).rand
               \/ /\ NameOut(t).op = "update" /\ k > 1
                  /\ txTx[NameInput(t)[1]].pos = txName[n][k - 1].pos

(* CommittedTogether: the committed databases always belong to the chain   *)
(* dbBest names, whatever was aborted or interrupted: the transaction index *)
(* holds that chain's transactions and the hashNext links lead along it.   *)
CommittedTogether ==
    /\ IndexIsChain(dbTx, dbBest, Len(vtx[dbBest]))
    /\ OutputsSpentOnce(dbTx)
    /\ \A b \in Block :
          IF b \in Ancestors[dbBest] \ {dbBest}
          THEN dbNext[b] \in Ancestors[dbBest] /\ hashPrevBlock[dbNext[b]] = b
          ELSE dbNext[b] = NoBlock

(* MemoryMatchesDisk: whenever cs_main is free, the tip and the pnext      *)
(* pointers in memory are those a restart would read from disk.            *)
MemoryMatchesDisk ==
    stage = "idle" => /\ pindexBest = dbBest /\ pnext = dbNext
                      /\ txTx = dbTx /\ txName = dbName

(* InPointsValid: an entry of mapNextTx points into a transaction that is  *)
(* in the pool and has that input (the code stores a pointer to it).       *)
InPointsValid ==
    \A o \in OutPoint : mapNextTx[o] # NoTx =>
        mapNextTx[o] \in mapTransactions /\ o \in vin[mapNextTx[o]]

(* PendingInPool: what mapNamePending lists for a name is in the pool and   *)
(* operates on that name, so a name is never blocked by a ghost.            *)
PendingInPool ==
    \A n \in Name : \A t \in mapNamePending[n] :
        /\ t \in mapTransactions
        /\ isNameTx[t] /\ DecodeNameTx(t) /\ NameOut(t).op # "new" /\ NameOut(t).name = n

-----------------------------------------------------------------------------
(* The inductive invariant behind TypeOK, TxIndexIsChain, NoDoubleSpend and *)
(* SetSpentAssertion.                                                       *)

(* The index is closed under predecessors, and CheckBlock has been passed. *)
IndexClosed ==
    /\ \A b \in mapBlockIndex : Ancestors[b] \subseteq mapBlockIndex
    /\ \A b \in mapBlockIndex \cup mapOrphanBlocks : b = Genesis \/ CheckBlock(b)
    /\ \A i \in DOMAIN vWorkQueue : vWorkQueue[i] \in mapBlockIndex

(* Where the open transaction stands: it follows the old branch down to the *)
(* fork and the new branch up from there; outside it there is nothing open. *)
Committed == {"idle", "orphans", "resurrect", "delete"}

JobOK ==
    /\ dbBest = IF stage \in {"resurrect", "delete"} THEN pindexNew ELSE pindexBest
    /\ stage \in Committed =>
          txTx = dbTx /\ txName = dbName /\ tip = dbBest /\ nTx = Len(vtx[tip])
    /\ stage = "disconnect" =>
          /\ tip \in Ancestors[pindexBest] /\ pindexNew \notin Ancestors[pindexBest]
          /\ AtFork => nTx = Len(vtx[tip])
    /\ stage \in {"connect", "connected"} => tip \in Ancestors[pindexNew] \ {Genesis}
    /\ stage = "connected" => nTx = Len(vtx[tip])

(* The inputs of an indexed transaction come from earlier in the chain. *)
Precedes(p, q) ==
    \/ nHeight[p[1]] < nHeight[q[1]]
    \/ p[1] = q[1] /\ p[2] < q[2]

InputsPrecede(tv) ==
    \A t \in IndexedTx(tv) : \A o \in vin[t] :
        /\ HasTxIndex(tv, o[1]) /\ o[2] \in 1 .. Len(vout[o[1]])
        /\ Precedes(tv[o[1]].pos, tv[t].pos)

(* What the index is at a point of the chain. *)
ChainView(tv, e, n) == IndexIsChain(tv, e, n) /\ OutputsSpentOnce(tv) /\ InputsPrecede(tv)

(* NodeInv: the inductive invariant.  The committed index belongs to the    *)
(* committed tip, and the index seen inside the database transaction to the *)
(* point that Reorganize has reached, through aborts, crashes and restarts. *)
NodeInv ==
    /\ TypeOK /\ IndexClosed /\ JobOK
    /\ ChainView(txTx, tip, nTx)
    /\ ChainView(dbTx, dbBest, Len(vtx[dbBest]))
=============================================================================
