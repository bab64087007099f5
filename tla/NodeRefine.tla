----------------------------- MODULE NodeRefine -----------------------------
(***************************************************************************)
(* NodeCore against the abstract ledger of NameLedger: the committed state *)
(* of the node is always that of a valid chain, and changes only by        *)
(* adopting a valid chain with more work.                                  *)
(***************************************************************************)
EXTENDS NodeProps, LedgerRules

Ledger == INSTANCE NameLedger WITH
    best     <- dbBest,
    unspent  <- {o \in OutPoint : HasTxIndex(dbTx, o[1]) /\ o[2] \notin dbTx[o[1]].spent
                                  /\ o[2] <= Len(vout[o[1]])},
    registry <- [n \in Name |-> LET vtxPos == VtxPos(dbName, n)
                                IN  [i \in DOMAIN vtxPos |-> vtxPos[i].pos]]

(* The rules that LedgerRules states are in force at every height: both     *)
(* forks are behind every block but the first.                              *)
ModernRules ==
    \A b \in Block \ {Genesis} : postLibcoinFork(nHeight[b]) /\ doStrictChecks(nHeight[b])

(* ImplementsLedger: connecting and disconnecting one transaction at a time *)
(* inside database transactions implements "adopt a valid chain with more   *)
(* work": spent flags and name histories are those of the whole chain.      *)
ImplementsLedger == Ledger!Spec

(* OnHeaviestValidChain: when cs_main is free, no block of the index ends a *)
(* valid chain with more work than the best one.  A crash or failed commit  *)
(* between AddToBlockIndex's own commit and that of SetBestChain leaves its *)
(* block behind, and never more than that one block each.                   *)
Behind(b) == {a \in Ancestors[b] : bnChainWork[a] > bnChainWork[pindexBest]}

OnHeaviestValidChain ==
    stage = "idle" =>
        \A b \in mapBlockIndex : Cardinality(Behind(b)) > faults => ~ValidChain(b)

(* NoStrandedOrphan: an orphan block is left waiting although its           *)
(* predecessor is known only if that predecessor's chain is invalid.        *)
NoStrandedOrphan ==
    stage = "idle" /\ faults = 0 =>
        \A b \in mapOrphanBlocks :
            /\ b \notin mapBlockIndex
            /\ hashPrevBlock[b] \in mapBlockIndex => ~ValidChain(hashPrevBlock[b])

(* NoInflation: the outputs of the committed chain's transactions that are  *)
(* not spent are worth no more than the subsidies of its blocks: fees and   *)
(* payments move coins, they never make any.                                *)
UnspentCoins ==
    {o \in UNION {OutputsOf(t) : t \in IndexedTx(dbTx)} : o[2] \notin dbTx[o[1]].spent}

Subsidies(b) == SumFunction([a \in Ancestors[b] \ {Genesis} |-> GetBlockValue(nHeight[a], 0)])

NoInflation == ValueOf(UnspentCoins) <= Subsidies(dbBest)

-----------------------------------------------------------------------------
(* CNameDB::ReconstructNameIndex, the rebuild of the name index from the    *)
(* blocks of the main chain (with NameBugWorkaround before the fork).       *)
ChainPositions[b \in Block] ==
    IF b = Genesis THEN <<>>
    ELSE ChainPositions[hashPrevBlock[b]] \o [i \in DOMAIN vtx[b] |-> PosOf(b, i)]

NameBugWorkaround(t) ==
    /\ NameInputs(t) # {} /\ \A o1, o2 \in NameInputs(t) : o1 = o2
    /\ ~Mismatch(t)

ReconstructStep(nv, p) ==
    LET t   == vtx[p[1]][p[2]]
        h   == nHeight[p[1]]
        n   == NameOut(t).name
        rec == [nHeight |-> h, pos |-> p]
        PrevPos == dbTx[NameInput(t)[1]].pos
    IN  IF /\ isNameTx[t] /\ DecodeNameTx(t) /\ NameOut(t).op # "new"
           /\ HasTxIndex(dbTx, t)
           /\ ~postLibcoinFork(h) =>
                 /\ NameBugWorkaround(t)
                 /\ NameOut(t).op = "update" => CheckNameTxPos(nv, n, PrevPos)
        THEN WriteName(nv, n, Append(VtxPos(nv, n), rec))
        ELSE nv

ReconstructNameIndex == FoldLeft(ReconstructStep, <<>>, ChainPositions[dbBest])

(* NameIndexReconstructs: the name index maintained block by block, through *)
(* reorganisations and aborted transactions, has the entries that a rebuild *)
(* from the main chain would give.                                          *)
NameIndexReconstructs ==
    \A n \in Name : VtxPos(dbName, n) = VtxPos(ReconstructNameIndex, n)
=============================================================================
