-------------------------------- MODULE Miner --------------------------------
(***************************************************************************)
(* Making blocks: CreateNewBlock (main.cpp) and its callers BitcoinMiner,  *)
(* getwork, getmemorypool and getauxblock, beside the node of NodeCore.    *)
(*                                                                         *)
(* The callers have one shape: when their static pindexPrev is not         *)
(* pindexBest any more, or the pool has changed for a while, they throw    *)
(* away the old blocks (if pindexPrev is not pindexBest), set pindexPrev   *)
(* and call CreateNewBlock, which reads pindexBest once more before it     *)
(* takes cs_main: four reads without a lock, and the tip may move between  *)
(* any two.  The variable phase says where the caller is:                  *)
(*   idle     not in a call;                                               *)
(*   decided  a new block is to be made (the first read);                  *)
(*   cleared  the old blocks are thrown away or kept (the second);         *)
(*   called   the static pindexPrev is set (the third);                    *)
(*   entered  CreateNewBlock has read pindexBest and wants cs_main;        *)
(*   collect  it holds cs_main and takes transactions off the queue.       *)
(*                                                                         *)
(* The priority of a transaction, the size limits and the minimum fee are  *)
(* not represented: the queue is served in any order and any transaction   *)
(* may be passed over.  Neither is the height a pool transaction remembers *)
(* of an input that is MIN_PRIORITY_CACHE_CONF (120) blocks deep.          *)
(***************************************************************************)
EXTENDS NodeCore

CONSTANT MaxWork  \* how many blocks a caller hands out for one pindexPrev

VARIABLES
    prevPos,      \* pool transaction -> its inputs' CTxIn::prevPos, or NoInfo
    phase,
    pindexPrev,   \* the static variables of the caller: the tip it works on
    pblock,       \* and the block it hands out
    work,         \* the block under construction: [prev, txs, nFees]
    mapPriority,  \* the queue
    mapDependers, \* transaction -> what it waits for (COrphan::setDependsOn)
    mapTestPool,  \* the proposed changes: transaction -> CTxIndex
    mapNewBlock   \* the blocks handed out that are not thrown away yet

callVars  == <<phase, work, mapPriority, mapDependers, mapTestPool>>
minerVars == <<prevPos, pindexPrev, pblock, mapNewBlock, callVars>>
minerAll  == <<vars, minerVars>>

(* Not fHasPrevInfo. *)
NoInfo == <<>>

(* CDiskTxPos(1,1,1): a transaction of the block under construction. *)
TestPos == <<NoBlock, 1>>

EmptyWork == [prev |-> NoBlock, txs |-> <<>>, nFees |-> 0]

(* pblock is NULL. *)
NoWork == [prev |-> NoBlock, txs |-> <<>>, nValue |-> 0]

NotCalled ==
    /\ phase = "idle" /\ work = EmptyWork /\ mapPriority = {}
    /\ mapDependers = <<>> /\ mapTestPool = <<>>

MinerInit ==
    /\ Init /\ NotCalled
    /\ prevPos = [t \in Tx |-> NoInfo]
    /\ pindexPrev = NoBlock /\ pblock = NoWork /\ mapNewBlock = {}

-----------------------------------------------------------------------------
(* The pool keeps with each input the position of the previous transaction *)
(* that ConnectInputs saw; a transaction that is resurrected has not been  *)
(* through ConnectInputs.                                                  *)
KeepPrevPos ==
    prevPos' = [t \in Tx |->
        IF t \notin mapTransactions' THEN NoInfo
        ELSE IF t \in mapTransactions THEN prevPos[t]
        ELSE IF stage = "idle" THEN [o \in vin[t] |-> dbTx[o[1]].pos]
        ELSE NoInfo]

(* What the node does meanwhile: whatever it does, it holds cs_main. *)
NodeStep ==
    /\ phase # "collect"
    /\ Work \/ Input \/ TxnCommitFails
    /\ KeepPrevPos
    /\ UNCHANGED <<pindexPrev, pblock, mapNewBlock, callVars>>

MinerRestart ==
    /\ Restart
    /\ prevPos' = [t \in Tx |-> NoInfo]
    /\ pindexPrev' = NoBlock /\ pblock' = NoWork /\ mapNewBlock' = {}
    /\ phase' = "idle" /\ work' = EmptyWork /\ mapPriority' = {}
    /\ mapDependers' = <<>> /\ mapTestPool' = <<>>

-----------------------------------------------------------------------------
(* getwork, getauxblock, getmemorypool, BitcoinMiner: the block has to be  *)
(* made anew, for another tip or because the pool has changed.             *)
CallGetWork ==
    /\ phase = "idle"
    /\ pindexPrev = pindexBest => Cardinality(mapNewBlock) < MaxWork
    /\ phase' = "decided"
    /\ UNCHANGED <<vars, prevPos, pindexPrev, pblock, mapNewBlock, work, mapPriority,
                   mapDependers, mapTestPool>>

(* The old blocks are obsolete when the tip has changed. *)
ClearOldBlocks ==
    /\ phase = "decided"
    /\ mapNewBlock' = IF pindexPrev = pindexBest THEN mapNewBlock ELSE {}
    /\ phase' = "cleared"
    /\ UNCHANGED <<vars, prevPos, pindexPrev, pblock, work, mapPriority, mapDependers,
                   mapTestPool>>

SetPrev ==
    /\ phase = "cleared"
    /\ pindexPrev' = pindexBest
    /\ phase' = "called"
    /\ UNCHANGED <<vars, prevPos, pblock, mapNewBlock, work, mapPriority, mapDependers,
                   mapTestPool>>

(* CreateNewBlock reads pindexBest. *)
CreateNewBlock ==
    /\ phase = "called"
    /\ work' = [EmptyWork EXCEPT !.prev = pindexBest]
    /\ phase' = "entered"
    /\ UNCHANGED <<vars, prevPos, pindexPrev, pblock, mapNewBlock, mapPriority, mapDependers,
                   mapTestPool>>

(* The transactions an input of t has to wait for: CTxIndex::GetHeight of  *)
(* the remembered position is -1.                                          *)
DependsOn(t) == {o[1] : o \in {p \in vin[t] : prevPos[t][p][1] = NoBlock}}

HasPrevInfo == {t \in mapTransactions : prevPos[t] # NoInfo}

(* It has cs_main, and sorts the pool into queue and waiting list. *)
ScanPool ==
    /\ phase = "entered" /\ stage = "idle"
    /\ mapPriority' = {t \in HasPrevInfo : DependsOn(t) = {}}
    /\ mapDependers' = [t \in {u \in HasPrevInfo : DependsOn(u) # {}} |-> DependsOn(t)]
    /\ mapTestPool' = <<>>
    /\ phase' = "collect"
    /\ UNCHANGED <<vars, prevPos, pindexPrev, pblock, mapNewBlock, work>>

(* The transaction index with the proposed changes on top. *)
TestView == [t \in Tx |-> IF t \in DOMAIN mapTestPool THEN mapTestPool[t] ELSE dbTx[t]]

PrevTxs(t) == {o[1] : o \in vin[t]}

(* Mutant: the pending operations on the name are not looked at. *)
ConnectsInTest_NoPending(t) ==
    /\ InputsOK(t, work.prev, TestView, "miner", {})
    /\ HookConnectInputs(t, work.prev, TestView, dbName, "miner", {}, {})
    /\ TxFee(t) >= 0

(* ConnectInputs with fMiner.  The height it uses is that of the tip.      *)
ConnectsInTest(t) ==
    /\ InputsOK(t, work.prev, TestView, "miner", {})
    /\ HookConnectInputs(t, work.prev, TestView, dbName, "miner",
                         IF isNameTx[t] THEN mapNamePending[NameOut(t).name] ELSE {},
                         DOMAIN mapTestPool \cup PrevTxs(t))
    /\ TxFee(t) >= 0

SeenPrevPos(t, inputs) ==
    [prevPos EXCEPT ![t] =
        [o \in vin[t] |-> IF o \in inputs THEN TestView[o[1]].pos ELSE @[o]]]

(* The previous transactions with their outputs spent, and t itself. *)
TestPoolWith(t) ==
    LET tv == TxConnected(t, NoBlock, 1, TestView)
    IN  [u \in DOMAIN mapTestPool \cup PrevTxs(t) \cup {t} |-> tv[u]]

Released(t) == {u \in DOMAIN mapDependers : mapDependers[u] = {t}}

(* Mutant: the transaction is not taken off the queue. *)
AddTx_StaysQueued(t) ==
    /\ phase = "collect" /\ t \in mapPriority
    /\ ConnectsInTest(t)
    /\ work' = [work EXCEPT !.txs = Append(@, t), !.nFees = @ + TxFee(t)]
    /\ mapTestPool' = TestPoolWith(t)
    /\ mapPriority' = mapPriority \cup Released(t)
    /\ mapDependers' = [u \in DOMAIN mapDependers \ Released(t) |-> mapDependers[u] \ {t}]
    /\ prevPos' = SeenPrevPos(t, vin[t])
    /\ UNCHANGED <<vars, pindexPrev, pblock, mapNewBlock, phase>>

(* The next transaction connects and goes into the block, and what waited  *)
(* for it alone goes into the queue.                                       *)
AddTx(t) ==
    /\ phase = "collect" /\ t \in mapPriority
    /\ ConnectsInTest(t)
    /\ work' = [work EXCEPT !.txs = Append(@, t), !.nFees = @ + TxFee(t)]
    /\ mapTestPool' = TestPoolWith(t)
    /\ mapPriority' = (mapPriority \ {t}) \cup Released(t)
    /\ mapDependers' = [u \in DOMAIN mapDependers \ Released(t) |-> mapDependers[u] \ {t}]
    /\ prevPos' = SeenPrevPos(t, vin[t])
    /\ UNCHANGED <<vars, pindexPrev, pblock, mapNewBlock, phase>>

(* It is passed over: for its size or its fee, before or after             *)
(* ConnectInputs, or because that fails.  inputs are those ConnectInputs   *)
(* got to before it returned; the order of the inputs is not represented.  *)
SkipTx(t) ==
    /\ phase = "collect" /\ t \in mapPriority
    /\ mapPriority' = mapPriority \ {t}
    /\ \E inputs \in SUBSET {o \in vin[t] : HasTxIndex(TestView, o[1])} :
          /\ ConnectsInTest(t) => inputs \in {{}, vin[t]}
          /\ prevPos' = SeenPrevPos(t, inputs)
    /\ UNCHANGED <<vars, pindexPrev, pblock, mapNewBlock, phase, work, mapDependers,
                   mapTestPool>>

(* The coinbase and the header; the caller keeps the block. *)
NewBlock == [prev   |-> work.prev, txs |-> work.txs,
             nValue |-> GetBlockValue(nHeight[work.prev] + 1, work.nFees)]

(* Mutant: pindexPrev is set when the block is there. *)
NewBlockDone_SetsPrev ==
    /\ phase = "collect" /\ mapPriority = {}
    /\ pblock' = NewBlock /\ mapNewBlock' = mapNewBlock \cup {NewBlock}
    /\ pindexPrev' = pindexBest
    /\ phase' = "idle" /\ work' = EmptyWork
    /\ mapDependers' = <<>> /\ mapTestPool' = <<>>
    /\ UNCHANGED <<vars, prevPos, mapPriority>>

NewBlockDone ==
    /\ phase = "collect" /\ mapPriority = {}
    /\ pblock' = NewBlock /\ mapNewBlock' = mapNewBlock \cup {NewBlock}
    /\ phase' = "idle" /\ work' = EmptyWork
    /\ mapDependers' = <<>> /\ mapTestPool' = <<>>
    /\ UNCHANGED <<vars, prevPos, pindexPrev, mapPriority>>

(* b is the block w, solved. *)
Solves(b, w) ==
    /\ hashPrevBlock[b] = w.prev /\ Tail(vtx[b]) = w.txs
    /\ GetValueOut(vtx[b][1]) <= w.nValue

(* A solved block is processed like one from another node, unless it does  *)
(* not extend the tip.                                                     *)
CheckWork(b, w) ==
    /\ phase = "idle" /\ w \in mapNewBlock /\ Solves(b, w)
    /\ w.prev = pindexBest
    /\ ProcessBlock(b)
    /\ UNCHANGED minerVars

MinerStep ==
    \/ CallGetWork \/ ClearOldBlocks \/ SetPrev \/ CreateNewBlock \/ ScanPool
    \/ \E t \in mapPriority : AddTx(t) \/ SkipTx(t)
    \/ NewBlockDone
    \/ \E w \in mapNewBlock : \E b \in Block : CheckWork(b, w)

MinerNext == NodeStep \/ MinerStep \/ MinerRestart

MinerSpec == MinerInit /\ [][MinerNext]_minerAll

-----------------------------------------------------------------------------
NewBlocks == [prev : Block, txs : Seq(Tx), nValue : Nat]

(* MinerTypeOK: the shape of the miner's state; what waits has been told    *)
(* what it waits for, and a block under construction holds each pool        *)
(* transaction once.                                                        *)
MinerTypeOK ==
    /\ \A t \in Tx : prevPos[t] # NoInfo =>
          t \in mapTransactions /\ prevPos[t] \in [vin[t] -> (Block \X Nat) \cup {NoPos, TestPos}]
    /\ phase \in {"idle", "decided", "cleared", "called", "entered", "collect"}
    /\ pindexPrev \in Block \cup {NoBlock} /\ pblock \in NewBlocks \cup {NoWork}
    /\ mapPriority \cup DOMAIN mapDependers \cup Range(work.txs) \subseteq
          (IF phase = "collect" THEN mapTransactions ELSE {})
    /\ mapPriority \cap Range(work.txs) = {}
    /\ \A t \in DOMAIN mapDependers : mapDependers[t] # {}
    /\ mapNewBlock \subseteq NewBlocks

(* The view that block b, a child of w.prev, has after i transactions of w. *)
Connecting(w, b) ==
    LET view[i \in 0 .. Len(w.txs)] ==
          IF i = 0 THEN [tv |-> dbTx, nv |-> dbName, nFees |-> 0, ok |-> TRUE]
          ELSE LET v == view[i - 1]  t == w.txs[i]
               IN  [tv |-> TxConnected(t, b, i + 1, v.tv),
                    nv |-> NameConnected(t, b, i + 1, v.tv, v.nv),
                    nFees |-> v.nFees + TxFee(t),
                    ok |-> /\ v.ok
                           /\ InputsOK(t, b, v.tv, "block", {})
                           /\ HookConnectInputs(t, b, v.tv, v.nv, "block", {}, {})
                           /\ TxFee(t) >= 0]
    IN  view[Len(w.txs)]

ConnectsAs(w, b) ==
    LET v == Connecting(w, b)
    IN  v.ok /\ w.nValue <= GetBlockValue(nHeight[b], v.nFees)

(* t updates a name that is alive at the tip and no more in the next block: *)
(* CreateNewBlock validates at the height of the tip.                       *)
ExpiresNow(t, b) ==
    /\ isNameTx[t] /\ NameOut(t).op = "update"
    /\ LET h == nHeight[dbTx[NameInput(t)[1]].pos[1]]
       IN  /\ nHeight[b] - h >= GetExpirationDepth(nHeight[b])
           /\ nHeight[b] - 1 - h < GetExpirationDepth(nHeight[b] - 1)

(* An operation on a name that mapNamePending does not have. *)
NotPending(t) ==
    isNameTx[t] /\ NameOut(t).op # "new" /\ t \notin mapNamePending[NameOut(t).name]

(* TemplateConnects: a block CreateNewBlock makes on the tip it finds when  *)
(* it has cs_main is one ConnectBlock accepts: its transactions find their  *)
(* inputs, no two of them take the same name, and the coinbase claims no    *)
(* more than subsidy and fees, after whatever reorganisations, invalid      *)
(* blocks, failed commits, restarts and deleted transactions.  Two things   *)
(* can make it fail: an update of a name that expires with that very block, *)
(* and an operation that mapNamePending has lost.                           *)
TemplateConnects ==
    phase = "collect" /\ work.prev = pindexBest =>
        \A b \in Block : hashPrevBlock[b] = work.prev =>
            \/ ConnectsAs(NewBlock, b)
            \/ \E t \in Range(work.txs) : ExpiresNow(t, b) \/ NotPending(t)

(* u operates on the name n. *)
Operates(u, n) ==
    isNameTx[u] /\ NameOut(u).op \in {"firstupdate", "update"} /\ NameOut(u).name = n

(* Two of the transactions in S operate on the same name. *)
Rivals(S) ==
    \E t, u \in S : t # u /\ Operates(t, NameOut(u).name) /\ Operates(u, NameOut(u).name)

(* WorkStaysValid: for as long as the tip stays, a block that was handed    *)
(* out stays one ConnectBlock accepts, whatever the pool, refused blocks,   *)
(* aborted reorganisations and failed commits do in the meantime; unless a  *)
(* name expires with it, or two of its transactions take the same name.     *)
WorkStaysValid ==
    stage = "idle" =>
        \A w \in mapNewBlock : \A b \in Block :
            w.prev = pindexBest /\ hashPrevBlock[b] = w.prev =>
                \/ ConnectsAs(w, b) \/ Rivals(Range(w.txs))
                \/ \E t \in Range(w.txs) : ExpiresNow(t, b)

(* TemplateAccepted: getmemorypool returns the "transactions that should be *)
(* included in the next block": with these, and no exception, the next      *)
(* block is accepted.                                                       *)
TemplateAccepted ==
    stage = "idle" =>
        \A w \in mapNewBlock : \A b \in Block :
            w.prev = pindexBest /\ hashPrevBlock[b] = w.prev => ConnectsAs(w, b)

(* WorkIsFresh: when the caller believes that its block is up to date       *)
(* (pindexPrev = pindexBest), the block it hands out extends the tip and is *)
(* among those whose solution it will recognise, although it and            *)
(* CreateNewBlock read pindexBest four times, each without cs_main.  Blocks *)
(* for an older tip may lie in mapNewBlock beside it: the tip may move      *)
(* after the caller has decided to keep them.  CheckWork refuses those.     *)
WorkIsFresh ==
    phase = "idle" /\ pindexPrev = pindexBest =>
        pblock \in mapNewBlock /\ pblock.prev = pindexBest

(* ConfPositive: assert (nConf > 0) in CreateNewBlock: no input of a pool   *)
(* transaction is remembered in a block above the tip.                      *)
ConfPositive ==
    phase = "entered" /\ stage = "idle" =>
        \A t \in HasPrevInfo : \A o \in vin[t] :
            prevPos[t][o][1] # NoBlock => 1 + nHeight[pindexBest] - nHeight[prevPos[t][o][1]] > 0

(* PrevInfoCached: "We should always have cached txprev info on the input,  *)
(* since this should have been added when accepting it to the mempool": no  *)
(* transaction is ignored for want of it.                                   *)
PrevInfoCached ==
    phase = "entered" /\ stage = "idle" => HasPrevInfo = mapTransactions

(* WaitsForPool: prevPos is updated "because it changes when a transaction  *)
(* gets confirmed out of the mempool", and what depends on other memory     *)
(* pool transactions is processed "in order of dependency": nothing waits   *)
(* for a transaction that is not in the pool.                               *)
WaitsForPool ==
    \A t \in DOMAIN mapDependers : mapDependers[t] \subseteq mapTransactions
=============================================================================
