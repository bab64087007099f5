---------------------------- MODULE ServiceProofs ----------------------------
(***************************************************************************)
(* The parts of the program that work beside the node of NodeCore: the     *)
(* orphan transactions, the miner, and the wallet with the name commands.  *)
(* None disturbs the node, so every theorem about Spec holds in their      *)
(* presence; then what is theirs.                                          *)
(***************************************************************************)
EXTENDS NodeProofs, OrphanTx, Miner, NameCommands, NameClock

(* The two maps of the orphan transactions, outside and inside the handler. *)
ByPrevExact ==
    mapOrphanTransactionsByPrev = UNION {ByPrevOf(t) : t \in mapOrphanTransactions}

LEMMA EraseKeepsExact ==
    ASSUME mapOrphanTransactions \subseteq Tx, ByPrevExact, NEW S, EraseOrphanTx(S)
    PROVE  mapOrphanTransactions' \subseteq Tx /\ ByPrevExact'
  <1>1. mapOrphanTransactions' \subseteq Tx
    BY DEF EraseOrphanTx
  <1>2. \A t, u : \A x : x \in ByPrevOf(t) /\ x \in ByPrevOf(u) => t = u
    BY DEF ByPrevOf
  <1>3. ASSUME NEW x
        PROVE  x \in mapOrphanTransactionsByPrev' <=>
                  \E t \in mapOrphanTransactions' : x \in ByPrevOf(t)
    <2>1. x \in mapOrphanTransactionsByPrev <=> \E t \in mapOrphanTransactions : x \in ByPrevOf(t)
      BY DEF ByPrevExact
    <2>2. x \in mapOrphanTransactionsByPrev' <=>
             /\ x \in mapOrphanTransactionsByPrev
             /\ ~ \E t \in S \cap mapOrphanTransactions : x \in ByPrevOf(t)
      BY DEF EraseOrphanTx
    <2>3. mapOrphanTransactions' = mapOrphanTransactions \ S
      BY DEF EraseOrphanTx
    <2> QED  BY <1>2, <2>1, <2>2, <2>3
  <1> QED  BY <1>1, <1>3 DEF ByPrevExact

LEMMA AddKeepsExact ==
    ASSUME mapOrphanTransactions \subseteq Tx, ByPrevExact, NEW t \in Tx, AddOrphanTx(t)
    PROVE  mapOrphanTransactions' \subseteq Tx /\ ByPrevExact'
  BY DEF AddOrphanTx, ByPrevExact

LEMMA OrphanSteps ==
    ASSUME [OrphanNext]_allVars
    PROVE  \/ UNCHANGED orphanVars
           \/ \E t \in Tx : AddOrphanTx(t)
           \/ \E S : EraseOrphanTx(S)
  <1>1. ASSUME NEW t \in Tx, TxAccepted(t) \/ TryOrphan(t) \/ OrphanRefused(t)
        PROVE  UNCHANGED orphanVars
    BY <1>1 DEF TxAccepted, TryOrphan, OrphanRefused
  <1>2. ASSUME NEW t \in Tx, TxOrphan(t) PROVE AddOrphanTx(t)
    BY <1>2 DEF TxOrphan
  <1>3. CASE NextAccepted \/ Working \/ BlockArrives \/ UNCHANGED allVars
    BY <1>3 DEF NextAccepted, Working, BlockArrives, allVars
  <1>4. CASE TxDone
    BY <1>4 DEF TxDone
  <1> QED  BY <1>1, <1>2, <1>3, <1>4 DEF OrphanNext, HandleQueue

(* mapOrphanTransactionsByPrev and mapOrphanTransactions agree in every     *)
(* state, whatever transactions arrive and in whatever order: AddOrphanTx   *)
(* and EraseOrphanTx keep them together.                                    *)
THEOREM PointersAlwaysMatch == OrphanSpec => []PointersMatchOrphans
  <1>1. OrphanInit => PointersMatchOrphans
    BY DEF OrphanInit, PointersMatchOrphans
  <1>2. ASSUME PointersMatchOrphans, [OrphanNext]_allVars PROVE PointersMatchOrphans'
    <2>1. mapOrphanTransactions \subseteq Tx /\ ByPrevExact
      BY <1>2 DEF PointersMatchOrphans, ByPrevExact
    <2>2. CASE UNCHANGED orphanVars
      BY <1>2, <2>2 DEF PointersMatchOrphans, orphanVars
    <2>3. ASSUME NEW t \in Tx, AddOrphanTx(t) PROVE PointersMatchOrphans'
      <3>1. mapOrphanTransactions' \subseteq Tx /\ ByPrevExact'
        BY <2>1, <2>3, AddKeepsExact
      <3> QED  BY <3>1 DEF PointersMatchOrphans, ByPrevExact
    <2>4. ASSUME NEW S, EraseOrphanTx(S) PROVE PointersMatchOrphans'
      <3>1. mapOrphanTransactions' \subseteq Tx /\ ByPrevExact'
        BY <2>1, <2>4, EraseKeepsExact
      <3> QED  BY <3>1 DEF PointersMatchOrphans, ByPrevExact
    <2> QED  BY <1>2, <2>2, <2>3, <2>4, OrphanSteps
  <1> QED  BY <1>1, <1>2, PTL DEF OrphanSpec

(* The node does with orphan transactions kept beside it what NodeCore      *)
(* says: every theorem about Spec is one about OrphanSpec.                  *)
THEOREM OrphansLeaveNodeAlone == OrphanSpec => Spec
  <1>1. OrphanInit => Init
    BY DEF OrphanInit
  <1>2. ASSUME [OrphanNext]_allVars PROVE [Next]_vars
    <2>1. ASSUME NEW t \in Tx, TxAccepted(t) \/ TryOrphan(t) PROVE Next
      BY <2>1 DEF TxAccepted, TryOrphan, Next, Input
    <2>2. ASSUME NEW t \in Tx, TxOrphan(t) \/ OrphanRefused(t) PROVE UNCHANGED vars
      BY <2>2 DEF TxOrphan, OrphanRefused, nodeOnly, vars
    <2>3. CASE NextAccepted \/ TxDone \/ UNCHANGED allVars
      BY <2>3 DEF NextAccepted, TxDone, nodeOnly, vars, allVars
    <2>4. CASE Working \/ BlockArrives
      BY <2>4 DEF Working, BlockArrives, Next, Input
    <2> QED  BY <1>2, <2>1, <2>2, <2>3, <2>4 DEF OrphanNext, HandleQueue
  <1> QED  BY <1>1, <1>2, PTL DEF OrphanSpec, Spec

-----------------------------------------------------------------------------
(* The "tx" handler.  An orphan that spends from a transaction whose        *)
(* orphans have been looked up is not acceptable, or is still to be tried,  *)
(* or spends from one whose orphans will be looked up.                      *)
Spends(u, t) == \E o \in vin[u] : o[1] = t

QueueType ==
    /\ vTxQueue \in Seq(Tx) /\ nQueue \in 0 .. Len(vTxQueue)
    /\ vTxQueue = <<>> => nQueue = 0 /\ children = {}

Followed(u) ==
    \/ ~Acceptable(u)
    \/ u \in children
    \/ \E j \in DOMAIN vTxQueue : j > nQueue /\ Spends(u, vTxQueue[j])

FamilyOK ==
    /\ QueueType
    /\ \A u \in mapOrphanTransactions :
          (\E i \in 1 .. nQueue : Spends(u, vTxQueue[i])) => Followed(u)

(* Accepting a transaction makes no other acceptable but those that spend   *)
(* from it.                                                                 *)
LEMMA AcceptanceSpreads ==
    ASSUME NEW u \in Tx, AcceptToMemoryPool(u), NEW v \in Tx, ~Spends(v, u), Acceptable(v)'
    PROVE  Acceptable(v) /\ v # u
  <1>1. /\ mapTransactions' = mapTransactions \cup {u}
        /\ mapNextTx' = [o \in OutPoint |-> IF o \in vin[u] THEN u ELSE mapNextTx[o]]
        /\ setNewHashes \subseteq setNewHashes'
        /\ UNCHANGED <<dbTx, dbName, pindexBest>>
        /\ \A o \in vin[u] : mapNextTx[o] = NoTx
    BY DEF AcceptToMemoryPool, AddToMemoryPool, PoolAdmits, diskVars, chainVars
  <1>2. \A o \in vin[v] : o \in OutPoint /\ o[1] # u
    BY DEF OutPoint, Spends
  <1>3. v # u /\ v \notin mapTransactions
    BY <1>1 DEF Acceptable, PoolAdmits
  <1>4. \A o \in vin[v] : mapNextTx[o] = NoTx
    BY <1>1, <1>2 DEF Acceptable, PoolAdmits
  <1>5. PoolAdmits(v)
    BY <1>1, <1>3, <1>4 DEF Acceptable, PoolAdmits
  <1>6. InputsOK(v, pindexBest, dbTx, "pool", mapTransactions)
    BY <1>1, <1>2 DEF Acceptable, CheckInputs, InputsOK, InputOK
  <1>7. CheckInputs(v)
    BY <1>1, <1>6 DEF Acceptable, CheckInputs
  <1> QED  BY <1>3, <1>5, <1>7 DEF Acceptable

(* An orphan that spends from t is found under t. *)
LEMMA FoundUnder ==
    ASSUME PointersMatchOrphans, NEW u \in mapOrphanTransactions, NEW t, Spends(u, t)
    PROVE  u \in OrphansOf(t)
  BY DEF PointersMatchOrphans, OrphansOf, ByPrevOf, Spends

LEMMA FamilyNext ==
    ASSUME PointersMatchOrphans, FamilyOK, [OrphanNext]_allVars
    PROVE  FamilyOK'
  <1> USE DEF orphanVars, queueVars
  <1>1. mapOrphanTransactions \subseteq Tx /\ vTxQueue \in Seq(Tx) /\ nQueue \in 0 .. Len(vTxQueue)
    BY DEF PointersMatchOrphans, FamilyOK, QueueType
  <1>2. ASSUME vTxQueue' = <<>>, nQueue' = 0, children' = {} PROVE FamilyOK'
    BY <1>2 DEF FamilyOK, QueueType
  <1>3. ASSUME NEW t \in Tx, TxAccepted(t) PROVE FamilyOK'
    <2>1. vTxQueue' = <<t>> /\ nQueue' = 1 /\ children' = OrphansOf(t)
          /\ mapOrphanTransactions' = mapOrphanTransactions
      BY <1>3 DEF TxAccepted
    <2>2. QueueType'
      BY <2>1 DEF QueueType
    <2>3. ASSUME NEW u \in mapOrphanTransactions', NEW i \in (1 .. nQueue)', Spends(u, vTxQueue'[i])
          PROVE  u \in children'
      BY <2>1, <2>3, FoundUnder
    <2> QED  BY <2>2, <2>3 DEF FamilyOK, Followed
  <1>4. ASSUME NEW t \in Tx, TxOrphan(t) PROVE FamilyOK'
    BY <1>2, <1>4 DEF TxOrphan, FamilyOK, QueueType
  <1>5. ASSUME NEW w \in Tx, TryOrphan(w) PROVE FamilyOK'
    <2>1. /\ vTxQueue' = Append(vTxQueue, w) /\ nQueue' = nQueue /\ children' = children \ {w}
          /\ mapOrphanTransactions' = mapOrphanTransactions /\ AcceptToMemoryPool(w)
      BY <1>5 DEF TryOrphan
    <2>2. QueueType'
      BY <1>1, <2>1 DEF QueueType
    <2>3. ASSUME NEW u \in mapOrphanTransactions, NEW i \in 1 .. nQueue, Spends(u, vTxQueue'[i])
          PROVE  Followed(u)'
      <3>1. vTxQueue'[i] = vTxQueue[i]
        BY <1>1, <2>1
      <3>2. Followed(u)
        BY <2>3, <3>1 DEF FamilyOK
      <3>3. CASE Spends(u, w)
        <4>1. Len(vTxQueue) + 1 \in DOMAIN vTxQueue' /\ vTxQueue'[Len(vTxQueue) + 1] = w
          BY <1>1, <2>1
        <4>2. Len(vTxQueue) + 1 > nQueue'
          BY <1>1, <2>1
        <4> QED  BY <3>3, <4>1, <4>2 DEF Followed
      <3>4. CASE u = w
        <4>1. ~Acceptable(w)'
          BY <2>1 DEF AcceptToMemoryPool, AddToMemoryPool, Acceptable, PoolAdmits
        <4> QED  BY <3>4, <4>1 DEF Followed
      <3>5. CASE ~Spends(u, w) /\ u # w
        <4>1. CASE ~Acceptable(u)
          BY <1>1, <2>1, <2>3, <3>5, <4>1, AcceptanceSpreads DEF Followed
        <4>2. CASE u \in children
          BY <2>1, <3>5, <4>2 DEF Followed
        <4>3. ASSUME NEW j \in DOMAIN vTxQueue, j > nQueue, Spends(u, vTxQueue[j]) PROVE Followed(u)'
          <5>1. j \in DOMAIN vTxQueue' /\ vTxQueue'[j] = vTxQueue[j]
            BY <1>1, <2>1
          <5> QED  BY <2>1, <4>3, <5>1 DEF Followed
        <4> QED  BY <3>2, <4>1, <4>2, <4>3 DEF Followed
      <3> QED  BY <3>3, <3>4, <3>5
    <2> QED  BY <2>1, <2>2, <2>3 DEF FamilyOK
  <1>6. ASSUME NEW w \in Tx, OrphanRefused(w) PROVE FamilyOK'
    <2>1. /\ UNCHANGED <<vTxQueue, nQueue, mapOrphanTransactions>> /\ children' = children \ {w}
          /\ ~Acceptable(w)
      BY <1>6 DEF OrphanRefused
    <2>2. \A u : Acceptable(u)' <=> Acceptable(u)
      BY <1>6 DEF OrphanRefused, nodeOnly, poolVars, diskVars, chainVars, Acceptable, PoolAdmits,
                  CheckInputs
    <2>3. QueueType'
      BY <2>1 DEF FamilyOK, QueueType
    <2> QED  BY <2>1, <2>2, <2>3 DEF FamilyOK, Followed
  <1>7. CASE NextAccepted
    <2>1. /\ UNCHANGED <<vTxQueue, mapOrphanTransactions>> /\ nQueue' = nQueue + 1
          /\ children = {} /\ children' = OrphansOf(vTxQueue[nQueue + 1]) /\ nQueue < Len(vTxQueue)
      BY <1>7 DEF NextAccepted
    <2>2. \A u : Acceptable(u)' <=> Acceptable(u)
      BY <1>7 DEF NextAccepted, nodeOnly, poolVars, diskVars, chainVars, Acceptable, PoolAdmits,
                  CheckInputs
    <2>3. QueueType'
      BY <1>1, <2>1 DEF QueueType
    <2>4. ASSUME NEW u \in mapOrphanTransactions, NEW i \in 1 .. nQueue', Spends(u, vTxQueue[i])
          PROVE  Followed(u)'
      <3>1. CASE Spends(u, vTxQueue[nQueue + 1])
        BY <2>1, <2>4, <3>1, FoundUnder DEF Followed
      <3>2. CASE ~Spends(u, vTxQueue[nQueue + 1])
        <4>1. i \in 1 .. nQueue
          BY <1>1, <2>1, <2>4, <3>2
        <4>2. Followed(u) /\ u \notin children
          BY <2>1, <2>4, <4>1 DEF FamilyOK
        <4>3. ASSUME NEW j \in DOMAIN vTxQueue, j > nQueue, Spends(u, vTxQueue[j]) PROVE j > nQueue'
          BY <1>1, <2>1, <3>2, <4>3
        <4> QED  BY <2>1, <2>2, <4>2, <4>3 DEF Followed
      <3> QED  BY <3>1, <3>2
    <2> QED  BY <2>1, <2>3, <2>4 DEF FamilyOK
  <1>8. CASE TxDone
    BY <1>2, <1>8 DEF TxDone
  <1>9. CASE Working \/ BlockArrives
    <2>1. vTxQueue = <<>> /\ UNCHANGED queueVars
      BY <1>9 DEF Working, BlockArrives
    <2> QED  BY <1>2, <2>1 DEF FamilyOK, QueueType
  <1>10. CASE UNCHANGED allVars
    <2>1. UNCHANGED <<vTxQueue, nQueue, children, mapOrphanTransactions>>
      BY <1>10 DEF allVars
    <2>2. \A u : Acceptable(u)' <=> Acceptable(u)
      BY <1>10 DEF allVars, vars, poolVars, diskVars, chainVars, Acceptable, PoolAdmits, CheckInputs
    <2> QED  BY <2>1, <2>2 DEF FamilyOK, QueueType, Followed
  <1> QED  BY <1>3, <1>4, <1>5, <1>6, <1>7, <1>8, <1>9, <1>10 DEF OrphanNext, HandleQueue

(* When the "tx" handler returns, no orphan is left that spends from one of *)
(* the transactions it accepted and could be accepted now: for every family *)
(* of orphans and every order in which its members arrive and are tried.    *)
THEOREM FamiliesFollow == OrphanSpec => OrphansFollow
  <1>1. OrphanInit => FamilyOK
    BY DEF OrphanInit, FamilyOK, QueueType
  <1>2. PointersMatchOrphans /\ FamilyOK /\ [OrphanNext]_allVars => FamilyOK'
    BY FamilyNext
  <1> DEFINE Follows ==
        TxDone => \A u \in mapOrphanTransactions' :
                     (\E o \in vin[u] : o[1] \in Range(vTxQueue)) => ~Acceptable(u)
  <1>3. ASSUME FamilyOK PROVE Follows
    <2> SUFFICES ASSUME TxDone, NEW u \in mapOrphanTransactions',
                        NEW o \in vin[u], o[1] \in Range(vTxQueue)
                 PROVE  ~Acceptable(u)
      OBVIOUS
    <2>1. /\ children = {} /\ nQueue = Len(vTxQueue) /\ u \in mapOrphanTransactions
          /\ vTxQueue \in Seq(Tx)
      BY <1>3 DEF TxDone, EraseOrphanTx, FamilyOK, QueueType
    <2>2. PICK i \in 1 .. nQueue : vTxQueue[i] = o[1]
      BY <2>1 DEF Range
    <2>3. Followed(u)
      BY <1>3, <2>1, <2>2 DEF FamilyOK, Spends
    <2> QED  BY <2>1, <2>3 DEF Followed
  <1>4. FamilyOK => [Follows]_allVars
    BY <1>3
  <1> HIDE DEF Follows
  <1>5. OrphanSpec => [][Follows]_allVars
    BY <1>1, <1>2, <1>4, PointersAlwaysMatch, PTL DEF OrphanSpec
  <1> QED  BY <1>5 DEF OrphansFollow, Follows
-----------------------------------------------------------------------------
(* The miner. *)

LEMMA MinerSteps ==
    ASSUME [MinerNext]_minerAll
    PROVE  [Next]_vars
  <1>1. CASE NodeStep
    BY <1>1 DEF NodeStep, Next, Fault
  <1>2. CASE MinerRestart
    BY <1>2 DEF MinerRestart, Next, Fault
  <1>3. CASE CallGetWork \/ ClearOldBlocks \/ SetPrev \/ CreateNewBlock \/ ScanPool \/ NewBlockDone
    BY <1>3 DEF CallGetWork, ClearOldBlocks, SetPrev, CreateNewBlock, ScanPool, NewBlockDone
  <1>4. ASSUME NEW t \in mapPriority, AddTx(t) \/ SkipTx(t) PROVE UNCHANGED vars
    BY <1>4 DEF AddTx, SkipTx
  <1>5. ASSUME NEW b \in Block, NEW w \in mapNewBlock, CheckWork(b, w) PROVE Next
    BY <1>5 DEF CheckWork, Next, Input
  <1> QED  BY <1>1, <1>2, <1>3, <1>4, <1>5 DEF MinerNext, MinerStep, minerAll

(* The node does with a miner beside it what NodeCore says: every theorem   *)
(* about Spec is one about MinerSpec.                                       *)
THEOREM MinerLeavesNodeAlone == MinerSpec => Spec
  <1>1. MinerInit => Init
    BY DEF MinerInit
  <1>2. [MinerNext]_minerAll => [Next]_vars
    BY MinerSteps
  <1> QED  BY <1>1, <1>2, PTL DEF MinerSpec, Spec

(* The block SetBestChain works for has more work than the tip. *)
JobHasMoreWork == pindexNew # NoBlock => HasMoreWork(pindexNew)

LEMMA TipStep ==
    ASSUME NodeInv, JobHasMoreWork, Work \/ Input \/ TxnCommitFails \/ UNCHANGED vars
    PROVE  /\ JobHasMoreWork'
           /\ pindexBest' = pindexBest \/ bnChainWork[pindexBest'] > bnChainWork[pindexBest]
  <1> USE DEF diskVars, txnVars, chainVars, viewVars, jobVars, poolVars
  <1>1. stage \in {"idle", "orphans"} <=> pindexNew = NoBlock
    BY DEF NodeInv, TypeOK, JobType
  <1> DEFINE Kept == UNCHANGED <<pindexBest, pindexNew>>
  <1>2. ASSUME NEW b \in Block, AcceptBlock(b), stage \in {"idle", "orphans"}
        PROVE  Kept \/ (pindexBest' = pindexBest /\ pindexNew' = b /\ HasMoreWork(b))
    BY <1>2 DEF AcceptBlock, IndexBlock
  <1>3. ASSUME NEW b \in Block, RejectBlock(b) PROVE Kept
    BY <1>3 DEF RejectBlock
  <1>4. ASSUME NEW b \in Block, ProcessBlock(b) \/ ProcessOrphan(b)
        PROVE  Kept \/ (pindexBest' = pindexBest /\ pindexNew' = b /\ HasMoreWork(b))
    BY <1>2, <1>3, <1>4 DEF ProcessBlock, ProcessOrphan
  <1>5. ASSUME NEW b \in Block, ProcessBlockOrphan(b) \/ ProcessBlockRefused(b) PROVE Kept
    BY <1>5 DEF ProcessBlockOrphan, ProcessBlockRefused, vars
  <1>6. ASSUME NEW t \in Tx, AcceptToMemoryPool(t) \/ deletetransaction(t) PROVE Kept
    BY <1>6 DEF AcceptToMemoryPool, deletetransaction
  <1>7. CASE NextInQueue \/ ProcessBlockDone \/ ResurrectTx \/ ResurrectDone \/ DeleteTx
             \/ UNCHANGED vars
    BY <1>7 DEF NextInQueue, ProcessBlockDone, ResurrectTx, ResurrectDone, DeleteTx, vars,
                JobHasMoreWork, HasMoreWork
  <1>8. CASE DisconnectInputs \/ DisconnectBlock \/ ConnectNext \/ ConnectInputs \/ ConnectBlock
             \/ TxnCommit
    BY <1>8 DEF DisconnectInputs, DisconnectBlock, ConnectNext, ConnectInputs, ConnectBlock,
                TxnCommit, JobHasMoreWork, HasMoreWork
  <1>9. CASE DisconnectFails \/ ConnectInputsFails \/ ConnectBlockFails \/ TxnCommitFails
    BY <1>9 DEF DisconnectFails, ConnectInputsFails, ConnectBlockFails, TxnCommitFails, Abort,
                JobHasMoreWork
  <1>10. CASE NewBestBlock
    BY <1>1, <1>10 DEF NewBestBlock, JobHasMoreWork, HasMoreWork
  <1>11. ASSUME Kept PROVE JobHasMoreWork' /\ pindexBest' = pindexBest
    BY <1>11 DEF JobHasMoreWork, HasMoreWork
  <1>12. ASSUME NEW b \in Block, pindexBest' = pindexBest, pindexNew' = b, HasMoreWork(b)
         PROVE  JobHasMoreWork'
    BY <1>12 DEF JobHasMoreWork, HasMoreWork
  <1> QED  BY <1>4, <1>5, <1>6, <1>7, <1>8, <1>9, <1>10, <1>11, <1>12 DEF Work, Input

LEMMA JobInvariant == Spec => []JobHasMoreWork
  <1>1. Init => JobHasMoreWork
    BY DEF Init, JobHasMoreWork
  <1>2. Restart => JobHasMoreWork'
    BY DEF Restart, JobHasMoreWork
  <1>3. NodeInv /\ JobHasMoreWork /\ [Next]_vars => JobHasMoreWork'
    BY <1>2, TipStep DEF Next, Fault
  <1> QED  BY <1>1, <1>3, NodeInvariant, PTL DEF Spec

(* What was read from pindexBest some time ago: the tip, or a block with    *)
(* less work.  What CreateNewBlock has read is not older than what its      *)
(* caller has read, and the tip never comes back.                           *)
Seen(x) == x \in Block /\ (x = pindexBest \/ bnChainWork[x] < bnChainWork[pindexBest])

NotOlder(x) == Seen(x) /\ (x = pindexPrev \/ bnChainWork[x] > bnChainWork[pindexPrev])

ReadsInOrder ==
    /\ pindexPrev # NoBlock => Seen(pindexPrev)
    /\ pindexPrev = NoBlock => phase \in {"idle", "decided", "cleared"}
    /\ \A w \in mapNewBlock : Seen(w.prev)
    /\ phase \in {"entered", "collect"} => NotOlder(work.prev)
    /\ phase = "idle" /\ pindexPrev # NoBlock => pblock \in mapNewBlock /\ NotOlder(pblock.prev)

(* The block under construction is a record throughout. *)
WorkShape == \E x, s, n : work = [prev |-> x, txs |-> s, nFees |-> n]

LEMMA WorkShapeNext ==
    ASSUME WorkShape, [MinerNext]_minerAll
    PROVE  WorkShape'
  <1>1. ASSUME work' = work PROVE WorkShape'
    BY <1>1 DEF WorkShape
  <1>2. ASSUME NEW x, work' = [EmptyWork EXCEPT !.prev = x] PROVE WorkShape'
    <2>1. work' = [prev |-> x, txs |-> <<>>, nFees |-> 0]
      BY <1>2 DEF EmptyWork
    <2> QED  BY <2>1 DEF WorkShape
  <1>3. ASSUME work' = EmptyWork PROVE WorkShape'
    BY <1>3 DEF WorkShape, EmptyWork
  <1>4. ASSUME NEW t, AddTx(t) PROVE WorkShape'
    <2>1. PICK x, s, n : work = [prev |-> x, txs |-> s, nFees |-> n]
      BY DEF WorkShape
    <2>2. work' = [prev |-> x, txs |-> Append(s, t), nFees |-> n + TxFee(t)]
      BY <1>4, <2>1 DEF AddTx
    <2> QED  BY <2>2 DEF WorkShape
  <1>5. CASE NodeStep
    BY <1>1, <1>5 DEF NodeStep, callVars
  <1>6. CASE CallGetWork \/ ClearOldBlocks \/ SetPrev \/ ScanPool \/ UNCHANGED minerAll
    BY <1>1, <1>6 DEF CallGetWork, ClearOldBlocks, SetPrev, ScanPool, minerAll, minerVars, callVars
  <1>7. CASE CreateNewBlock
    BY <1>2, <1>7 DEF CreateNewBlock
  <1>8. CASE NewBlockDone \/ MinerRestart
    BY <1>3, <1>8 DEF NewBlockDone, MinerRestart
  <1>9. ASSUME NEW t, SkipTx(t) PROVE WorkShape'
    BY <1>1, <1>9 DEF SkipTx
  <1>10. ASSUME NEW b \in Block, NEW w \in mapNewBlock, CheckWork(b, w) PROVE WorkShape'
    BY <1>1, <1>10 DEF CheckWork, minerVars, callVars
  <1> QED  BY <1>4, <1>5, <1>6, <1>7, <1>8, <1>9, <1>10 DEF MinerNext, MinerStep

LEMMA SeenStays ==
    ASSUME ReadsInOrder, pindexBest \in Block, pindexBest' \in Block,
           pindexBest' = pindexBest \/ bnChainWork[pindexBest'] > bnChainWork[pindexBest]
    PROVE  \A x : Seen(x) => Seen(x)'
  <1> SUFFICES ASSUME NEW x, Seen(x) PROVE Seen(x)'  OBVIOUS
  <1>1. /\ bnChainWork[x] \in Nat /\ bnChainWork[pindexBest] \in Nat
        /\ bnChainWork[pindexBest'] \in Nat /\ x \in Block
    BY BlockTree DEF Seen
  <1> QED  BY <1>1 DEF Seen

LEMMA ReadsNext ==
    ASSUME NodeInv, NodeInv', JobHasMoreWork, WorkShape, ReadsInOrder, [MinerNext]_minerAll
    PROVE  ReadsInOrder'
  <1>1. pindexBest \in Block /\ pindexBest' \in Block /\ NoBlock \notin Block
    BY BlockTree DEF NodeInv, TypeOK, ChainType
  <1>2. CASE NodeStep
    <2>1. UNCHANGED <<pindexPrev, pblock, mapNewBlock, phase, work>>
      BY <1>2 DEF NodeStep, callVars
    <2>2. pindexBest' = pindexBest \/ bnChainWork[pindexBest'] > bnChainWork[pindexBest]
      BY <1>2, TipStep DEF NodeStep
    <2>3. \A x : Seen(x) => Seen(x)'
      BY <1>1, <2>2, SeenStays
    <2>4. \A x : NotOlder(x) => NotOlder(x)'
      BY <2>1, <2>3 DEF NotOlder
    <2> QED  BY <2>1, <2>3, <2>4 DEF ReadsInOrder
  <1>3. CASE MinerRestart
    BY <1>3 DEF MinerRestart, ReadsInOrder
  <1>4. CASE CallGetWork \/ ClearOldBlocks \/ SetPrev
    <2>1. /\ pindexBest' = pindexBest /\ mapNewBlock' \subseteq mapNewBlock
          /\ \/ pindexPrev' = pindexPrev /\ phase' \in {"decided", "cleared"}
             \/ pindexPrev' = pindexBest /\ phase' = "called"
      BY <1>4 DEF CallGetWork, ClearOldBlocks, SetPrev, vars, chainVars
    <2> QED  BY <1>1, <2>1 DEF ReadsInOrder, Seen
  <1>5. CASE CreateNewBlock
    <2>1. /\ UNCHANGED <<pindexBest, pindexPrev, mapNewBlock>>
          /\ work'.prev = pindexBest /\ phase' = "entered" /\ phase = "called"
      BY <1>5 DEF CreateNewBlock, vars, chainVars, EmptyWork
    <2>2. pindexPrev # NoBlock /\ NotOlder(pindexBest)
      BY <1>1, <2>1 DEF ReadsInOrder, Seen, NotOlder
    <2> QED  BY <2>1, <2>2 DEF ReadsInOrder, Seen, NotOlder
  <1>6. CASE ScanPool
    BY <1>6 DEF ScanPool, vars, chainVars, ReadsInOrder, Seen, NotOlder
  <1>7. ASSUME NEW t \in mapPriority, AddTx(t) \/ SkipTx(t) PROVE ReadsInOrder'
    <2>1. UNCHANGED <<pindexBest, pindexPrev, pblock, mapNewBlock, phase>> /\ phase = "collect"
      BY <1>7 DEF AddTx, SkipTx, vars, chainVars
    <2>2. work' = work \/ work' = [work EXCEPT !.txs = Append(@, t), !.nFees = @ + TxFee(t)]
      BY <1>7 DEF AddTx, SkipTx
    <2>3. work'.prev = work.prev
      BY <2>2 DEF WorkShape
    <2> QED  BY <2>1, <2>3 DEF ReadsInOrder, Seen, NotOlder
  <1>8. CASE NewBlockDone
    <2>1. /\ UNCHANGED <<pindexBest, pindexPrev>> /\ phase = "collect" /\ phase' = "idle"
          /\ pblock' = NewBlock /\ mapNewBlock' = mapNewBlock \cup {NewBlock}
      BY <1>8 DEF NewBlockDone, vars, chainVars
    <2>2. NewBlock.prev = work.prev
      BY DEF NewBlock
    <2>3. pindexPrev # NoBlock /\ NotOlder(NewBlock.prev)
      BY <2>1, <2>2 DEF ReadsInOrder
    <2> HIDE DEF NewBlock
    <2> QED  BY <2>1, <2>3 DEF ReadsInOrder, Seen, NotOlder
  <1>9. ASSUME NEW b \in Block, NEW w \in mapNewBlock, CheckWork(b, w) PROVE ReadsInOrder'
    <2>1. UNCHANGED <<pindexPrev, pblock, mapNewBlock, phase, work>>
      BY <1>9 DEF CheckWork, minerVars, callVars
    <2>2. UNCHANGED pindexBest
      BY <1>9 DEF CheckWork, ProcessBlock, AcceptBlock, RejectBlock
    <2> QED  BY <2>1, <2>2 DEF ReadsInOrder, Seen, NotOlder
  <1>10. CASE UNCHANGED minerAll
    BY <1>10 DEF minerAll, minerVars, callVars, vars, chainVars, ReadsInOrder, Seen, NotOlder
  <1> QED  BY <1>2, <1>3, <1>4, <1>5, <1>6, <1>7, <1>8, <1>9, <1>10 DEF MinerNext, MinerStep

LEMMA ReadsInvariant == MinerSpec => []ReadsInOrder
  <1>1. MinerInit => ReadsInOrder
    BY DEF MinerInit, NotCalled, ReadsInOrder
  <1>2. /\ NodeInv /\ NodeInv' /\ JobHasMoreWork /\ WorkShape /\ ReadsInOrder
        /\ [MinerNext]_minerAll
        => ReadsInOrder'
    BY ReadsNext
  <1>3. MinerInit => WorkShape
    BY DEF MinerInit, NotCalled, WorkShape, EmptyWork
  <1>4. WorkShape /\ [MinerNext]_minerAll => WorkShape'
    BY WorkShapeNext
  <1> QED  BY <1>1, <1>2, <1>3, <1>4, MinerLeavesNodeAlone, NodeInvariant, JobInvariant, PTL
           DEF MinerSpec

(* getwork, getauxblock, getmemorypool and the internal miner never hand    *)
(* out a block for an old tip as up to date, although they and              *)
(* CreateNewBlock read pindexBest four times, each without cs_main, and the *)
(* tip may move between any two reads: for every tree of blocks, and across *)
(* any number of reorganisations.                                           *)
THEOREM HandedOutWorkIsFresh == MinerSpec => []WorkIsFresh
  <1>1. ASSUME NodeInv, ReadsInOrder PROVE WorkIsFresh
    <2> SUFFICES ASSUME phase = "idle", pindexPrev = pindexBest
                 PROVE  pblock \in mapNewBlock /\ pblock.prev = pindexBest
      BY DEF WorkIsFresh
    <2>1. pindexBest \in Block /\ pindexPrev # NoBlock
      BY <1>1, BlockTree DEF NodeInv, TypeOK, ChainType
    <2>2. pblock \in mapNewBlock /\ NotOlder(pblock.prev)
      BY <1>1, <2>1 DEF ReadsInOrder
    <2>3. bnChainWork[pblock.prev] \in Nat /\ bnChainWork[pindexBest] \in Nat
      BY <2>1, <2>2, BlockTree DEF NotOlder, Seen
    <2> QED  BY <2>2, <2>3 DEF NotOlder, Seen
  <1> QED  BY <1>1, MinerLeavesNodeAlone, NodeInvariant, ReadsInvariant, PTL
-----------------------------------------------------------------------------
(* The wallet and the name commands. *)

(* ReacceptWalletTransactions runs at start-up, and nothing else does. *)
LoadsFirst == IsLoading => stage = "idle"

LEMMA CommitIsAccept ==
    ASSUME NEW t \in Tx, stage = "idle", CommitTransaction(t)
    PROVE  [Next]_vars /\ UNCHANGED <<stage, toAccept, hasMissingTx>>
  <1>1. UNCHANGED <<diskVars, txnVars, chainVars, jobVars, faults, toAccept, hasMissingTx>>
    BY DEF CommitTransaction, loadVars
  <1>2. CASE PoolAdmits(t) /\ CheckInputs(t)
    <2>1. AcceptToMemoryPool(t)
      BY <1>1, <1>2 DEF CommitTransaction, AcceptToMemoryPool
    <2> QED  BY <1>1, <2>1 DEF Next, Input, jobVars
  <1>3. CASE ~(PoolAdmits(t) /\ CheckInputs(t))
    <2>1. UNCHANGED poolVars
      BY <1>3 DEF CommitTransaction
    <2> QED  BY <1>1, <2>1 DEF vars, jobVars
  <1> QED  BY <1>2, <1>3

LEMMA ReacceptIsLoading == ASSUME ReacceptWalletTransactions PROVE IsLoading
  BY DEF ReacceptWalletTransactions, ReacceptConfirmed, AcceptWalletTransaction,
         ReacceptUnconfirmed, ReacceptSupport, ReacceptRound, IsLoading

LEMMA ReacceptIsAccept ==
    ASSUME LoadsFirst, ReacceptWalletTransactions
    PROVE  [Next]_vars /\ UNCHANGED stage
  <1>1. stage = "idle"
    BY ReacceptIsLoading DEF LoadsFirst
  <1>2. ASSUME NEW t \in Tx, IF Reacceptable(t) THEN AddToMemoryPool(t) ELSE UNCHANGED poolVars,
               UNCHANGED <<diskVars, txnVars, chainVars, jobVars, faults>>
        PROVE  [Next]_vars /\ UNCHANGED stage
    <2>1. CASE Reacceptable(t)
      <3>1. AcceptToMemoryPool(t)
        BY <1>1, <1>2, <2>1 DEF AcceptToMemoryPool, Reacceptable
      <3> QED  BY <1>2, <3>1 DEF Next, Input, jobVars
    <2>2. CASE ~Reacceptable(t)
      BY <1>2, <2>2 DEF vars, jobVars
    <2> QED  BY <2>1, <2>2
  <1>3. ASSUME NEW t \in Tx, ReacceptConfirmed(t) \/ AcceptWalletTransaction(t) PROVE UNCHANGED vars
    BY <1>3 DEF ReacceptConfirmed, AcceptWalletTransaction
  <1>4. ASSUME NEW t \in Tx, ReacceptUnconfirmed(t) PROVE [Next]_vars /\ UNCHANGED stage
    BY <1>2, <1>4 DEF ReacceptUnconfirmed
  <1>5. ASSUME NEW t \in Tx, NEW p \in Tx, ReacceptSupport(t, p) PROVE [Next]_vars /\ UNCHANGED stage
    BY <1>2, <1>5 DEF ReacceptSupport
  <1>6. CASE ReacceptRound
    BY <1>6 DEF ReacceptRound, vars, jobVars
  <1>7. UNCHANGED vars => UNCHANGED stage
    BY DEF vars, jobVars
  <1> QED  BY <1>3, <1>4, <1>5, <1>6, <1>7 DEF ReacceptWalletTransactions

LEMMA WalletStepIsNext ==
    ASSUME LoadsFirst, WalletStep
    PROVE  [Next]_vars /\ LoadsFirst'
  <1>1. CASE NodeBesideWallet
    <2>1. Next
      BY <1>1 DEF NodeBesideWallet, Next, Work, Input, Fault
    <2>2. ~IsLoading'
      BY <1>1 DEF NodeBesideWallet, walletVars, loadVars, IsLoading
    <2> QED  BY <2>1, <2>2 DEF LoadsFirst
  <1>2. CASE WalletConnectBlock \/ WalletNewBestBlock
    <2>1. Next /\ stage # "idle" /\ UNCHANGED <<toAccept, hasMissingTx>>
      BY <1>2 DEF WalletConnectBlock, WalletNewBestBlock, ConnectBlock, NewBestBlock, Next, Work,
                  loadVars
    <2> QED  BY <2>1 DEF LoadsFirst, IsLoading
  <1>3. ASSUME NEW t \in Tx, ReceiveTx(t) \/ WalletDelete(t) PROVE [Next]_vars /\ LoadsFirst'
    <2>1. Next /\ ~IsLoading /\ UNCHANGED <<toAccept, hasMissingTx>>
      BY <1>3 DEF ReceiveTx, WalletDelete, Next, Input, loadVars
    <2> QED  BY <2>1 DEF LoadsFirst, IsLoading
  <1>4. ASSUME NEW t \in Tx, SendMoney(t) PROVE [Next]_vars /\ LoadsFirst'
    <2>1. stage = "idle" /\ CommitTransaction(t)
      BY <1>4 DEF SendMoney
    <2> QED  BY <2>1, CommitIsAccept DEF LoadsFirst, IsLoading
  <1>5. CASE ReacceptWalletTransactions
    <2>1. [Next]_vars /\ stage' = stage
      BY <1>5, ReacceptIsAccept
    <2>2. stage = "idle"
      BY <1>5, ReacceptIsLoading DEF LoadsFirst
    <2> QED  BY <2>1, <2>2 DEF LoadsFirst
  <1> QED  BY <1>1, <1>2, <1>3, <1>4, <1>5 DEF WalletStep

CallOK ==
    /\ call \in [at : {"none", "pending", "active"}, tx : Commands \cup {NoTx}]
    /\ call.at # "none" => call.tx \in Commands

LEMMA NamesStepIsNext ==
    ASSUME LoadsFirst, CallOK, [NamesNext]_nameVars
    PROVE  [Next]_vars /\ LoadsFirst' /\ CallOK'
  <1> USE DEF CallOK
  <1>1. Commands \subseteq Tx
    BY CommandsAssumption
  <1>2. call' = NoCall => CallOK'
    BY DEF NoCall
  <1>3. call' = call => CallOK'
    OBVIOUS
  <1>4. ASSUME UNCHANGED walletAll PROVE [Next]_vars /\ LoadsFirst'
    BY <1>4 DEF walletAll, walletVars, loadVars, vars, jobVars, LoadsFirst, IsLoading
  <1>5. CASE WalletStep /\ UNCHANGED call
    BY <1>3, <1>5, WalletStepIsNext
  <1>6. CASE WalletRestart /\ call' = NoCall
    <2>1. Next /\ stage' = "idle"
      BY <1>6 DEF WalletRestart, Next, Fault, Restart
    <2> QED  BY <1>2, <1>6, <2>1 DEF LoadsFirst
  <1>7. CASE CheckActive
    <2>1. UNCHANGED walletAll /\ (call' = NoCall \/ call' = [call EXCEPT !.at = "active"])
          /\ call.at = "pending"
      BY <1>7 DEF CheckActive
    <2>2. CallOK'
      BY <1>2, <2>1
    <2> QED  BY <1>4, <2>1, <2>2
  <1>8. ASSUME NEW t \in Commands, CheckPending(t) PROVE [Next]_vars /\ LoadsFirst' /\ CallOK'
    <2>1. UNCHANGED walletAll /\ call' = [at |-> "pending", tx |-> t]
      BY <1>8 DEF CheckPending
    <2> QED  BY <1>4, <2>1
  <1>9. CASE name_firstupdate
    <2>1. stage = "idle" /\ call' = NoCall /\ call.tx \in Tx
          /\ (CommitTransaction(call.tx) \/ UNCHANGED walletAll)
      BY <1>1, <1>9 DEF name_firstupdate
    <2>2. CASE CommitTransaction(call.tx)
      <3>1. PICK t \in Tx : t = call.tx
        BY <2>1
      <3>2. CommitTransaction(t)
        BY <2>2, <3>1
      <3> QED  BY <1>2, <2>1, <3>2, CommitIsAccept DEF LoadsFirst, IsLoading
    <2> QED  BY <1>2, <1>4, <2>1, <2>2
  <1>10. ASSUME NEW t \in Commands, name_update(t) PROVE [Next]_vars /\ LoadsFirst' /\ CallOK'
    <2>1. stage = "idle" /\ CommitTransaction(t) /\ t \in Tx /\ call' = call
      BY <1>1, <1>10 DEF name_update
    <2> QED  BY <1>3, <2>1, CommitIsAccept DEF LoadsFirst, IsLoading
  <1>11. CASE UNCHANGED nameVars
    BY <1>3, <1>4, <1>11 DEF nameVars
  <1> QED  BY <1>5, <1>6, <1>7, <1>8, <1>9, <1>10, <1>11 DEF NamesNext

(* The wallet reaches the memory pool only through AcceptToMemoryPool, as   *)
(* the network does: payments, name commands, deleted transactions, and the *)
(* transactions accepted again at start-up are steps the node knows, so     *)
(* every theorem about Spec is one about NamesSpec.                         *)
THEOREM WalletLeavesNodeAlone == NamesSpec => Spec
  <1>1. NamesInit => Init /\ LoadsFirst /\ CallOK
    BY DEF NamesInit, WalletInit, LoadsFirst, IsLoading, NoCall, CallOK
  <1>2. LoadsFirst /\ CallOK /\ [NamesNext]_nameVars => [Next]_vars /\ LoadsFirst' /\ CallOK'
    BY NamesStepIsNext
  <1> QED  BY <1>1, <1>2, PTL DEF NamesSpec, Spec

-----------------------------------------------------------------------------
(* What the wallet says of the block of a transaction.                     *)

(* A block that is recorded for a transaction holds it. *)
HeldBy == {h \in [Tx -> Block \cup {NoBlock}] :
              \A t \in Tx : h[t] = NoBlock \/ t \in ToSet(vtx[h[t]])}

GenesisTx == ToSet(vtx[Genesis])

Wallets(q, c) ==
    [txs : SUBSET (Tx \ GenesisTx), vfSpent : SUBSET Mine, hashBlock : HeldBy,
     vtxPrev : {q}, best : {c}]

WalletOK(w) == w \in Wallets(w.vtxPrev, w.best) /\ w.best \in Block \cup {NoBlock}

LEMMA WalletFields ==
    ASSUME NEW w, NEW q, NEW c
    PROVE  /\ w \in Wallets(q, c) =>
                /\ w = [txs |-> w.txs, vfSpent |-> w.vfSpent, hashBlock |-> w.hashBlock,
                        vtxPrev |-> w.vtxPrev, best |-> w.best]
                /\ w.txs \subseteq Tx \ GenesisTx /\ w.vfSpent \subseteq Mine
                /\ w.hashBlock \in HeldBy /\ w.vtxPrev = q /\ w.best = c
           /\ (c \in Block \cup {NoBlock} /\ w \in Wallets(q, c)) => WalletOK(w)
  <1>1. ASSUME w \in Wallets(q, c)
        PROVE  /\ w = [txs |-> w.txs, vfSpent |-> w.vfSpent, hashBlock |-> w.hashBlock,
                        vtxPrev |-> w.vtxPrev, best |-> w.best]
               /\ w.txs \subseteq Tx \ GenesisTx /\ w.vfSpent \subseteq Mine
               /\ w.hashBlock \in HeldBy /\ w.vtxPrev = q /\ w.best = c
    BY <1>1 DEF Wallets
  <1> QED  BY <1>1 DEF WalletOK

(* What has grown out of z: no transaction and no mark is lost. *)
Grown(z, q, c) ==
    {w \in Wallets(q, c) : z.txs \subseteq w.txs /\ z.vfSpent \subseteq w.vfSpent}

LEMMA UpdateSpentKeeps ==
    ASSUME NEW z, NEW q, NEW c, NEW w \in Grown(z, q, c), NEW t
    PROVE  WalletUpdateSpent(w, t) \in Grown(z, q, c)
  <1> DEFINE v == WalletUpdateSpent(w, t)
  <1>1. w \in Wallets(q, c) /\ z.txs \subseteq w.txs /\ z.vfSpent \subseteq w.vfSpent
    BY DEF Grown
  <1>2. MyInputs(w, t) \subseteq Mine
    BY DEF MyInputs, MyCoins
  <1>3. v \in Wallets(q, c) /\ v.txs = w.txs /\ v.vfSpent = w.vfSpent \cup MyInputs(w, t)
    BY <1>1, <1>2 DEF WalletUpdateSpent, Wallets
  <1> HIDE DEF v
  <1>4. v \in Grown(z, q, c)
    BY <1>1, <1>3 DEF Grown
  <1> QED  BY <1>4 DEF v

LEMMA AddToWalletKeeps ==
    ASSUME NEW z, NEW q, NEW c, NEW w \in Grown(z, q, c), NEW t \in Tx \ GenesisTx, NEW b,
           b = NoBlock \/ (b \in Block /\ t \in ToSet(vtx[b]))
    PROVE  AddToWallet(w, t, b) \in Grown(z, q, c)
  <1> DEFINE h == [w.hashBlock EXCEPT ![t] = IF b = NoBlock THEN @ ELSE b]
             v == [w EXCEPT !.txs = @ \cup {t}, !.hashBlock[t] = IF b = NoBlock THEN @ ELSE b]
  <1>1. /\ w = [txs |-> w.txs, vfSpent |-> w.vfSpent, hashBlock |-> w.hashBlock,
                vtxPrev |-> w.vtxPrev, best |-> w.best]
        /\ w.txs \subseteq Tx \ GenesisTx /\ w.vfSpent \subseteq Mine
        /\ w.hashBlock \in HeldBy /\ w.vtxPrev = q /\ w.best = c
    BY WalletFields DEF Grown
  <1>2. h \in HeldBy
    <2>1. h \in [Tx -> Block \cup {NoBlock}]
      BY <1>1 DEF HeldBy
    <2>2. ASSUME NEW u \in Tx PROVE h[u] = NoBlock \/ u \in ToSet(vtx[h[u]])
      <3>1. w.hashBlock \in [Tx -> Block \cup {NoBlock}]
            /\ (w.hashBlock[u] = NoBlock \/ u \in ToSet(vtx[w.hashBlock[u]]))
        BY <1>1 DEF HeldBy
      <3>2. h[u] = IF u = t /\ b # NoBlock THEN b ELSE w.hashBlock[u]
        BY <3>1
      <3> QED  BY <3>1, <3>2
    <2> QED  BY <2>1, <2>2 DEF HeldBy
  <1>3. v \in Wallets(q, c) /\ v.txs = w.txs \cup {t} /\ v.vfSpent = w.vfSpent
    <2>1. w.txs \cup {t} \in SUBSET (Tx \ GenesisTx) /\ w \in Wallets(q, c)
      BY <1>1 DEF Grown
    <2> QED  BY <1>2, <2>1 DEF Wallets
  <1>4. v \in Grown(z, q, c)
    <2> HIDE DEF v
    <2> QED  BY <1>3 DEF Grown
  <1> QED  BY <1>4, UpdateSpentKeeps DEF AddToWallet

(* The genesis block's coinbase never gets into the wallet. *)
LEMMA InvolvingMeKeeps ==
    ASSUME NEW z, NEW q, NEW c, NEW w \in Grown(z, q, c), NEW t \in Tx, NEW b,
           b = NoBlock \/ (b \in Block /\ t \in ToSet(vtx[b])), NEW fUpdate
    PROVE  AddToWalletIfInvolvingMe(w, t, b, fUpdate) \in Grown(z, q, c)
  <1>1. CASE t \in GenesisTx
    <2>1. t \notin w.txs
      BY <1>1, WalletFields DEF Grown
    <2>2. vin[t] = {} /\ \A o \in Mine : o[1] # t
      BY <1>1, WalletAssumption DEF GenesisTx, IsCoinBase
    <2>3. ~IsMine(t)
      <3>1. \A i : <<t, i>> \notin Mine
        BY <2>2
      <3> QED  BY <3>1 DEF IsMine, MyCoins
    <2>4. ~IsFromMe(w, t)
      BY <2>2 DEF IsFromMe
    <2> QED  BY <2>1, <2>3, <2>4, UpdateSpentKeeps DEF AddToWalletIfInvolvingMe
  <1>2. CASE t \notin GenesisTx
    BY <1>2, AddToWalletKeeps, UpdateSpentKeeps DEF AddToWalletIfInvolvingMe
  <1> QED  BY <1>1, <1>2

(* The wallet after each transaction of the block. *)
SyncRun(w, b, fUpdate, st) ==
    /\ st[0] = w
    /\ \A k \in 1 .. Len(vtx[b]) :
          st[k] = AddToWalletIfInvolvingMe(st[k - 1], vtx[b][k], b, fUpdate)
    /\ SyncBlock(w, b, fUpdate) = st[Len(vtx[b])]

LEMMA SyncRuns ==
    ASSUME NEW z, NEW q, NEW c, NEW w \in Grown(z, q, c), NEW b \in Block, NEW fUpdate
    PROVE  \E st \in [0 .. Len(vtx[b]) -> Grown(z, q, c)] : SyncRun(w, b, fUpdate, st)
  <1> DEFINE s    == vtx[b]
             N    == Len(s)
             V    == Grown(z, q, c)
             Op(v, t) == AddToWalletIfInvolvingMe(v, t, b, fUpdate)
             step == [x \in V \X (1 .. N) |-> Op(x[1], s[x[2]])]
             Def(g) == g = [r \in SUBSET (DOMAIN s) |->
                              IF r = {} THEN w ELSE Op(g[r \ {Max(r)}], s[Max(r)])]
             it == CHOOSE g : Def(g)
             S  == {k \in Nat : k <= N => it[1 .. k] \in V}
  <1>1. s \in Seq(Tx) /\ N \in Nat /\ DOMAIN s = 1 .. N
    <2>1. s \in Seq(Tx)
      BY TxAssumption
    <2> QED  BY <2>1
  <1>2. ASSUME NEW v \in V, NEW k \in 1 .. N PROVE Op(v, s[k]) \in V
    <2>1. s[k] \in Tx /\ s[k] \in ToSet(vtx[b])
      BY <1>1 DEF ToSet
    <2> HIDE DEF s
    <2> QED  BY <2>1, InvolvingMeKeeps
  <1> HIDE DEF Op, V
  <1>3. step \in [V \X (1 .. N) -> V]
    BY <1>2
  <1>4. PICK g \in [SUBSET (1 .. N) -> V] : FoldsUp(N, w, step, g)
    <2>1. w \in V
      BY DEF V
    <2> HIDE DEF step, N
    <2> QED  BY <1>1, <1>3, <2>1, FoldExists
  <1>5. Def(g)
    <2>1. ASSUME NEW r \in SUBSET (1 .. N)
          PROVE  g[r] = IF r = {} THEN w ELSE Op(g[r \ {Max(r)}], s[Max(r)])
      <3>1. g[r] = IF r = {} THEN w ELSE step[<<g[r \ {Max(r)}], Max(r)>>]
        BY <1>4 DEF FoldsUp
      <3>2. r # {} => Max(r) \in 1 .. N
        BY <1>1, MaxIn
      <3>3. g[r \ {Max(r)}] \in V
        BY <1>4
      <3> HIDE DEF N, s
      <3> QED  BY <3>1, <3>2, <3>3
    <2> QED  BY <1>1, <1>4, <2>1
  <1>6. Def(it)
    <2> HIDE DEF Def
    <2> QED  BY <1>5
  <1>7. SyncBlock(w, b, fUpdate) = it[DOMAIN s]
    BY DEF SyncBlock, FoldLeft, MapThenFoldSet, Op
  <1> HIDE DEF it
  <1>8. it[1 .. 0] = w
    <2>1. 1 .. 0 = {} /\ {} \in SUBSET (DOMAIN s)
      OBVIOUS
    <2>2. it[{}] = w
      BY <1>6, <2>1
    <2> QED  BY <2>1, <2>2
  <1>9. ASSUME NEW m \in 1 .. N PROVE it[1 .. m] = Op(it[1 .. (m - 1)], s[m])
    <2>1. /\ 1 .. m \in SUBSET (1 .. N) /\ 1 .. m # {}
          /\ Max(1 .. m) = m /\ (1 .. m) \ {Max(1 .. m)} = 1 .. (m - 1)
      BY <1>1, <1>9, LastIndex
    <2>2. it[1 .. m] = Op(it[(1 .. m) \ {Max(1 .. m)}], s[Max(1 .. m)])
      BY <1>1, <1>6, <2>1
    <2> QED  BY <2>1, <2>2
  <1>10. Nat \subseteq S
    <2>1. 0 \in S
      BY <1>8 DEF V
    <2>2. ASSUME NEW k \in Nat, k \in S PROVE k + 1 \in S
      <3> SUFFICES ASSUME k + 1 <= N PROVE it[1 .. (k + 1)] \in V
        OBVIOUS
      <3> DEFINE m == k + 1
      <3>1. m \in 1 .. N /\ m - 1 = k /\ k <= N
        BY <1>1
      <3>2. it[1 .. k] \in V
        BY <2>2, <3>1
      <3> HIDE DEF m
      <3>3. it[1 .. m] \in V
        BY <1>2, <1>9, <3>1, <3>2
      <3> QED  BY <3>3 DEF m
    <2> HIDE DEF S
    <2> QED  BY <2>1, <2>2, SetInduction
  <1> DEFINE st == [k \in 0 .. N |-> it[1 .. k]]
  <1>11. st \in [0 .. N -> V]
    BY <1>1, <1>10
  <1>12. SyncRun(w, b, fUpdate, st)
    <2>1. st[0] = w /\ st[N] = it[1 .. N]
      BY <1>1, <1>8
    <2>2. ASSUME NEW k \in 1 .. N PROVE st[k] = Op(st[k - 1], s[k])
      <3>1. k \in 0 .. N /\ k - 1 \in 0 .. N
        BY <1>1
      <3> QED  BY <1>9, <3>1
    <2> HIDE DEF st
    <2> QED  BY <1>1, <1>7, <2>1, <2>2 DEF SyncRun, Op
  <1> QED  BY <1>11, <1>12 DEF V

LEMMA SyncBlockKeeps ==
    ASSUME NEW z, NEW q, NEW c, NEW w \in Grown(z, q, c), NEW b \in Block, NEW fUpdate
    PROVE  SyncBlock(w, b, fUpdate) \in Grown(z, q, c)
  <1>1. PICK st \in [0 .. Len(vtx[b]) -> Grown(z, q, c)] : SyncRun(w, b, fUpdate, st)
    BY SyncRuns
  <1>2. Len(vtx[b]) \in 0 .. Len(vtx[b])
    BY TxAssumption
  <1> QED  BY <1>1, <1>2 DEF SyncRun

(* After the block the wallet has the transactions of the block that pay to *)
(* it, and has marked the coins that the block spends, if it had what they  *)
(* come from or finds it earlier in the block.                              *)
LEMMA SyncBlockMarks ==
    ASSUME NEW q, NEW c, NEW w \in Wallets(q, c), NEW b \in Block,
           \A i \in 1 .. Len(vtx[b]) : \A o \in vin[vtx[b][i]] \cap MyCoins :
               \/ o[1] \in w.txs
               \/ \E j \in 1 .. (i - 1) : o[1] = vtx[b][j] /\ IsMine(o[1])
    PROVE  LET v == SyncBlock(w, b, TRUE)
           IN  \A t \in ToSet(vtx[b]) :
                  /\ IsMine(t) => t \in v.txs
                  /\ vin[t] \cap MyCoins \subseteq v.vfSpent
  <1> DEFINE s == vtx[b]
             N == Len(s)
  <1>1. s \in Seq(Tx) /\ N \in Nat /\ DOMAIN s = 1 .. N
    <2>1. s \in Seq(Tx)
      BY TxAssumption
    <2> QED  BY <2>1
  <1>2. w \in Grown(w, q, c)
    BY DEF Grown
  <1>3. PICK st \in [0 .. N -> Grown(w, q, c)] : SyncRun(w, b, TRUE, st)
    BY <1>2, SyncRuns
  <1> DEFINE Done(v, t) == (IsMine(t) => t \in v.txs) /\ vin[t] \cap MyCoins \subseteq v.vfSpent
             S == {k \in Nat : k <= N => \A i \in 1 .. k : Done(st[k], s[i])}
  <1>4. ASSUME NEW v \in Grown(w, q, c), NEW t \in Tx, t \in ToSet(vtx[b])
        PROVE  LET x == AddToWalletIfInvolvingMe(v, t, b, TRUE)
               IN  /\ v.txs \subseteq x.txs /\ v.vfSpent \subseteq x.vfSpent
                   /\ IsMine(t) => t \in x.txs
                   /\ MyInputs(v, t) \subseteq x.vfSpent
    <2> DEFINE x == AddToWalletIfInvolvingMe(v, t, b, TRUE)
               a == [v EXCEPT !.txs = @ \cup {t}, !.hashBlock[t] = IF b = NoBlock THEN @ ELSE b]
    <2>1. v \in Wallets(q, c) /\ v \in Grown(v, q, c)
      BY DEF Grown
    <2>2. x \in Grown(v, q, c)
      BY <1>4, <2>1, InvolvingMeKeeps
    <2>3. MyInputs(v, t) \subseteq WalletUpdateSpent(v, t).vfSpent
      BY <2>1 DEF WalletUpdateSpent, Wallets
    <2>4. a.txs = v.txs \cup {t} /\ a.vfSpent = v.vfSpent
      BY <2>1 DEF Wallets
    <2>5. MyInputs(v, t) \subseteq AddToWallet(v, t, b).vfSpent /\ t \in AddToWallet(v, t, b).txs
      <3> DEFINE h == [v.hashBlock EXCEPT ![t] = IF b = NoBlock THEN @ ELSE b]
      <3>1. a \in [txs : {v.txs \cup {t}}, vfSpent : {v.vfSpent}, hashBlock : {h},
                   vtxPrev : {q}, best : {c}]
        BY <2>1 DEF Wallets
      <3>2. /\ WalletUpdateSpent(a, t).txs = a.txs
            /\ WalletUpdateSpent(a, t).vfSpent = a.vfSpent \cup MyInputs(a, t)
        <4> HIDE DEF a, h
        <4> QED  BY <3>1 DEF WalletUpdateSpent
      <3>3. MyInputs(v, t) \subseteq MyInputs(a, t)
        BY <2>4 DEF MyInputs
      <3> HIDE DEF a
      <3>4. AddToWallet(v, t, b) = WalletUpdateSpent(a, t)
        BY DEF AddToWallet, a
      <3> QED  BY <2>4, <3>2, <3>3, <3>4
    <2>6. x = AddToWallet(v, t, b) \/ (x = WalletUpdateSpent(v, t) /\ ~IsMine(t))
      BY DEF AddToWalletIfInvolvingMe
    <2> QED  BY <2>2, <2>3, <2>5, <2>6 DEF Grown
  <1>5. 0 \in S
    BY <1>1
  <1>6. ASSUME NEW k \in Nat, k \in S PROVE k + 1 \in S
    <2> SUFFICES ASSUME k + 1 <= N PROVE \A i \in 1 .. (k + 1) : Done(st[k + 1], s[i])
      OBVIOUS
    <2> DEFINE m == k + 1
               v == st[k]
               x == st[m]
               t == s[m]
    <2>1. m \in 1 .. N /\ m - 1 = k /\ k \in 0 .. N /\ \A i \in 1 .. m : i = m \/ i \in 1 .. k
      BY <1>1
    <2>2. \A i \in 1 .. k : Done(v, s[i])
      BY <1>6, <2>1
    <2>3. v \in Grown(w, q, c) /\ t \in Tx /\ t \in ToSet(vtx[b])
      BY <1>1, <1>3, <2>1 DEF ToSet
    <2>4. x = AddToWalletIfInvolvingMe(v, t, b, TRUE)
      BY <1>3, <2>1 DEF SyncRun
    <2>5. w.txs \subseteq v.txs
      BY <2>3 DEF Grown
    <2> HIDE DEF m, v, x, t
    <2>6. /\ v.txs \subseteq x.txs /\ v.vfSpent \subseteq x.vfSpent
          /\ IsMine(t) => t \in x.txs
          /\ MyInputs(v, t) \subseteq x.vfSpent
      BY <1>4, <2>3, <2>4
    <2>7. vin[t] \cap MyCoins \subseteq MyInputs(v, t)
      <3> SUFFICES ASSUME NEW o \in vin[t] \cap MyCoins PROVE o[1] \in v.txs
        BY DEF MyInputs
      <3>1. \/ o[1] \in w.txs
            \/ \E j \in 1 .. (m - 1) : o[1] = s[j] /\ IsMine(o[1])
        BY <2>1 DEF t
      <3> QED  BY <2>1, <2>2, <2>5, <3>1
    <2>8. \A i \in 1 .. m : Done(x, s[i])
      BY <2>1, <2>2, <2>6, <2>7 DEF t
    <2> QED  BY <2>8 DEF m, x
  <1>7. Nat \subseteq S
    <2> HIDE DEF S
    <2> QED  BY <1>5, <1>6, SetInduction
  <1>8. \A i \in 1 .. N : Done(st[N], s[i])
    BY <1>1, <1>7
  <1>9. SyncBlock(w, b, TRUE) = st[N]
    BY <1>3 DEF SyncRun
  <1>10. \A t \in ToSet(vtx[b]) : \E i \in 1 .. N : t = s[i]
    BY <1>1 DEF ToSet
  <1> HIDE DEF s, N
  <1> QED  BY <1>8, <1>9, <1>10

LEMMA ScanKeeps ==
    ASSUME NEW z, NEW q, NEW c, NEW w \in Grown(z, q, c), NEW last \in Block,
           NEW first \in Ancestors[last], NEW fUpdate
    PROVE  ScanForWalletTransactions(w, first, last, fUpdate) \in Grown(z, q, c)
  <1> DEFINE B    == {a \in Ancestors[last] : first \in Ancestors[a]}
             V    == Grown(z, q, c)
             h    == [a \in B |-> nHeight[a]]
             init == [a \in B |-> SyncBlock(w, a, fUpdate)]
             step == [x \in B \X V |-> SyncBlock(x[2], x[1], fUpdate)]
             Def(g) == g = [b \in B |->
                 SyncBlock(IF b = first THEN w ELSE g[hashPrevBlock[b]], b, fUpdate)]
             it == CHOOSE g : Def(g)
             T == {b \in B : it[b] \in V}
  <1>1. B \subseteq Block /\ last \in B
    BY BlockTree, ChainOrder
  <1>2. ASSUME NEW b \in B, b # first
        PROVE  hashPrevBlock[b] \in B /\ nHeight[hashPrevBlock[b]] < nHeight[b]
    <2>1. b \in Block /\ b \in Ancestors[last] /\ first \in Ancestors[b]
      BY <1>1
    <2>2. b # Genesis
      BY <1>2, <2>1, BlockTree
    <2>3. /\ hashPrevBlock[b] \in Block
          /\ Ancestors[b] = {b} \cup Ancestors[hashPrevBlock[b]]
          /\ nHeight[b] = nHeight[hashPrevBlock[b]] + 1
      BY <2>1, <2>2, BlockTree
    <2>4. hashPrevBlock[b] \in Ancestors[b] /\ Ancestors[b] \subseteq Ancestors[last]
      BY <2>1, <2>3, ChainOrder
    <2>5. nHeight[hashPrevBlock[b]] \in Nat
      BY <2>3, BlockTree
    <2> QED  BY <1>2, <2>1, <2>3, <2>4, <2>5
  <1>3. h \in [B -> Nat]
    BY <1>1, BlockTree
  <1>4. Descends(B, {first}, hashPrevBlock, h)
    BY <1>2, <1>3 DEF Descends
  <1>5. \A v \in V, b \in B : SyncBlock(v, b, fUpdate) \in V
    BY <1>1, SyncBlockKeeps
  <1>6. init \in [B -> V] /\ step \in [B \X V -> V] /\ w \in V
    BY <1>5
  <1>7. PICK g \in [B -> V] : Recurs(B, {first}, hashPrevBlock, init, step, g)
    <2> HIDE DEF B, V, h, init, step
    <2> QED  BY <1>4, <1>6, ForestRecursion
  <1>8. Def(g)
    <2>1. ASSUME NEW b \in B
          PROVE  g[b] = SyncBlock(IF b = first THEN w ELSE g[hashPrevBlock[b]], b, fUpdate)
      <3>1. g[b] = IF b \in {first} THEN init[b] ELSE step[<<b, g[hashPrevBlock[b]]>>]
        BY <1>7 DEF Recurs
      <3>2. b # first => g[hashPrevBlock[b]] \in V
        BY <1>2, <1>7
      <3> HIDE DEF B, V
      <3> QED  BY <3>1, <3>2
    <2> QED  BY <1>7, <2>1
  <1>9. Def(it)
    <2> HIDE DEF Def
    <2> QED  BY <1>8
  <1>10. ScanForWalletTransactions(w, first, last, fUpdate) = it[last]
    BY DEF ScanForWalletTransactions
  <1> HIDE DEF it, V
  <1>11. B \subseteq T
    <2>1. ASSUME NEW b \in B, b = first \/ hashPrevBlock[b] \in T PROVE b \in T
      <3>1. it[b] = SyncBlock(IF b = first THEN w ELSE it[hashPrevBlock[b]], b, fUpdate)
        BY <1>9
      <3> QED  BY <1>5, <1>6, <2>1, <3>1
    <2> HIDE DEF T, B
    <2> QED  BY <1>4, <2>1, ForestInduction
  <1> QED  BY <1>1, <1>10, <1>11 DEF V

(* Where the locator of the wallet meets the chain there is a last block. *)
LEMMA HighestOfSome ==
    ASSUME NEW e \in Block, NEW S \in SUBSET Ancestors[e], S # {}
    PROVE  \E b \in S : \A c \in S : nHeight[c] <= nHeight[b]
  <1> DEFINE N == nHeight[e] + 1
             r == {nHeight[b] + 1 : b \in S}
  <1>1. S \subseteq Block /\ nHeight[e] \in Nat
    BY BlockTree
  <1>2. \A b \in S : nHeight[b] \in Nat /\ nHeight[b] <= nHeight[e]
    BY <1>1, ChainsToAll, BlockTree DEF ChainTo
  <1>3. N \in Nat /\ r \in SUBSET (1 .. N) /\ r # {}
    BY <1>1, <1>2
  <1>4. Max(r) \in r /\ \A y \in r : Max(r) >= y
    <2> HIDE DEF N, r
    <2> QED  BY <1>3, MaxIn
  <1>5. PICK b \in S : Max(r) = nHeight[b] + 1
    BY <1>4
  <1>6. ASSUME NEW c \in S PROVE nHeight[c] <= nHeight[b]
    <2>1. nHeight[c] + 1 \in r
      OBVIOUS
    <2> HIDE DEF r
    <2>2. nHeight[b] + 1 >= nHeight[c] + 1
      BY <1>4, <1>5, <2>1
    <2> QED  BY <1>2, <2>2
  <1> QED  BY <1>6

(* The wallet loses no transaction and no mark. *)
Grows == wallet.txs \subseteq wallet'.txs /\ wallet.vfSpent \subseteq wallet'.vfSpent

LEMMA WalletBecomes ==
    ASSUME NEW q, NEW c \in Block \cup {NoBlock}, wallet' \in Grown(wallet, q, c)
    PROVE  WalletOK(wallet)' /\ Grows
  <1>1. WalletOK(wallet')
    BY WalletFields DEF Grown
  <1> QED  BY <1>1 DEF Grown, Grows

LEMMA WalletNow ==
    ASSUME WalletOK(wallet)
    PROVE  /\ wallet \in Wallets(wallet.vtxPrev, wallet.best)
           /\ wallet \in Grown(wallet, wallet.vtxPrev, wallet.best)
           /\ wallet.best \in Block \cup {NoBlock}
  BY DEF WalletOK, Grown

(* The payments and the name commands: no transaction the wallet makes is   *)
(* the genesis block's.                                                     *)
LEMMA CommitKeeps ==
    ASSUME WalletOK(wallet), NEW t \in Tx \ GenesisTx, vin[t] \subseteq Mine, CommitTransaction(t)
    PROVE  WalletOK(wallet)' /\ Grows
  <1> DEFINE q == [wallet.vtxPrev EXCEPT ![t] = Supporting(t)]
             w == [wallet EXCEPT !.vtxPrev[t] = Supporting(t)]
             v == AddToWallet(w, t, NoBlock)
  <1>1. wallet' = [v EXCEPT !.vfSpent = @ \cup vin[t]]
    BY DEF CommitTransaction
  <1>2. w \in Grown(wallet, q, wallet.best)
    <2>1. wallet \in Wallets(wallet.vtxPrev, wallet.best)
      BY WalletNow
    <2>2. w \in Wallets(q, wallet.best) /\ w.txs = wallet.txs /\ w.vfSpent = wallet.vfSpent
      BY <2>1 DEF Wallets
    <2> HIDE DEF w
    <2> QED  BY <2>2 DEF Grown
  <1> HIDE DEF q, w
  <1>3. v \in Grown(wallet, q, wallet.best)
    BY <1>2, AddToWalletKeeps
  <1> HIDE DEF v
  <1>4. wallet' \in Grown(wallet, q, wallet.best)
    <2>1. v \in Wallets(q, wallet.best) /\ wallet.txs \subseteq v.txs /\ wallet.vfSpent \subseteq v.vfSpent
      BY <1>3 DEF Grown
    <2>2. /\ wallet' \in Wallets(q, wallet.best)
          /\ wallet'.txs = v.txs /\ wallet'.vfSpent = v.vfSpent \cup vin[t]
      BY <1>1, <2>1 DEF Wallets
    <2> QED  BY <2>1, <2>2 DEF Grown
  <1> QED  BY <1>4, WalletNow, WalletBecomes

(* deletetransaction *)
(* x is w without t. *)
Without(x, w, t) ==
    /\ x.txs = w.txs \ {t}
    /\ x.vfSpent = {o \in w.vfSpent \ MyInputs(w, t) : o[1] # t}

LEMMA EraseKeeps ==
    ASSUME NEW q, NEW c, NEW w \in Wallets(q, c), NEW t \in Tx
    PROVE  LET x == EraseFromWallet(UnspendInputs(w, t), t)
           IN  /\ x \in Wallets([q EXCEPT ![t] = NoPrev], c)
               /\ Without(x, w, t)
  <1> DEFINE v == UnspendInputs(w, t)
             h == [v.hashBlock EXCEPT ![t] = NoBlock]
  <1>1. v \in Wallets(q, c) /\ v.txs = w.txs /\ v.vfSpent = w.vfSpent \ MyInputs(w, t)
    BY DEF UnspendInputs, Wallets
  <1> HIDE DEF v
  <1>2. h \in HeldBy
    <2>1. v.hashBlock \in HeldBy
      BY <1>1, WalletFields
    <2> QED  BY <2>1 DEF HeldBy
  <1>3. v.txs \ {t} \in SUBSET (Tx \ GenesisTx) /\ {o \in v.vfSpent : o[1] # t} \in SUBSET Mine
        /\ v.vtxPrev = q
    BY <1>1, WalletFields
  <1>4. /\ EraseFromWallet(v, t) \in Wallets([q EXCEPT ![t] = NoPrev], c)
        /\ EraseFromWallet(v, t).txs = v.txs \ {t}
        /\ EraseFromWallet(v, t).vfSpent = {o \in v.vfSpent : o[1] # t}
    BY <1>1, <1>2, <1>3 DEF EraseFromWallet, Wallets
  <1> QED  BY <1>1, <1>4 DEF v, Without

(* ReacceptWalletTransactions *)
LEMMA ReacceptKeeps ==
    ASSUME NodeInv, WalletOK(wallet), ReacceptWalletTransactions
    PROVE  WalletOK(wallet)' /\ Grows
  <1> DEFINE q == wallet.vtxPrev
             c == wallet.best
  <1>1. wallet \in Grown(wallet, q, c) /\ c \in Block \cup {NoBlock}
    BY WalletNow
  <1>2. ASSUME NEW t \in Tx, ReacceptConfirmed(t) PROVE WalletOK(wallet)' /\ Grows
    <2>1. PICK found \in SUBSET Mine : wallet' = [wallet EXCEPT !.vfSpent = @ \cup found]
      BY <1>2 DEF ReacceptConfirmed, MyCoins
    <2>2. wallet' \in Grown(wallet, q, c)
      <3>1. wallet \in Wallets(q, c)
        BY WalletNow
      <3>2. wallet' \in Wallets(q, c) /\ wallet'.txs = wallet.txs
            /\ wallet'.vfSpent = wallet.vfSpent \cup found
        BY <2>1, <3>1 DEF Wallets
      <3> QED  BY <3>2 DEF Grown
    <2> QED  BY <1>1, <2>2, WalletBecomes
  <1>3. ASSUME wallet' = wallet PROVE WalletOK(wallet)' /\ Grows
    BY <1>1, <1>3, WalletBecomes
  <1>4. ASSUME NEW t \in Tx, AcceptWalletTransaction(t) \/ ReacceptUnconfirmed(t)
        PROVE  WalletOK(wallet)' /\ Grows
    BY <1>3, <1>4 DEF AcceptWalletTransaction, ReacceptUnconfirmed
  <1>5. ASSUME NEW t \in Tx, NEW p \in Tx, ReacceptSupport(t, p) PROVE WalletOK(wallet)' /\ Grows
    BY <1>3, <1>5 DEF ReacceptSupport
  <1>6. CASE ReacceptRound
    <2>1. wallet' = ScanForWalletTransactions(wallet, Genesis, pindexBest, FALSE)
      BY <1>6 DEF ReacceptRound
    <2>2. pindexBest \in Block /\ Genesis \in Ancestors[pindexBest]
      BY JobFacts, ChainOrder
    <2> HIDE DEF q, c
    <2>3. wallet' \in Grown(wallet, q, c)
      BY <1>1, <2>1, <2>2, ScanKeeps
    <2> QED  BY <1>1, <2>3, WalletBecomes
  <1> QED  BY <1>2, <1>4, <1>5, <1>6 DEF ReacceptWalletTransactions

LEMMA RestartKeeps ==
    ASSUME NodeInv, WalletOK(wallet), WalletRestart
    PROVE  WalletOK(wallet)' /\ Grows
  <1> DEFINE q == wallet.vtxPrev
             c == wallet.best
             common == Ancestors[wallet.best] \cap Ancestors[dbBest]
             pindexRescan == IF wallet.best = NoBlock THEN dbBest
                             ELSE CHOOSE b \in common : \A a \in common : nHeight[a] <= nHeight[b]
  <1>1. wallet \in Grown(wallet, q, c) /\ c \in Block \cup {NoBlock}
    BY WalletNow
  <1>2. dbBest \in Block
    BY JobFacts DEF NodeInv, JobOK
  <1>3. pindexRescan \in Ancestors[dbBest]
    <2>1. CASE wallet.best = NoBlock
      BY <1>2, <2>1, ChainOrder
    <2>2. CASE wallet.best # NoBlock
      <3>1. wallet.best \in Block /\ common \in SUBSET Ancestors[dbBest] /\ Genesis \in common
        BY <1>1, <1>2, <2>2, ChainOrder
      <3>2. \E b \in common : \A a \in common : nHeight[a] <= nHeight[b]
        <4> HIDE DEF common
        <4> QED  BY <1>2, <3>1, HighestOfSome
      <3>3. pindexRescan \in common
        <4> HIDE DEF common
        <4> QED  BY <2>2, <3>2
      <3> QED  BY <3>1, <3>3
    <2> QED  BY <2>1, <2>2
  <1>4. wallet' = wallet
        \/ wallet' = ScanForWalletTransactions(wallet, pindexRescan, dbBest, TRUE)
    BY DEF WalletRestart
  <1> HIDE DEF q, c, pindexRescan
  <1>5. wallet' \in Grown(wallet, q, c)
    BY <1>1, <1>2, <1>3, <1>4, ScanKeeps
  <1> QED  BY <1>1, <1>5, WalletBecomes

LEMMA WalletStepKeeps ==
    ASSUME NodeInv, WalletOK(wallet), WalletStep
    PROVE  WalletOK(wallet)' /\ (Grows \/ \E t \in Tx : WalletDelete(t))
  <1> DEFINE q == wallet.vtxPrev
             c == wallet.best
  <1>1. wallet \in Grown(wallet, q, c) /\ c \in Block \cup {NoBlock}
    BY WalletNow
  <1>2. CASE NodeBesideWallet
    <2>1. wallet' = wallet
      BY <1>2 DEF NodeBesideWallet, walletVars
    <2> QED  BY <1>1, <2>1, WalletBecomes
  <1>3. CASE WalletConnectBlock
    <2>1. wallet' = SyncBlock(wallet, tip, TRUE) /\ tip \in Block
      BY <1>3, JobFacts DEF WalletConnectBlock
    <2> HIDE DEF q, c
    <2>2. wallet' \in Grown(wallet, q, c)
      BY <1>1, <2>1, SyncBlockKeeps
    <2> QED  BY <1>1, <2>2, WalletBecomes
  <1>4. CASE WalletNewBestBlock
    <2>1. wallet' = wallet \/ wallet' = [wallet EXCEPT !.best = pindexNew]
      BY <1>4 DEF WalletNewBestBlock
    <2>2. pindexNew \in Block
      BY <1>4, JobFacts DEF WalletNewBestBlock, NewBestBlock
    <2>3. wallet' \in Grown(wallet, q, c) \/ wallet' \in Grown(wallet, q, pindexNew)
      <3>1. wallet \in Wallets(q, c)
        BY WalletNow
      <3>2. CASE wallet' = [wallet EXCEPT !.best = pindexNew]
        <4>1. /\ wallet' \in Wallets(q, pindexNew)
              /\ wallet'.txs = wallet.txs /\ wallet'.vfSpent = wallet.vfSpent
          BY <3>1, <3>2 DEF Wallets
        <4> QED  BY <4>1 DEF Grown
      <3> QED  BY <1>1, <2>1, <3>2
    <2> QED  BY <1>1, <2>2, <2>3, WalletBecomes
  <1>5. ASSUME NEW t \in Tx, ReceiveTx(t) PROVE WalletOK(wallet)' /\ Grows
    <2>1. wallet' = AddToWalletIfInvolvingMe(wallet, t, NoBlock, TRUE)
      BY <1>5 DEF ReceiveTx
    <2> HIDE DEF q, c
    <2>2. wallet' \in Grown(wallet, q, c)
      BY <1>1, <2>1, InvolvingMeKeeps
    <2> QED  BY <1>1, <2>2, WalletBecomes
  <1>6. ASSUME NEW t \in Tx, SendMoney(t) PROVE WalletOK(wallet)' /\ Grows
    <2>1. t \in Outgoing /\ CommitTransaction(t) /\ vin[t] \subseteq Mine
      BY <1>6 DEF SendMoney, CreateTransaction, CoinAvailable, MyCoins
    <2>2. t \notin GenesisTx
      BY <2>1, WalletAssumption DEF GenesisTx
    <2> QED  BY <2>1, <2>2, CommitKeeps
  <1>7. ASSUME NEW t \in Tx, WalletDelete(t) PROVE WalletOK(wallet)'
    <2>1. wallet' = EraseFromWallet(UnspendInputs(wallet, t), t)
      BY <1>7 DEF WalletDelete
    <2>2. wallet \in Wallets(q, c)
      BY WalletNow
    <2> HIDE DEF q, c
    <2>3. wallet' \in Wallets([q EXCEPT ![t] = NoPrev], c)
      BY <2>1, <2>2, EraseKeeps
    <2>4. WalletOK(wallet')
      BY <1>1, <2>3, WalletFields
    <2> QED  BY <2>4
  <1>8. CASE ReacceptWalletTransactions
    BY <1>8, ReacceptKeeps
  <1> QED  BY <1>2, <1>3, <1>4, <1>5, <1>6, <1>7, <1>8 DEF WalletStep

LEMMA NamesStepKeeps ==
    ASSUME NodeInv, CallOK, WalletOK(wallet), [NamesNext]_nameVars
    PROVE  WalletOK(wallet)' /\ (Grows \/ \E t \in Tx : WalletDelete(t))
  <1>1. ASSUME wallet' = wallet PROVE WalletOK(wallet)' /\ Grows
    BY <1>1, WalletNow, WalletBecomes
  <1>2. \A t \in Commands : t \in Tx \ GenesisTx
    BY CommandsAssumption DEF GenesisTx
  <1>3. CASE CheckActive \/ (\E t \in Commands : CheckPending(t)) \/ UNCHANGED nameVars
    BY <1>1, <1>3 DEF CheckActive, CheckPending, nameVars, walletAll, walletVars
  <1>4. ASSUME NEW t, CreateWithInputTx(t) PROVE vin[t] \subseteq Mine
    BY <1>4 DEF CreateWithInputTx, CoinAvailable, MyCoins
  <1>5. CASE name_firstupdate
    <2>1. PICK t \in Commands : t = call.tx
      BY <1>5 DEF name_firstupdate, CallOK
    <2>2. (CreateWithInputTx(t) /\ CommitTransaction(t)) \/ UNCHANGED walletAll
      BY <1>5, <2>1 DEF name_firstupdate, CanFirstUpdate
    <2> QED  BY <1>1, <1>2, <1>4, <2>2, CommitKeeps DEF walletAll, walletVars
  <1>6. ASSUME NEW t \in Commands, name_update(t) PROVE WalletOK(wallet)' /\ Grows
    <2>1. CreateWithInputTx(t) /\ CommitTransaction(t)
      BY <1>6 DEF name_update, CanUpdate
    <2> QED  BY <1>2, <1>4, <2>1, CommitKeeps
  <1> QED  BY <1>3, <1>5, <1>6, WalletStepKeeps, RestartKeeps DEF NamesNext

LEMMA NamesStart == ASSUME NamesInit PROVE LoadsFirst /\ CallOK /\ WalletOK(wallet)
  <1>1. LoadsFirst /\ CallOK
    BY DEF NamesInit, WalletInit, LoadsFirst, IsLoading, NoCall, CallOK
  <1>2. [t \in Tx |-> NoBlock] \in HeldBy
    BY DEF HeldBy
  <1>3. wallet = [txs |-> {}, vfSpent |-> {}, hashBlock |-> [t \in Tx |-> NoBlock],
                  vtxPrev |-> [t \in Tx |-> NoPrev], best |-> NoBlock]
    BY DEF NamesInit, WalletInit
  <1> QED  BY <1>1, <1>2, <1>3 DEF WalletOK, Wallets

(* NoFalseConfirmation: a transaction the wallet shows as confirmed is in   *)
(* the block chain, in the block the wallet says it is in: the wallet hears *)
(* of a block before the commit and never of one that is disconnected, but  *)
(* the block it notes always holds the transaction, and the index of a      *)
(* committed chain knows every transaction of its blocks.                   *)
THEOREM ConfirmationsAreTrue == NamesSpec => []NoFalseConfirmation
  <1>1. NodeInv /\ LoadsFirst /\ CallOK /\ WalletOK(wallet) /\ [NamesNext]_nameVars =>
            LoadsFirst' /\ CallOK' /\ WalletOK(wallet)'
    BY NamesStepIsNext, NamesStepKeeps
  <1>2. NodeInv /\ WalletOK(wallet) => NoFalseConfirmation
    <2> SUFFICES ASSUME NodeInv, WalletOK(wallet), stage = "idle",
                        NEW t \in wallet.txs, GetDepthInMainChain(t) >= 1
                 PROVE  dbTx[t].pos[1] = wallet.hashBlock[t]
      BY DEF NoFalseConfirmation
    <2> DEFINE b == wallet.hashBlock[t]
    <2>1. t \in Tx \ GenesisTx /\ wallet.hashBlock \in HeldBy
      BY WalletNow, WalletFields
    <2>2. b # NoBlock /\ b \in Ancestors[pindexBest]
      BY DEF GetDepthInMainChain, InMainChain
    <2>3. b \in Block /\ t \in ToSet(vtx[b])
      BY <2>1, <2>2 DEF HeldBy
    <2>4. b # Genesis
      BY <2>1, <2>3 DEF GenesisTx
    <2>5. vtx[b] \in Seq(Tx) /\ Len(vtx[b]) \in Nat
      BY <2>3, TxAssumption
    <2>6. PICK i \in 1 .. Len(vtx[b]) : vtx[b][i] = t
      BY <2>3, <2>5 DEF ToSet
    <2>7. dbBest = pindexBest
      BY DEF NodeInv, JobOK
    <2>8. InChain(b, i, dbBest, Len(vtx[dbBest]))
      BY <2>2, <2>4, <2>5, <2>6, <2>7 DEF InChain
    <2>9. dbTx[t].pos = PosOf(b, i)
      BY <2>3, <2>6, <2>8 DEF NodeInv, ChainView, IndexIsChain
    <2> QED  BY <2>9 DEF PosOf
  <1> QED  BY NamesStart, <1>1, <1>2, WalletLeavesNodeAlone, NodeInvariant, PTL DEF NamesSpec

-----------------------------------------------------------------------------
(* What the wallet knows of the coins that the block chain has spent.       *)

(* The wallet has the transactions of the block that pay to it ...          *)
OwnKnown(b) == \A t \in ToSet(vtx[b]) : IsMine(t) => t \in wallet.txs

(* ... and has marked the coins that the block spends.                      *)
Marked(b) == \A t \in ToSet(vtx[b]) : vin[t] \cap MyCoins \subseteq wallet.vfSpent

(* The first holds of the committed chain, since deletetransaction refuses  *)
(* what is in it; both hold of the part of a new branch that is connected.  *)
WalletFollows ==
    /\ \A b \in Ancestors[dbBest] \ {Genesis} : OwnKnown(b)
    /\ stage \in {"connect", "connected"} =>
          \A b \in Ancestors[tip] \ Ancestors[dbBest] :
              b # tip \/ stage = "connected" => OwnKnown(b) /\ Marked(b)

LEMMA GrowsKnows ==
    ASSUME Grows, NEW b
    PROVE  (OwnKnown(b) => OwnKnown(b)') /\ (Marked(b) => Marked(b)')
  BY DEF Grows, OwnKnown, Marked

(* A coin that an index has spent comes from a transaction that pays to us. *)
LEMMA SpentIsMine ==
    ASSUME NEW tv, SpentWithin(tv), NEW o \in MyCoins, o[2] \in tv[o[1]].spent
    PROVE  o = <<o[1], o[2]>> /\ o[1] \in Tx /\ HasTxIndex(tv, o[1]) /\ IsMine(o[1])
           /\ o[2] \in 1 .. Len(vout[o[1]])
  <1>1. o = <<o[1], o[2]>> /\ o[1] \in Tx
    BY WalletAssumption DEF MyCoins
  <1>2. HasTxIndex(tv, o[1]) /\ o[2] \in 1 .. Len(vout[o[1]])
    BY <1>1 DEF SpentWithin
  <1>3. DOMAIN vout[o[1]] = 1 .. Len(vout[o[1]])
    BY <1>1, TxAssumption
  <1> QED  BY <1>1, <1>2, <1>3 DEF IsMine

LEMMA IndexedIsKnown ==
    ASSUME NodeInv, WalletFollows, NEW t \in Tx, HasTxIndex(dbTx, t), IsMine(t)
    PROVE  t \in wallet.txs
  <1> DEFINE b == dbTx[t].pos[1]
             i == dbTx[t].pos[2]
  <1>1. InChain(b, i, dbBest, Len(vtx[dbBest])) /\ vtx[b][i] = t
    BY DEF NodeInv, ChainView, IndexIsChain
  <1>2. b \in Ancestors[dbBest] \ {Genesis} /\ i \in 1 .. Len(vtx[b]) /\ b \in Block
    BY <1>1, BlockTree DEF InChain, NodeInv, TypeOK, ChainType
  <1>3. vtx[b] \in Seq(Tx)
    BY <1>2, TxAssumption
  <1>4. t \in ToSet(vtx[b])
    <2> HIDE DEF b, i
    <2> QED  BY <1>1, <1>2, <1>3 DEF ToSet
  <1> QED  BY <1>2, <1>4 DEF WalletFollows, OwnKnown

(* The end of ConnectBlock is always seen by the wallet. *)
LEMMA OnlyWalletConnects ==
    ASSUME LoadsFirst, [NamesNext]_nameVars, stage = "connect", stage' = "connected"
    PROVE  WalletConnectBlock
  <1>1. CASE WalletStep
    <2>1. ~NodeBesideWallet
      BY DEF NodeBesideWallet, ProcessOrphan, NextInQueue, ProcessBlockDone, DisconnectInputs,
             DisconnectBlock, DisconnectFails, ConnectNext, ConnectInputs, ConnectInputsFails,
             ConnectBlockFails, TxnCommit, ReadyToCommit, TxnCommitFails, ResurrectTx,
             ResurrectDone, DeleteTx, ProcessBlock, ProcessBlockOrphan, ProcessBlockRefused, Abort
    <2>2. ~WalletNewBestBlock
      BY DEF WalletNewBestBlock, NewBestBlock
    <2>3. ~ \E t \in Tx : ReceiveTx(t) \/ SendMoney(t) \/ WalletDelete(t)
      BY DEF ReceiveTx, AcceptToMemoryPool, SendMoney, WalletDelete, deletetransaction
    <2>4. ~ReacceptWalletTransactions
      BY ReacceptIsLoading DEF LoadsFirst
    <2> QED  BY <1>1, <2>1, <2>2, <2>3, <2>4 DEF WalletStep
  <1>2. CASE WalletRestart
    BY <1>2 DEF WalletRestart, Restart
  <1>3. CASE UNCHANGED stage
    BY <1>3
  <1>4. CASE CheckActive \/ (\E t \in Commands : CheckPending(t)) \/ UNCHANGED nameVars
    <2>1. UNCHANGED stage
      BY <1>4 DEF CheckActive, CheckPending, nameVars, walletAll, vars, jobVars
    <2> QED  BY <1>3, <2>1
  <1>5. CASE name_firstupdate \/ \E t \in Commands : name_update(t)
    BY <1>5 DEF name_firstupdate, name_update
  <1> QED  BY <1>1, <1>2, <1>4, <1>5 DEF NamesNext

(* ConnectBlock: every coin of ours that the block spends comes from a      *)
(* transaction the wallet has, or from an earlier one of the block.         *)
LEMMA ConnectIsFollowed ==
    ASSUME NodeInv, WalletOK(wallet), WalletFollows, WalletConnectBlock
    PROVE  OwnKnown(tip)' /\ Marked(tip)'
  <1>1. /\ wallet' = SyncBlock(wallet, tip, TRUE) /\ tip' = tip
        /\ stage = "connect" /\ nTx = Len(vtx[tip])
    BY DEF WalletConnectBlock, ConnectBlock, viewVars
  <1>2. tip \in Block \ {Genesis}
    BY <1>1, JobFacts DEF NodeInv, JobOK
  <1>3. ASSUME NEW i \in 1 .. Len(vtx[tip]), NEW o \in vin[vtx[tip][i]] \cap MyCoins
        PROVE  \/ o[1] \in wallet.txs
               \/ \E j \in 1 .. (i - 1) : o[1] = vtx[tip][j] /\ IsMine(o[1])
    <2> DEFINE t == vtx[tip][i]
               p == o[1]
               a == txTx[p].pos[1]
               j == txTx[p].pos[2]
    <2>1. vtx[tip] \in Seq(Tx) /\ Len(vtx[tip]) \in Nat /\ t \in Tx
      BY <1>2, TxAssumption
    <2>2. InChain(tip, i, tip, nTx)
      BY <1>1, <1>2, <2>1, ChainOrder DEF InChain
    <2>3. txTx[t].pos = <<tip, i>> /\ t \in IndexedTx(txTx)
      <3>1. txTx[vtx[tip][i]].pos = PosOf(tip, i)
        BY <1>2, <2>2 DEF NodeInv, ChainView, IndexIsChain
      <3>2. PosOf(tip, i) # NoPos
        BY <1>2, BlockTree DEF PosOf, NoPos
      <3> QED  BY <2>1, <3>1, <3>2 DEF PosOf, IndexedTx, HasTxIndex
    <2>4. /\ HasTxIndex(txTx, p) /\ o[2] \in 1 .. Len(vout[p])
          /\ Precedes(txTx[p].pos, <<tip, i>>)
      BY <2>3 DEF NodeInv, ChainView, InputsPrecede
    <2>5. o = <<p, o[2]>> /\ p \in Tx /\ DOMAIN vout[p] = 1 .. Len(vout[p])
      <3>1. o \in Tx \X (Nat \ {0})
        BY WalletAssumption DEF MyCoins
      <3>2. p \in Tx
        BY <3>1
      <3>3. vout[p] \in Seq(TxOut)
        BY <3>2, TxAssumption
      <3> QED  BY <3>1, <3>2, <3>3
    <2>6. IsMine(p)
      BY <2>4, <2>5 DEF IsMine
    <2>7. InChain(a, j, tip, nTx) /\ vtx[a][j] = p
      BY <2>4, <2>5 DEF NodeInv, ChainView, IndexIsChain
    <2>8. a \in Ancestors[tip] \ {Genesis} /\ a \in Block /\ j \in 1 .. Len(vtx[a])
      BY <1>2, <2>7, BlockTree DEF InChain
    <2>9. p \in ToSet(vtx[a])
      <3>1. vtx[a] \in Seq(Tx)
        BY <2>8, TxAssumption
      <3> HIDE DEF a, j
      <3> QED  BY <2>7, <2>8, <3>1 DEF ToSet
    <2>10. CASE a = tip
      <3>1. nHeight[tip] \in Nat
        BY <1>2, BlockTree
      <3>2. j < i
        BY <2>4, <2>10, <3>1 DEF Precedes
      <3>3. j \in 1 .. (i - 1)
        BY <2>1, <2>8, <2>10, <3>2
      <3> QED  BY <2>6, <2>7, <2>10, <3>3
    <2>11. CASE a # tip
      <3>1. OwnKnown(a)
        BY <1>1, <2>8, <2>11 DEF WalletFollows
      <3> QED  BY <2>6, <2>9, <3>1 DEF OwnKnown
    <2> QED  BY <2>10, <2>11
  <1>4. wallet \in Wallets(wallet.vtxPrev, wallet.best)
    BY WalletNow
  <1> DEFINE v == SyncBlock(wallet, tip, TRUE)
  <1>5. \A t \in ToSet(vtx[tip]) : /\ IsMine(t) => t \in v.txs
                                   /\ vin[t] \cap MyCoins \subseteq v.vfSpent
    BY <1>2, <1>3, <1>4, SyncBlockMarks
  <1> HIDE DEF v
  <1>6. wallet' = v
    BY <1>1 DEF v
  <1> QED  BY <1>1, <1>5, <1>6 DEF OwnKnown, Marked

LEMMA FollowsNext ==
    ASSUME NodeInv, PoolOutside, WalletOK(wallet), CallOK, LoadsFirst, WalletFollows,
           [NamesNext]_nameVars
    PROVE  WalletFollows'
  <1>1. [Next]_vars /\ (Grows \/ \E t \in Tx : WalletDelete(t))
    BY NamesStepIsNext, NamesStepKeeps
  <1>2. dbBest \in Block /\ tip \in Block
    BY JobFacts DEF NodeInv, TypeOK, ChainType
  <1>3. ASSUME NEW t \in Tx, WalletDelete(t) PROVE WalletFollows'
    <2>1. /\ stage = "idle" /\ stage' = stage /\ dbBest' = dbBest
          /\ t \in mapTransactions \/ ~HasTxIndex(dbTx, t)
          /\ wallet' = EraseFromWallet(UnspendInputs(wallet, t), t)
      BY <1>3 DEF WalletDelete, deletetransaction, diskVars, jobVars
    <2>2. ~HasTxIndex(dbTx, t)
      BY <2>1 DEF PoolOutside
    <2>3. wallet'.txs = wallet.txs \ {t}
      <3> DEFINE q == wallet.vtxPrev
                 c == wallet.best
      <3>1. wallet \in Wallets(q, c)
        BY WalletNow
      <3> HIDE DEF q, c
      <3>2. Without(wallet', wallet, t)
        BY <1>3, <2>1, <3>1, EraseKeeps
      <3> QED  BY <3>2 DEF Without
    <2>4. ASSUME NEW b \in Ancestors[dbBest] \ {Genesis} PROVE OwnKnown(b)'
      <3>1. t \notin ToSet(vtx[b])
        BY <2>2, CommittedTx
      <3>2. OwnKnown(b)
        BY DEF WalletFollows
      <3> QED  BY <2>3, <3>1, <3>2 DEF OwnKnown
    <2> QED  BY <2>1, <2>4 DEF WalletFollows
  <1> SUFFICES ASSUME Grows PROVE WalletFollows'
    BY <1>1, <1>3
  <1>4. ASSUME dbBest' = dbBest PROVE \A b \in Ancestors[dbBest'] \ {Genesis} : OwnKnown(b)'
    BY <1>4, GrowsKnows DEF WalletFollows
  <1>5. ASSUME dbBest' = dbBest, stage' \notin {"connect", "connected"} PROVE WalletFollows'
    BY <1>4, <1>5 DEF WalletFollows
  <1>6. ASSUME dbBest' = dbBest, tip' = tip, stage' = stage PROVE WalletFollows'
    BY <1>4, <1>6, GrowsKnows DEF WalletFollows
  <1>7. CASE QuietStep
    BY <1>5, <1>6, <1>7 DEF QuietStep, diskVars, Committed
  <1>8. CASE DisconnectInputs \/ DisconnectBlock
    BY <1>5, <1>8 DEF DisconnectInputs, DisconnectBlock, diskVars
  <1>9. CASE ConnectNext
    <2>1. /\ stage' = "connect" /\ dbBest' = dbBest
          /\ stage = "disconnect" \/ stage = "connected"
      BY <1>9 DEF ConnectNext, diskVars
    <2>2. Ancestors[tip'] = {tip'} \cup Ancestors[tip]
      BY <1>9, ConnectNextFacts, BlockTree
    <2>3. stage = "disconnect" => Ancestors[tip] \subseteq Ancestors[dbBest]
      BY <1>2, ChainOrder DEF NodeInv, JobOK
    <2>4. ASSUME NEW b \in Ancestors[tip'] \ Ancestors[dbBest], b # tip'
          PROVE  OwnKnown(b)' /\ Marked(b)'
      <3>1. b \in Ancestors[tip] \ Ancestors[dbBest] /\ stage = "connected"
        BY <2>1, <2>2, <2>3, <2>4
      <3>2. OwnKnown(b) /\ Marked(b)
        BY <3>1 DEF WalletFollows
      <3> QED  BY <3>2, GrowsKnows
    <2> QED  BY <1>4, <2>1, <2>4 DEF WalletFollows
  <1>10. CASE ConnectInputs
    BY <1>6, <1>10 DEF ConnectInputs, diskVars
  <1>11. CASE ConnectBlock
    <2>1. stage = "connect" /\ stage' = "connected" /\ dbBest' = dbBest /\ tip' = tip
      BY <1>11 DEF ConnectBlock, diskVars, viewVars
    <2>2. OwnKnown(tip)' /\ Marked(tip)'
      BY <2>1, OnlyWalletConnects, ConnectIsFollowed
    <2>3. ASSUME NEW b \in Ancestors[tip] \ Ancestors[dbBest] PROVE OwnKnown(b)' /\ Marked(b)'
      <3>1. CASE b = tip
        BY <2>1, <2>2, <3>1 DEF OwnKnown, Marked
      <3>2. CASE b # tip
        <4>1. OwnKnown(b) /\ Marked(b)
          BY <2>1, <3>2 DEF WalletFollows
        <4> QED  BY <4>1, GrowsKnows
      <3> QED  BY <3>1, <3>2
    <2> QED  BY <1>4, <2>1, <2>3 DEF WalletFollows
  <1>12. CASE AbortingStep
    BY <1>5, <1>12 DEF AbortingStep, Abort, diskVars
  <1>13. CASE TxnCommit
    <2>1. stage = "connected" /\ tip = pindexNew /\ stage' = "resurrect" /\ dbBest' = pindexNew
      BY <1>13 DEF TxnCommit, ReadyToCommit
    <2>2. ASSUME NEW b \in Ancestors[tip] \ {Genesis} PROVE OwnKnown(b)'
      <3>1. OwnKnown(b)
        BY <2>1 DEF WalletFollows
      <3> QED  BY <3>1, GrowsKnows
    <2> QED  BY <2>1, <2>2 DEF WalletFollows
  <1>14. CASE Restart
    BY <1>5, <1>14 DEF Restart, diskVars
  <1> QED  BY <1>1, <1>7, <1>8, <1>9, <1>10, <1>11, <1>12, <1>13, <1>14, StepKinds

(* The state of the node and of the wallet together. *)
WalletInv ==
    /\ NodeInv /\ PoolOutside /\ SpentWithin(txTx) /\ SpentWithin(dbTx)
    /\ LoadsFirst /\ CallOK /\ WalletOK(wallet) /\ WalletFollows

LEMMA WalletInvariant == NamesSpec => []WalletInv
  <1>1. ASSUME NamesInit PROVE LoadsFirst /\ CallOK /\ WalletOK(wallet) /\ WalletFollows
    <2>1. stage = "idle" /\ dbBest = Genesis
      BY <1>1 DEF NamesInit, WalletInit, Init
    <2>2. WalletFollows
      BY <2>1, BlockTree DEF WalletFollows
    <2> QED  BY <1>1, <2>2, NamesStart
  <1>2. /\ NodeInv /\ PoolOutside /\ LoadsFirst /\ CallOK /\ WalletOK(wallet) /\ WalletFollows
        /\ [NamesNext]_nameVars
        => LoadsFirst' /\ CallOK' /\ WalletOK(wallet)' /\ WalletFollows'
    BY NamesStepIsNext, NamesStepKeeps, FollowsNext
  <1> QED  BY <1>1, <1>2, WalletLeavesNodeAlone, NodeInvariant, PoolOutsideInvariant,
              SpentWithinInvariant, PTL DEF NamesSpec, WalletInv

(* A step that leaves the block chain alone: what is forgotten after it was *)
(* forgotten before it, or the wallet has lost the mark.                    *)
LEMMA ForgottenBefore ==
    ASSUME WalletInv, dbTx' = dbTx, NEW o \in MyCoins, Forgotten(o)'
    PROVE  o[1] \in wallet.txs /\ (o \in wallet.vfSpent \/ Forgotten(o))
  <1>1. o[1] \in wallet'.txs /\ o \notin wallet'.vfSpent /\ o[2] \in dbTx[o[1]].spent
    BY DEF Forgotten
  <1>2. o[1] \in Tx /\ HasTxIndex(dbTx, o[1]) /\ IsMine(o[1])
    BY <1>1, SpentIsMine DEF WalletInv
  <1>3. o[1] \in wallet.txs
    BY <1>2, IndexedIsKnown DEF WalletInv
  <1> QED  BY <1>1, <1>3 DEF Forgotten

(* ForgetsOnDelete: the wallet comes to believe that it can pay with a coin *)
(* which the block chain has spent only when deletetransaction has removed  *)
(* a transaction that spends the coin: no reorganisation, failed commit,    *)
(* crash, rescan or order of arrival makes it forget.  The coins are those  *)
(* IsMine(CTxOut) knows; of a name coin the wallet keeps no such account.   *)
THEOREM OnlyDeletingForgets == NamesSpec => ForgetsOnDelete
  <1>1. ASSUME WalletInv, [NamesNext]_nameVars, NEW o \in MyCoins, Forgotten(o)'
        PROVE  Forgotten(o) \/ \E t \in wallet.txs \ wallet'.txs : o \in vin[t]
    <2>1. [Next]_vars /\ (Grows \/ \E t \in Tx : WalletDelete(t))
      BY <1>1, NamesStepIsNext, NamesStepKeeps DEF WalletInv
    <2>2. CASE dbTx' = dbTx
      <3>1. o[1] \in wallet.txs /\ (o \in wallet.vfSpent \/ Forgotten(o))
        BY <1>1, <2>2, ForgottenBefore
      <3>2. o[1] \in wallet'.txs /\ o \notin wallet'.vfSpent
        BY <1>1 DEF Forgotten
      <3>3. CASE Grows
        BY <3>1, <3>2, <3>3 DEF Grows
      <3>4. ASSUME NEW t \in Tx, WalletDelete(t), o \in wallet.vfSpent
            PROVE  \E u \in wallet.txs \ wallet'.txs : o \in vin[u]
        <4>1. t \in wallet.txs /\ wallet' = EraseFromWallet(UnspendInputs(wallet, t), t)
          BY <3>4 DEF WalletDelete
        <4>2. /\ wallet'.txs = wallet.txs \ {t}
              /\ wallet'.vfSpent = {x \in wallet.vfSpent \ MyInputs(wallet, t) : x[1] # t}
          <5> DEFINE q == wallet.vtxPrev
                     c == wallet.best
          <5>1. wallet \in Wallets(q, c)
            BY <1>1, WalletNow DEF WalletInv
          <5> HIDE DEF q, c
          <5>2. Without(wallet', wallet, t)
            BY <3>4, <4>1, <5>1, EraseKeeps
          <5> QED  BY <5>2 DEF Without
        <4>3. o \in MyInputs(wallet, t)
          BY <3>2, <3>4, <4>2
        <4> QED  BY <4>1, <4>2, <4>3 DEF MyInputs
      <3> QED  BY <2>1, <3>1, <3>3, <3>4
    <2>3. CASE TxnCommit
      <3>1. /\ stage = "connected" /\ tip = pindexNew /\ dbTx' = txTx
        BY <2>3 DEF TxnCommit, ReadyToCommit, WriteDatabases
      <3>2. Grows
        BY <2>1, <3>1 DEF WalletDelete, deletetransaction
      <3>3. o \notin wallet.vfSpent /\ o[2] \in txTx[o[1]].spent
        BY <1>1, <3>1, <3>2 DEF Forgotten, Grows
      <3>4. /\ o = <<o[1], o[2]>> /\ o[1] \in Tx /\ HasTxIndex(txTx, o[1]) /\ IsMine(o[1])
            /\ o[2] \in 1 .. Len(vout[o[1]])
        BY <1>1, <3>3, SpentIsMine DEF WalletInv
      <3>5. PICK u \in IndexedTx(txTx) : o \in vin[u]
        BY <1>1, <3>3, <3>4 DEF WalletInv, NodeInv, ChainView, OutputsSpentOnce, IndexedTx
      <3>6. PICK b \in Ancestors[tip] \ {Genesis} : b \in Block /\ u \in ToSet(vtx[b])
        BY <1>1, <3>5, ViewedTx DEF WalletInv, IndexedTx
      <3>7. b \in Ancestors[dbBest]
        BY <1>1, <3>1, <3>3, <3>5, <3>6 DEF WalletInv, WalletFollows, Marked
      <3>8. u \in IndexedTx(dbTx)
        BY <1>1, <3>6, <3>7, CommittedTx DEF WalletInv, IndexedTx
      <3>9. HasTxIndex(dbTx, o[1])
        BY <1>1, <3>5, <3>8 DEF WalletInv, NodeInv, ChainView, InputsPrecede
      <3>10. o[2] \in dbTx[o[1]].spent
        BY <1>1, <3>4, <3>5, <3>8, <3>9
           DEF WalletInv, NodeInv, ChainView, OutputsSpentOnce, IndexedTx
      <3>11. o[1] \in wallet.txs
        BY <1>1, <3>4, <3>9, IndexedIsKnown DEF WalletInv
      <3> QED  BY <3>3, <3>10, <3>11 DEF Forgotten, MyCoins
    <2>4. dbTx' = dbTx \/ TxnCommit
      BY <1>1, <2>1, StepKinds
         DEF WalletInv, QuietStep, DisconnectInputs, DisconnectBlock, ConnectNext, ConnectInputs,
             ConnectBlock, AbortingStep, Abort, Restart, diskVars
    <2> QED  BY <2>2, <2>3, <2>4
  <1>2. WalletInv /\ [NamesNext]_nameVars =>
            [\A o \in MyCoins : Forgotten(o)' =>
                Forgotten(o) \/ \E t \in wallet.txs \ wallet'.txs : o \in vin[t]]_walletAll
    BY <1>1
  <1> QED  BY <1>2, WalletInvariant, PTL DEF NamesSpec, ForgetsOnDelete

(* ReacceptWalletTransactions has looked at all but toAccept. *)
Remembered == \A o \in MyCoins : o[1] \in wallet.txs \ toAccept => ~Forgotten(o)

LEMMA LoadingSteps ==
    ASSUME LoadsFirst, CallOK, [NamesNext]_nameVars
    PROVE  \/ UNCHANGED loadVars
           \/ WalletRestart \/ ReacceptRound
           \/ \E t \in Tx : ReacceptConfirmed(t) \/ AcceptWalletTransaction(t) \/ ReacceptUnconfirmed(t)
           \/ \E t, p \in Tx : ReacceptSupport(t, p)
  <1>1. CASE WalletStep
    <2>1. CASE NodeBesideWallet \/ WalletConnectBlock \/ WalletNewBestBlock
      BY <2>1 DEF NodeBesideWallet, WalletConnectBlock, WalletNewBestBlock, walletVars, loadVars
    <2>2. CASE \E t \in Tx : ReceiveTx(t) \/ SendMoney(t) \/ WalletDelete(t)
      BY <2>2 DEF ReceiveTx, SendMoney, CommitTransaction, WalletDelete, loadVars
    <2> QED  BY <1>1, <2>1, <2>2 DEF WalletStep, ReacceptWalletTransactions
  <1>2. CASE CheckActive \/ (\E t \in Commands : CheckPending(t)) \/ UNCHANGED nameVars
    BY <1>2 DEF CheckActive, CheckPending, nameVars, walletAll, walletVars, loadVars
  <1>3. CASE name_firstupdate \/ \E t \in Commands : name_update(t)
    BY <1>3 DEF name_firstupdate, name_update, CommitTransaction, walletAll, walletVars, loadVars
  <1> QED  BY <1>1, <1>2, <1>3 DEF NamesNext

(* Nothing but ReacceptWalletTransactions runs while it does. *)
LEMMA LoadingKeepsChain ==
    ASSUME WalletInv, IsLoading, [NamesNext]_nameVars
    PROVE  dbTx' = dbTx
  <1>1. LoadsFirst /\ CallOK /\ NodeInv /\ stage = "idle"
    BY DEF WalletInv, LoadsFirst
  <1>2. [Next]_vars
    BY <1>1, NamesStepIsNext
  <1> QED  BY <1>1, <1>2, StepKinds
              DEF QuietStep, DisconnectInputs, DisconnectBlock, ConnectNext, ConnectInputs,
                  ConnectBlock, AbortingStep, Abort, Restart, TxnCommit, ReadyToCommit, diskVars

(* What AcceptWalletTransaction is at work on is not in the block chain. *)
AcceptsOutside ==
    accepting = NotAccepting \/ (accepting.tx \in toAccept /\ ~HasTxIndex(dbTx, accepting.tx))

LEMMA AcceptsNext ==
    ASSUME WalletInv, AcceptsOutside, [NamesNext]_nameVars
    PROVE  AcceptsOutside'
  <1>1. CASE accepting' = NotAccepting
    BY <1>1 DEF AcceptsOutside
  <1>2. ASSUME accepting' # NotAccepting, UNCHANGED <<toAccept, accepting>> PROVE AcceptsOutside'
    <2>1. accepting.tx \in toAccept /\ ~HasTxIndex(dbTx, accepting.tx)
      BY <1>2 DEF AcceptsOutside
    <2>2. dbTx' = dbTx
      BY <2>1, LoadingKeepsChain DEF IsLoading
    <2> QED  BY <1>2, <2>1, <2>2 DEF AcceptsOutside, HasTxIndex
  <1>3. ASSUME NEW t \in Tx, AcceptWalletTransaction(t) PROVE AcceptsOutside'
    <2>1. /\ t \in toAccept /\ ~HasTxIndex(dbTx, t) /\ accepting'.tx = t
          /\ toAccept' = toAccept /\ dbTx' = dbTx
      BY <1>3 DEF AcceptWalletTransaction, vars, diskVars
    <2> QED  BY <2>1 DEF AcceptsOutside, HasTxIndex
  <1>4. ASSUME NEW t \in Tx, NEW p \in Tx, ReacceptSupport(t, p) PROVE AcceptsOutside'
    <2>1. /\ t \in toAccept /\ accepting.tx = t /\ accepting.vtxPrev # {} /\ accepting'.tx = t
          /\ toAccept' = toAccept /\ dbTx' = dbTx
      BY <1>4 DEF ReacceptSupport, diskVars
    <2>2. accepting # NotAccepting
      BY <2>1 DEF NotAccepting
    <2> QED  BY <2>1, <2>2 DEF AcceptsOutside, HasTxIndex
  <1>5. CASE \E t \in Tx : ReacceptConfirmed(t) \/ ReacceptUnconfirmed(t)
    BY <1>1, <1>5 DEF ReacceptConfirmed, ReacceptUnconfirmed
  <1>6. CASE ReacceptRound
    BY <1>1, <1>6 DEF ReacceptRound, AcceptsOutside
  <1>7. CASE WalletRestart
    BY <1>1, <1>7 DEF WalletRestart
  <1>8. CASE UNCHANGED loadVars
    BY <1>1, <1>2, <1>8 DEF loadVars
  <1>9. LoadsFirst /\ CallOK
    BY DEF WalletInv
  <1> QED  BY <1>3, <1>4, <1>5, <1>6, <1>7, <1>8, <1>9, LoadingSteps

LEMMA RememberedNext ==
    ASSUME CoinbasesPayFirst, WalletInv, AcceptsOutside, IsLoading => Remembered,
           [NamesNext]_nameVars
    PROVE  IsLoading \/ IsLoading' => Remembered'
  <1>1. LoadsFirst /\ CallOK /\ WalletOK(wallet) /\ NodeInv
    BY DEF WalletInv
  <1>2. CASE WalletRestart
    <2>1. toAccept' = wallet'.txs
      BY <1>2 DEF WalletRestart
    <2> QED  BY <2>1 DEF Remembered
  <1>3. ASSUME UNCHANGED <<toAccept, hasMissingTx>>, IsLoading \/ IsLoading'
        PROVE  Remembered'
    <2>1. IsLoading /\ stage = "idle"
      BY <1>1, <1>3 DEF IsLoading, LoadsFirst
    <2>2. Grows /\ dbTx' = dbTx
      <3>1. Grows \/ \E t \in Tx : WalletDelete(t)
        BY <1>1, NamesStepKeeps
      <3>2. Grows
        BY <2>1, <3>1 DEF WalletDelete
      <3> QED  BY <2>1, <3>2, LoadingKeepsChain
    <2>3. ASSUME NEW o \in MyCoins, o[1] \in wallet'.txs \ toAccept', Forgotten(o)' PROVE FALSE
      <3>1. o \notin wallet.vfSpent
        BY <2>2, <2>3 DEF Grows, Forgotten
      <3>2. o[1] \in wallet.txs /\ Forgotten(o)
        BY <2>2, <2>3, <3>1, ForgottenBefore
      <3> QED  BY <1>3, <2>1, <2>3, <3>2 DEF Remembered
    <2> QED  BY <2>3 DEF Remembered
  <1>4. ASSUME NEW t \in Tx, ReacceptConfirmed(t) PROVE Remembered'
    <2> DEFINE found == IF IsCoinBase(t) /\ <<t, 1>> \in wallet.vfSpent THEN {}
                        ELSE {o \in MyCoins \ wallet.vfSpent : o[1] = t /\ o[2] \in dbTx[t].spent}
    <2>1. /\ IsLoading /\ toAccept' = toAccept \ {t} /\ dbTx' = dbTx
          /\ wallet' = [wallet EXCEPT !.vfSpent = @ \cup found]
      BY <1>4 DEF ReacceptConfirmed, IsLoading, vars, diskVars
    <2>2. wallet'.txs = wallet.txs /\ wallet'.vfSpent = wallet.vfSpent \cup found
      <3>1. wallet \in Wallets(wallet.vtxPrev, wallet.best)
        BY <1>1, WalletNow
      <3> HIDE DEF found
      <3> QED  BY <2>1, <3>1 DEF Wallets
    <2>3. ASSUME NEW o \in MyCoins, o[1] \in wallet'.txs \ toAccept', Forgotten(o)' PROVE FALSE
      <3>1. o \notin wallet.vfSpent /\ o \notin found /\ o[2] \in dbTx[o[1]].spent
        BY <2>1, <2>2, <2>3 DEF Forgotten
      <3>2. o[1] \in wallet.txs /\ Forgotten(o)
        BY <2>1, <2>3, <3>1, ForgottenBefore
      <3>3. o[1] = t
        BY <2>1, <2>3, <3>2 DEF Remembered
      <3>4. IsCoinBase(t) /\ <<t, 1>> \in wallet.vfSpent
        BY <3>1, <3>3
      <3>5. o = <<t, 1>>
        <4>1. o = <<o[1], o[2]>> /\ o \in Mine
          BY WalletAssumption DEF MyCoins
        <4> QED  BY <3>3, <3>4, <4>1 DEF CoinbasesPayFirst
      <3> QED  BY <3>1, <3>4, <3>5
    <2> QED  BY <2>3 DEF Remembered
  <1>5. ASSUME NEW t \in Tx, ReacceptUnconfirmed(t) PROVE Remembered'
    <2>1. /\ IsLoading /\ toAccept' = toAccept \ {t} /\ dbTx' = dbTx /\ wallet' = wallet
          /\ ~HasTxIndex(dbTx, t)
      <3>1. accepting.tx = t /\ t \in toAccept
        BY <1>5 DEF ReacceptUnconfirmed
      <3>2. accepting # NotAccepting
        BY <3>1, NoTxAssumption DEF NotAccepting
      <3> QED  BY <1>5, <3>1, <3>2 DEF ReacceptUnconfirmed, AcceptsOutside, IsLoading, diskVars
    <2>2. ASSUME NEW o \in MyCoins, o[1] \in wallet'.txs \ toAccept', Forgotten(o)' PROVE FALSE
      <3>1. o[1] \in wallet.txs /\ o \notin wallet.vfSpent /\ o[2] \in dbTx[o[1]].spent
        BY <2>1, <2>2 DEF Forgotten
      <3>2. HasTxIndex(dbTx, o[1])
        BY <3>1, SpentIsMine DEF WalletInv
      <3>3. o[1] \notin toAccept /\ Forgotten(o)
        BY <2>1, <2>2, <3>1, <3>2 DEF Forgotten
      <3> QED  BY <2>1, <3>1, <3>3 DEF Remembered
    <2> QED  BY <2>2 DEF Remembered
  <1>6. CASE ReacceptRound
    <2>1. IsLoading /\ toAccept = {} /\ dbTx' = dbTx
      BY <1>6 DEF ReacceptRound, IsLoading, vars, diskVars
    <2>2. Grows
      BY <1>1, <1>6, ReacceptKeeps DEF ReacceptWalletTransactions
    <2>3. ASSUME NEW o \in MyCoins, Forgotten(o)' PROVE FALSE
      <3>1. o \notin wallet.vfSpent
        BY <2>2, <2>3 DEF Grows, Forgotten
      <3>2. o[1] \in wallet.txs /\ Forgotten(o)
        BY <2>1, <2>3, <3>1, ForgottenBefore
      <3> QED  BY <2>1, <3>2 DEF Remembered
    <2> QED  BY <2>3 DEF Remembered
  <1>7. ASSUME \/ UNCHANGED loadVars
               \/ \E t, p \in Tx : AcceptWalletTransaction(t) \/ ReacceptSupport(t, p)
        PROVE  UNCHANGED <<toAccept, hasMissingTx>>
    BY <1>7 DEF loadVars, AcceptWalletTransaction, ReacceptSupport
  <1> QED  BY <1>1, <1>2, <1>3, <1>4, <1>5, <1>6, <1>7, LoadingSteps

(* ReloadRemembers: after a start the wallet knows which of the coins it    *)
(* pays with the block chain has spent, whatever deletetransaction or a     *)
(* crash has left, if no coinbase pays to it with other than its first output:    *)
(* ReacceptWalletTransactions takes a coinbase with its first output spent  *)
(* as a whole.                                                              *)
THEOREM RestartRemembers == CoinbasesPayFirst => (NamesSpec => ReloadRemembers)
  <1> SUFFICES ASSUME CoinbasesPayFirst PROVE NamesSpec => ReloadRemembers
    OBVIOUS
  <1> DEFINE I == AcceptsOutside /\ (IsLoading => Remembered)
  <1>1. NamesInit => I
    BY DEF NamesInit, WalletInit, IsLoading, AcceptsOutside
  <1>2. WalletInv /\ I /\ [NamesNext]_nameVars => I'
    BY RememberedNext, AcceptsNext
  <1>3. ASSUME WalletInv, I, [NamesNext]_nameVars, IsLoading, ~IsLoading', NEW o \in MyCoins
        PROVE  ~Forgotten(o)'
    <2>1. Remembered'
      BY <1>3, RememberedNext
    <2>2. toAccept' = {}
      BY <1>3 DEF IsLoading
    <2> QED  BY <2>1, <2>2 DEF Remembered, Forgotten
  <1>4. WalletInv /\ I /\ [NamesNext]_nameVars =>
            [IsLoading /\ ~IsLoading' => \A o \in MyCoins : ~Forgotten(o)']_walletAll
    BY <1>3
  <1> QED  BY <1>1, <1>2, <1>4, WalletInvariant, PTL DEF NamesSpec, ReloadRemembers

-----------------------------------------------------------------------------
(* What the RPC commands say of the life of a name, for every EXPIRE_UNIT   *)
(* and every height.                                                        *)

(* The growing expiration depth in closed form: what was last operated on   *)
(* up to height EXPIRE_UNIT lives EXPIRE_UNIT blocks, anything later three  *)
(* times as long; GetExpirationDepth itself depends on the chain height.    *)
LEMMA Lifetime ==
    ASSUME NEW p \in Nat, NEW h \in Nat, p <= h
    PROVE  NameUnexpired(p, h) <=>
               h < p + (IF p <= EXPIRE_UNIT THEN EXPIRE_UNIT ELSE 3 * EXPIRE_UNIT)
  BY RulesAssumption DEF NameUnexpired, GetExpirationDepth

LEMMA ClockTypeInvariant == ClockSpec => []ClockTypeOK
  <1>1. ClockInit => ClockTypeOK
    BY MaxHeightAssumption DEF ClockInit, ClockTypeOK
  <1>2. ClockTypeOK /\ [ClockNext]_clockVars => ClockTypeOK'
    BY MaxHeightAssumption DEF ClockTypeOK, ClockNext, clockVars, QuietBlock, FirstUpdate, Update
  <1> QED  BY <1>1, <1>2, PTL DEF ClockSpec

(* ExpiredStaysExpired: the change of the expiration depth at blocks        *)
(* 2 * EXPIRE_UNIT to 4 * EXPIRE_UNIT never revives an expired name.        *)
THEOREM NoRevival == ClockSpec => ExpiredStaysExpired
  <1>1. ClockTypeOK /\ ClockTypeOK' /\ [ClockNext]_clockVars =>
            [Expired /\ nNameHeight' = nNameHeight => Expired']_clockVars
    <2> SUFFICES ASSUME ClockTypeOK, ClockTypeOK', [ClockNext]_clockVars,
                        Expired, nNameHeight' = nNameHeight
                 PROVE  Expired'
      OBVIOUS
    <2>1. /\ nNameHeight \in Nat /\ nBestHeight \in Nat /\ nBestHeight' \in Nat
          /\ nNameHeight <= nBestHeight /\ nBestHeight <= nBestHeight'
      BY MaxHeightAssumption
         DEF ClockTypeOK, Expired, ClockNext, clockVars, QuietBlock, FirstUpdate, Update
    <2>2. ~NameUnexpired(nNameHeight, nBestHeight)
      BY DEF Expired
    <2>3. ~NameUnexpired(nNameHeight, nBestHeight')
      BY <2>1, <2>2, Lifetime, RulesAssumption
    <2> QED  BY <2>1, <2>3 DEF Expired
  <1> QED  BY <1>1, ClockTypeInvariant, PTL DEF ClockSpec, ExpiredStaysExpired

(* FreeForRpcIsFree: GetTxOfName never calls a name free that the next      *)
(* block would still protect.                                               *)
THEOREM RpcIsConservative == ClockSpec => []FreeForRpcIsFree
  <1>1. ClockTypeOK => FreeForRpcIsFree
    BY RulesAssumption, MaxHeightAssumption
       DEF ClockTypeOK, FreeForRpcIsFree, ActiveForRpc, NameUnexpired, GetExpirationDepth
  <1> QED  BY <1>1, ClockTypeInvariant, PTL

(* DisplayedExpiry: "expires_in" is right for every name but one last       *)
(* operated on at height EXPIRE_UNIT exactly.                               *)
THEOREM DisplayIsRight == ClockSpec => []DisplayedExpiry
  <1>1. ClockTypeOK => DisplayedExpiry
    <2> SUFFICES ASSUME ClockTypeOK, nNameHeight >= 0, nNameHeight # EXPIRE_UNIT
                 PROVE  expires_in <= 0 <=> Expired
      BY DEF DisplayedExpiry
    <2>1. nNameHeight \in Nat /\ nBestHeight \in Nat /\ nNameHeight <= nBestHeight
      BY MaxHeightAssumption DEF ClockTypeOK
    <2>2. NameUnexpired(nNameHeight, nBestHeight) <=>
              nBestHeight < nNameHeight + (IF nNameHeight <= EXPIRE_UNIT
                                           THEN EXPIRE_UNIT ELSE 3 * EXPIRE_UNIT)
      BY <2>1, Lifetime
    <2> QED  BY <2>1, <2>2, RulesAssumption
             DEF expires_in, Expired, GetDisplayExpirationDepth
  <1> QED  BY <1>1, ClockTypeInvariant, PTL

-----------------------------------------------------------------------------
(* The network fee.                                                         *)

(* GetNetworkFee of the height the speed-up makes of a block's height. *)
FeeAt(h) ==
    LET nRes == HalvedFee[h \div FEE_PERIOD]
    IN  IF h \div FEE_PERIOD >= 60 THEN 0
        ELSE nRes - (nRes \div (2 * FEE_PERIOD)) * (h % FEE_PERIOD)

(* The period a height is in, and its place in it. *)
LEMMA PeriodOfHeight ==
    ASSUME NEW h \in Nat
    PROVE  /\ h \div FEE_PERIOD \in Nat /\ h % FEE_PERIOD \in 0 .. FEE_PERIOD - 1
           /\ h = FEE_PERIOD * (h \div FEE_PERIOD) + (h % FEE_PERIOD)
  BY RulesAssumption

(* The next height is in the same period or begins the next. *)
LEMMA PeriodStep ==
    ASSUME NEW h \in Nat
    PROVE  IF h % FEE_PERIOD = FEE_PERIOD - 1 THEN (h + 1) \div FEE_PERIOD = h \div FEE_PERIOD + 1 /\ (h + 1) % FEE_PERIOD = 0
           ELSE (h + 1) \div FEE_PERIOD = h \div FEE_PERIOD /\ (h + 1) % FEE_PERIOD = (h % FEE_PERIOD) + 1
  BY RulesAssumption

(* Over a whole period the fee falls by no more than half. *)
LEMMA FeeSlope ==
    ASSUME NEW r \in Nat, NEW m \in 0 .. FEE_PERIOD
    PROVE  /\ r \div (2 * FEE_PERIOD) \in Nat
           /\ 0 <= (r \div (2 * FEE_PERIOD)) * m
           /\ (r \div (2 * FEE_PERIOD)) * m <= r - (r \div 2)
  BY RulesAssumption

(* The fee of each period is half that of the period before. *)
LEMMA HalvedFees ==
    \A k \in 0..60 : HalvedFee[k] \in Nat /\ (k > 0 => HalvedFee[k] = HalvedFee[k - 1] \div 2)
  <1>1. HalvedFee = CHOOSE f : Halves(FEE_START, f)
    BY DEF HalvedFee, Halves
  <1>2. FEE_START \in Nat
    BY RulesAssumption
  <1>3. /\ HalvedFee \in [Nat -> Nat]
        /\ \A k \in Nat \ {0} : HalvedFee[k] = HalvedFee[k - 1] \div 2
    BY <1>1, <1>2, Halving
  <1> QED  BY <1>3

(* The fee of a height in period q at place m. *)
LEMMA FeeIs ==
    ASSUME NEW h \in Nat, NEW q \in Nat, NEW m \in Nat, h \div FEE_PERIOD = q, h % FEE_PERIOD = m
    PROVE  FeeAt(h) = IF q >= 60 THEN 0 ELSE HalvedFee[q] - (HalvedFee[q] \div (2 * FEE_PERIOD)) * m
  BY DEF FeeAt

(* From one height to the next the fee never rises. *)
LEMMA FeeStep ==
    ASSUME NEW h \in Nat
    PROVE  0 <= FeeAt(h) /\ FeeAt(h) \in Int /\ FeeAt(h + 1) <= FeeAt(h)
  <1>1. PICK q \in Nat, m \in 0 .. FEE_PERIOD - 1 : h \div FEE_PERIOD = q /\ h % FEE_PERIOD = m
    BY PeriodOfHeight, RulesAssumption
  <1>2. m \in Nat /\ FEE_PERIOD \in Nat \ {0} /\ h + 1 \in Nat /\ q + 1 \in Nat /\ m + 1 \in Nat
    BY <1>1, RulesAssumption
  <1>3. CASE q >= 60
    <2>1. FeeAt(h) = 0
      BY <1>1, <1>2, <1>3, FeeIs
    <2>2. PICK k \in Nat, j \in 0 .. FEE_PERIOD - 1 : (h + 1) \div FEE_PERIOD = k /\ (h + 1) % FEE_PERIOD = j
      BY <1>2, PeriodOfHeight
    <2>3. k >= 60 /\ j \in Nat
      BY <1>1, <1>2, <1>3, <2>2, PeriodStep
    <2>4. FeeAt(h + 1) = 0
      BY <1>2, <2>2, <2>3, FeeIs
    <2> QED  BY <2>1, <2>4
  <1>4. CASE ~(q >= 60)
    <2>1. PICK r \in Nat : HalvedFee[q] = r
      <3>1. q \in 0 .. 60
        BY <1>1, <1>4
      <3> QED  BY <3>1, HalvedFees
    <2>2. PICK s \in Nat : s = r \div (2 * FEE_PERIOD) /\ 0 <= s * m /\ s * m <= r - (r \div 2)
      <3>1. m \in 0 .. FEE_PERIOD
        BY <1>1, <1>2
      <3>2. /\ r \div (2 * FEE_PERIOD) \in Nat
            /\ 0 <= (r \div (2 * FEE_PERIOD)) * m
            /\ (r \div (2 * FEE_PERIOD)) * m <= r - (r \div 2)
        BY <3>1, <2>1, FeeSlope
      <3> DEFINE x == r \div (2 * FEE_PERIOD)
      <3> HIDE DEF x
      <3>3. x \in Nat /\ x = r \div (2 * FEE_PERIOD) /\ 0 <= x * m /\ x * m <= r - (r \div 2)
        BY <3>2 DEF x
      <3> QED  BY <3>3
    <2>3. FeeAt(h) = r - s * m
      <3>1. FeeAt(h) = HalvedFee[q] - (HalvedFee[q] \div (2 * FEE_PERIOD)) * m
        BY <1>1, <1>2, <1>4, FeeIs
      <3>2. s = HalvedFee[q] \div (2 * FEE_PERIOD)
        BY <2>1, <2>2
      <3> QED  BY <2>1, <3>1, <3>2
    <2>4. r \div 2 \in Nat /\ s * m \in Nat
      BY <1>2, <2>2
    <2>5. 0 <= FeeAt(h) /\ FeeAt(h) \in Int /\ FeeAt(h) >= r \div 2
      BY <2>2, <2>3, <2>4
    <2>6. CASE m = FEE_PERIOD - 1
      <3>1. (h + 1) \div FEE_PERIOD = q + 1 /\ (h + 1) % FEE_PERIOD = 0
        BY <1>1, <2>6, PeriodStep
      <3>2. CASE q + 1 >= 60
        <4>1. FeeAt(h + 1) = 0
          BY <1>2, <3>1, <3>2, FeeIs
        <4> QED  BY <4>1, <2>5
      <3>3. CASE ~(q + 1 >= 60)
        <4>1. q + 1 \in 0 .. 60 /\ q + 1 > 0 /\ (q + 1) - 1 = q
          BY <3>3, <1>1
        <4>2. HalvedFee[q + 1] = r \div 2 /\ HalvedFee[q + 1] \in Nat
          BY <4>1, <2>1, HalvedFees
        <4>3. PICK z \in Nat : z = r \div 2 /\ HalvedFee[q + 1] = z
          BY <4>2
        <4>4. PICK y \in Nat : y = z \div (2 * FEE_PERIOD)
          <5>1. 0 \in 0 .. FEE_PERIOD
            BY RulesAssumption
          <5>2. z \div (2 * FEE_PERIOD) \in Nat
            BY <5>1, FeeSlope
          <5> QED  BY <5>2
        <4>5. FeeAt(h + 1) = z - y * 0
          <5>1. h + 1 \in Nat /\ q + 1 \in Nat
            BY <1>1
          <5>2. FeeAt(h + 1) = HalvedFee[q + 1] - (HalvedFee[q + 1] \div (2 * FEE_PERIOD)) * 0
            BY <3>1, <3>3, <5>1, FeeIs
          <5> QED  BY <4>3, <4>4, <5>2
        <4>6. FeeAt(h + 1) = z
          BY <4>5
        <4> QED  BY <2>5, <4>3, <4>6
      <3> QED  BY <3>2, <3>3
    <2>7. CASE m # FEE_PERIOD - 1
      <3>1. (h + 1) \div FEE_PERIOD = q /\ (h + 1) % FEE_PERIOD = m + 1
        BY <1>1, <2>7, PeriodStep
      <3>2. FeeAt(h + 1) = r - s * (m + 1)
        BY <1>2, <1>4, <3>1, <2>1, <2>2, FeeIs
      <3>3. s * (m + 1) = s * m + s
        BY <1>2
      <3> QED  BY <2>3, <2>4, <2>5, <3>2, <3>3
    <2> QED  BY <2>5, <2>6, <2>7
  <1> QED  BY <1>3, <1>4

(* One block moves the height of the fee by one, or by four once the        *)
(* speed-up has begun.                                                      *)
LEMMA FeeHeightStep ==
    ASSUME NEW n \in Nat
    PROVE  /\ FeeHeight(n) \in Nat
           /\ FeeHeight(n + 1) \in {FeeHeight(n) + 1, FeeHeight(n) + 4}
  <1>1. PICK u \in Nat : u = 2 * EXPIRE_UNIT
    BY RulesAssumption
  <1>2. CASE n >= u
    BY <1>1, <1>2 DEF FeeHeight
  <1>3. CASE n < u /\ n + 1 >= u
    BY <1>1, <1>3 DEF FeeHeight
  <1>4. CASE n + 1 < u
    BY <1>1, <1>4 DEF FeeHeight
  <1> QED  BY <1>1, <1>2, <1>3, <1>4

(* From one height to the next the network fee falls or stays. *)
LEMMA FeeFalls ==
    ASSUME NEW n \in Nat
    PROVE  /\ 0 <= GetNetworkFee(n) /\ GetNetworkFee(n) \in Int
           /\ GetNetworkFee(n + 1) <= GetNetworkFee(n)
  <1>1. GetNetworkFee(n) = FeeAt(FeeHeight(n)) /\ GetNetworkFee(n + 1) = FeeAt(FeeHeight(n + 1))
    BY DEF GetNetworkFee, FeeAt
  <1>2. PICK h \in Nat : h = FeeHeight(n)
    BY FeeHeightStep
  <1>3. h + 1 \in Nat /\ h + 2 \in Nat /\ h + 3 \in Nat
        /\ (h + 1) + 1 = h + 2 /\ (h + 2) + 1 = h + 3 /\ (h + 3) + 1 = h + 4
    OBVIOUS
  <1>4. /\ 0 <= FeeAt(h) /\ FeeAt(h) \in Int /\ FeeAt(h + 1) <= FeeAt(h)
        /\ FeeAt(h + 1) \in Int /\ FeeAt(h + 2) <= FeeAt(h + 1)
        /\ FeeAt(h + 2) \in Int /\ FeeAt(h + 3) <= FeeAt(h + 2)
        /\ FeeAt(h + 3) \in Int /\ FeeAt(h + 4) <= FeeAt(h + 3)
    BY <1>3, FeeStep
  <1>5. h + 4 \in Nat /\ FeeAt(h + 4) \in Int
    BY FeeStep
  <1>6. FeeHeight(n + 1) = h + 1 \/ FeeHeight(n + 1) = h + 4
    BY <1>2, FeeHeightStep
  <1> QED  BY <1>1, <1>2, <1>4, <1>5, <1>6

(* NetworkFeeNeverRises: the fee falls within a period by at most half of   *)
(* what it starts from, so the halving at the next period never meets a     *)
(* lower fee, and four times the speed only makes four such steps.          *)
THEOREM FeeNeverRises == ClockSpec => NetworkFeeNeverRises
  <1>1. ClockTypeOK /\ [ClockNext]_clockVars =>
            [0 <= GetNetworkFee(nBestHeight') /\ GetNetworkFee(nBestHeight') <= GetNetworkFee(nBestHeight)]_clockVars
    <2> SUFFICES ASSUME ClockTypeOK, ClockNext
                 PROVE  /\ 0 <= GetNetworkFee(nBestHeight')
                        /\ GetNetworkFee(nBestHeight') <= GetNetworkFee(nBestHeight)
      OBVIOUS
    <2>1. nBestHeight \in Nat /\ nBestHeight' = nBestHeight + 1 /\ nBestHeight + 1 \in Nat
      BY MaxHeightAssumption DEF ClockTypeOK, ClockNext, QuietBlock, FirstUpdate, Update
    <2>2. PICK n \in Nat : n = nBestHeight
      BY <2>1
    <2> QED  BY <2>1, <2>2, FeeFalls
  <1> QED  BY <1>1, ClockTypeInvariant, PTL DEF ClockSpec, NetworkFeeNeverRises
-----------------------------------------------------------------------------
(***************************************************************************)
(* What CreateNewBlock collects (TemplateConnects).  ConnectInputs has     *)
(* accepted each transaction with mapTestPool on top of the databases and  *)
(* at the height of the tip; ConnectBlock will see it one height later, at *)
(* its place in the block, with the entries of the name index that the     *)
(* transactions before it have written.  The two views are compared        *)
(* transaction by transaction.                                             *)
(***************************************************************************)

(* The view of a block b that holds the transactions s, on top of the       *)
(* databases.                                                               *)

ViewWith(t, b, i, v) ==
    [tv |-> TxConnected(t, b, i, v.tv), nv |-> NameConnected(t, b, i, v.tv, v.nv),
     nFees |-> v.nFees + TxFee(t),
     ok |-> /\ v.ok
            /\ InputsOK(t, b, v.tv, "block", {})
            /\ HookConnectInputs(t, b, v.tv, v.nv, "block", {}, {})
            /\ TxFee(t) >= 0]

StartView(tv, nv) == [tv |-> tv, nv |-> nv, nFees |-> 0, ok |-> TRUE]

IsViews(tv, nv, s, b, g) ==
    g = [i \in 0 .. Len(s) |->
            IF i = 0 THEN StartView(tv, nv) ELSE ViewWith(s[i], b, i + 1, g[i - 1])]

Views(tv, nv, s, b) == CHOOSE g : IsViews(tv, nv, s, b, g)

ViewAfter(tv, nv, s, b) == Views(tv, nv, s, b)[Len(s)]

LEMMA ConnectingIs ==
    ASSUME NEW w, NEW b
    PROVE  Connecting(w, b) = ViewAfter(dbTx, dbName, w.txs, b)
  BY DEF Connecting, ViewAfter, Views, IsViews, ViewWith, StartView

(* The values such a view can have, from a name index nv. *)
NameIndexes(nv) == {nv} \cup UNION {[D -> Seq(CNameIndex)] : D \in SUBSET Name}

ViewSet(nv) == [tv : TxIndexType, nv : NameIndexes(nv), nFees : Int, ok : BOOLEAN]

LEMMA NameIndexesType ==
    ASSUME NEW nv, NameIndexType(nv), NEW x \in NameIndexes(nv)
    PROVE  NameIndexType(x)
  BY DEF NameIndexes, NameIndexType

LEMMA NameConnectedIn ==
    ASSUME NEW nv, NameIndexType(nv), NEW x \in NameIndexes(nv), NEW tv,
           NEW t \in Tx, NEW b \in Block, NEW i \in Nat, CheckTransaction(t)
    PROVE  NameConnected(t, b, i, tv, x) \in NameIndexes(nv)
  <1> DEFINE rec == [nHeight |-> nHeight[b], pos |-> PosOf(b, i)]
             n == NameOut(t).name
             s == Append(VtxPos(x, n), rec)
  <1>1. rec \in CNameIndex
    BY BlockTree DEF CNameIndex, PosOf
  <1>2. NameIndexType(x)
    BY NameIndexesType
  <1>3. CASE WritesName(t, tv, x)
    <2>1. n \in Name
      BY <1>3, NameOutType DEF WritesName, TxOut, CheckTransaction
    <2>2. s \in Seq(CNameIndex)
      BY <1>1, <1>2, VtxPosType
    <2>3. WriteName(x, n, s) = [m \in DOMAIN x \cup {n} |-> IF m = n THEN s ELSE x[m]]
      BY DEF WriteName
    <2>4. DOMAIN x \cup {n} \in SUBSET Name
      BY <1>2, <2>1 DEF NameIndexType
    <2> HIDE DEF n, s
    <2>5. WriteName(x, n, s) \in [DOMAIN x \cup {n} -> Seq(CNameIndex)]
      BY <1>2, <2>2, <2>3 DEF NameIndexType
    <2>6. NameConnected(t, b, i, tv, x) = WriteName(x, n, s)
      BY <1>3 DEF NameConnected, n, s
    <2> QED  BY <2>4, <2>5, <2>6 DEF NameIndexes
  <1>4. CASE ~WritesName(t, tv, x)
    BY <1>4 DEF NameConnected
  <1> QED  BY <1>3, <1>4

LEMMA ViewWithType ==
    ASSUME NEW nv, NameIndexType(nv), NEW t \in Tx, CheckTransaction(t), NEW b \in Block,
           NEW i \in Nat, NEW v \in ViewSet(nv)
    PROVE  ViewWith(t, b, i, v) \in ViewSet(nv)
  <1> DEFINE tw == TxConnected(t, b, i, v.tv)
             nw == NameConnected(t, b, i, v.tv, v.nv)
             m  == v.nFees + TxFee(t)
             c  == /\ v.ok
                   /\ InputsOK(t, b, v.tv, "block", {})
                   /\ HookConnectInputs(t, b, v.tv, v.nv, "block", {}, {})
                   /\ TxFee(t) >= 0
  <1>1. v.tv \in TxIndexType /\ v.nv \in NameIndexes(nv) /\ v.nFees \in Int
    BY DEF ViewSet
  <1>2. tw \in TxIndexType
    BY <1>1, ConnectedIsRecorded DEF Recorded
  <1>3. nw \in NameIndexes(nv)
    BY <1>1, NameConnectedIn
  <1>4. m \in Int
    BY <1>1, Values DEF TxFee
  <1>5. c \in BOOLEAN
    BY Zenon
  <1>6. ViewWith(t, b, i, v) = [tv |-> tw, nv |-> nw, nFees |-> m, ok |-> c]
    BY DEF ViewWith
  <1> HIDE DEF tw, nw, m, c
  <1> QED  BY <1>2, <1>3, <1>4, <1>5, <1>6 DEF ViewSet

Checked(s) == s \in Seq(Tx) /\ \A i \in 1 .. Len(s) : CheckTransaction(s[i])

(* The recursion has a solution, and it takes its values in ViewSet. *)
LEMMA ViewsExist ==
    ASSUME NEW tv \in TxIndexType, NEW nv, NameIndexType(nv), NEW s, Checked(s), NEW b \in Block
    PROVE  IsViews(tv, nv, s, b, Views(tv, nv, s, b))
  <1> DEFINE N    == Len(s)
             B    == 0 .. N
             V    == ViewSet(nv)
             p    == [i \in B |-> i - 1]
             h    == [i \in B |-> i]
             init == [i \in B |-> StartView(tv, nv)]
             step == [x \in B \X V |-> IF x[1] = 0 THEN x[2] ELSE ViewWith(s[x[1]], b, x[1] + 1, x[2])]
  <1>1. N \in Nat /\ s \in Seq(Tx)
    BY DEF Checked
  <1>2. Descends(B, {0}, p, h)
    BY <1>1 DEF Descends
  <1>3. StartView(tv, nv) \in V
    BY DEF StartView, ViewSet, NameIndexes
  <1>4. ASSUME NEW i \in B, i # 0, NEW v \in V PROVE ViewWith(s[i], b, i + 1, v) \in V
    <2>1. i \in 1 .. Len(s) /\ i + 1 \in Nat
      BY <1>1, <1>4
    <2>2. s[i] \in Tx /\ CheckTransaction(s[i])
      BY <1>1, <2>1 DEF Checked
    <2> QED  BY <2>1, <2>2, ViewWithType
  <1> HIDE DEF V
  <1>5. init \in [B -> V] /\ step \in [B \X V -> V]
    BY <1>3, <1>4
  <1>6. PICK g \in [B -> V] : Recurs(B, {0}, p, init, step, g)
    <2> HIDE DEF B, p, h, init, step
    <2> QED  BY <1>2, <1>5, ForestRecursion
  <1>7. ASSUME NEW i \in B
        PROVE  g[i] = IF i = 0 THEN StartView(tv, nv) ELSE ViewWith(s[i], b, i + 1, g[i - 1])
    <2>1. g[i] = IF i \in {0} THEN init[i] ELSE step[<<i, g[p[i]]>>]
      BY <1>6 DEF Recurs
    <2>2. p[i] = i - 1 /\ (i # 0 => i - 1 \in B)
      BY <1>1
    <2>3. i # 0 => g[i - 1] \in V
      <3> HIDE DEF B
      <3> QED  BY <1>6, <2>2
    <2> HIDE DEF p, N
    <2> QED  BY <2>1, <2>2, <2>3
  <1>8. IsViews(tv, nv, s, b, g)
    BY <1>6, <1>7 DEF IsViews
  <1> QED  BY <1>8 DEF Views

(* One transaction more. *)
LEMMA ViewOfAppend ==
    ASSUME NEW tv \in TxIndexType, NEW nv, NameIndexType(nv), NEW s, Checked(s), NEW b \in Block,
           NEW t \in Tx, CheckTransaction(t)
    PROVE  ViewAfter(tv, nv, Append(s, t), b) = ViewWith(t, b, Len(s) + 2, ViewAfter(tv, nv, s, b))
  <1> DEFINE r == Append(s, t)
             N == Len(s)
             f == Views(tv, nv, s, b)
             g == Views(tv, nv, r, b)
             S == {i \in Nat : i <= N => g[i] = f[i]}
  <1>1. /\ s \in Seq(Tx) /\ r \in Seq(Tx) /\ N \in Nat /\ Len(r) = N + 1 /\ r[N + 1] = t
        /\ \A i \in 1 .. N : r[i] = s[i]
    BY DEF Checked
  <1>2. Checked(r)
    BY <1>1 DEF Checked
  <1>3. IsViews(tv, nv, s, b, f)
    BY ViewsExist
  <1>4. IsViews(tv, nv, r, b, g)
    <2> HIDE DEF r
    <2> QED  BY <1>2, ViewsExist
  <1> HIDE DEF f, g, r
  <1>5. ASSUME NEW i \in 0 .. N
        PROVE  f[i] = IF i = 0 THEN StartView(tv, nv) ELSE ViewWith(s[i], b, i + 1, f[i - 1])
    BY <1>3 DEF IsViews
  <1>6. ASSUME NEW i \in 0 .. (N + 1)
        PROVE  g[i] = IF i = 0 THEN StartView(tv, nv) ELSE ViewWith(r[i], b, i + 1, g[i - 1])
    BY <1>1, <1>4 DEF IsViews
  <1>7. 0 \in S
    <2>1. 0 \in 0 .. N /\ 0 \in 0 .. (N + 1)
      BY <1>1
    <2> QED  BY <1>5, <1>6, <2>1
  <1>8. ASSUME NEW i \in Nat, i \in S PROVE i + 1 \in S
    <2> SUFFICES ASSUME i + 1 <= N PROVE g[i + 1] = f[i + 1]
      OBVIOUS
    <2>1. /\ i + 1 \in 0 .. N /\ i + 1 \in 0 .. (N + 1) /\ i + 1 \in 1 .. N
          /\ i + 1 # 0 /\ (i + 1) - 1 = i /\ i <= N
      BY <1>1
    <2>2. f[i + 1] = ViewWith(s[i + 1], b, (i + 1) + 1, f[i])
      BY <1>5, <2>1
    <2>3. g[i + 1] = ViewWith(r[i + 1], b, (i + 1) + 1, g[i])
      BY <1>6, <2>1
    <2> QED  BY <1>1, <1>8, <2>1, <2>2, <2>3
  <1>9. Nat \subseteq S
    <2> HIDE DEF S
    <2> QED  BY <1>7, <1>8, SetInduction
  <1>10. g[N] = f[N]
    BY <1>1, <1>9
  <1>11. N + 1 \in 0 .. (N + 1) /\ N + 1 # 0 /\ (N + 1) - 1 = N /\ (N + 1) + 1 = N + 2
    BY <1>1
  <1>12. g[N + 1] = ViewWith(t, b, N + 2, f[N])
    BY <1>1, <1>6, <1>10, <1>11
  <1> QED  BY <1>1, <1>12 DEF ViewAfter, f, g, r

LEMMA ViewOfNone ==
    ASSUME NEW tv \in TxIndexType, NEW nv, NameIndexType(nv), NEW b \in Block
    PROVE  ViewAfter(tv, nv, <<>>, b) = StartView(tv, nv)
  <1>1. Checked(<<>>) /\ Len(<<>>) = 0 /\ 0 \in 0 .. 0
    BY DEF Checked
  <1>2. IsViews(tv, nv, <<>>, b, Views(tv, nv, <<>>, b))
    BY <1>1, ViewsExist
  <1> QED  BY <1>1, <1>2 DEF ViewAfter, IsViews

(* The inputs and outputs of a transaction that the hook has let through,   *)
(* in whatever mode: one that spends a name output operates on a name.      *)
NameShape(t) ==
    NameInputs(t) # {} =>
        /\ isNameTx[t] /\ DecodeNameTx(t) /\ NameInputs(t) = {NameInput(t)}
        /\ \/ NameOut(t).op = "firstupdate" /\ Out(NameInput(t)).op = "new"
           \/ NameOut(t).op = "update" /\ Out(NameInput(t)).op \in {"firstupdate", "update"}

LEMMA HookShape ==
    ASSUME NEW t \in Tx, NEW b, NEW tv, NEW nv, NEW mode, NEW P, NEW M,
           HookConnectInputs(t, b, tv, nv, mode, P, M)
    PROVE  NameShape(t)
  <1> SUFFICES ASSUME NameInputs(t) # {}
               PROVE  /\ isNameTx[t] /\ DecodeNameTx(t) /\ NameInputs(t) = {NameInput(t)}
                      /\ \/ NameOut(t).op = "firstupdate" /\ Out(NameInput(t)).op = "new"
                         \/ /\ NameOut(t).op = "update"
                            /\ Out(NameInput(t)).op \in {"firstupdate", "update"}
    BY DEF NameShape
  <1>1. NameInput(t) \in NameInputs(t)
    BY DEF NameInput, NameInputs
  <1>2. /\ \A o1, o2 \in NameInputs(t) : o1 = o2
        /\ isNameTx[t] /\ DecodeNameTx(t)
        /\ \/ /\ NameOut(t).op = "firstupdate"
              /\ CheckFirstUpdate(t, b, tv, nv, mode, P, M)
           \/ NameOut(t).op = "update" /\ CheckNameUpdate(t, b, tv, mode)
    BY DEF HookConnectInputs, CheckNameNew
  <1>3. NameInputs(t) = {NameInput(t)}
    BY <1>1, <1>2
  <1>4. \/ NameOut(t).op = "firstupdate" /\ Out(NameInput(t)).op = "new"
        \/ NameOut(t).op = "update" /\ Out(NameInput(t)).op \in {"firstupdate", "update"}
    BY <1>2 DEF CheckFirstUpdate, CheckNameUpdate
  <1> QED  BY <1>2, <1>3, <1>4

(* What a step adds to the pool has been checked, or was in a block of the  *)
(* old branch; what it adds to the list of those is in such a block.        *)
LEMMA PoolGrowth ==
    ASSUME NodeInv, [Next]_vars
    PROVE  /\ \A t \in mapTransactions' \ mapTransactions :
                 /\ t \in Tx /\ PoolAdmits(t)
                 /\ CheckInputs(t) \/ (vResurrect # <<>> /\ t = Head(vResurrect))
           /\ \/ vResurrect' \in {vResurrect, <<>>}
              \/ vResurrect # <<>> /\ vResurrect' = Tail(vResurrect)
              \/ DisconnectBlock
  <1> USE DEF diskVars, txnVars, chainVars, viewVars, jobVars, poolVars
  <1> DEFINE Kept == mapTransactions' \subseteq mapTransactions /\ vResurrect' \in {vResurrect, <<>>}
  <1>1. ASSUME NEW b \in Block,
               \/ ProcessBlock(b) \/ ProcessOrphan(b)
               \/ ProcessBlockOrphan(b) \/ ProcessBlockRefused(b)
        PROVE  Kept
    BY <1>1 DEF ProcessBlock, ProcessOrphan, ProcessBlockOrphan, ProcessBlockRefused,
                AcceptBlock, RejectBlock, vars
  <1>2. ASSUME NEW t \in Tx, AcceptToMemoryPool(t)
        PROVE  /\ mapTransactions' = mapTransactions \cup {t} /\ vResurrect' = vResurrect
               /\ PoolAdmits(t) /\ CheckInputs(t)
    BY <1>2 DEF AcceptToMemoryPool, AddToMemoryPool
  <1>3. ASSUME NEW t \in Tx, deletetransaction(t) PROVE Kept
    BY <1>3 DEF deletetransaction, RemoveFromMemoryPool
  <1>4. CASE NextInQueue \/ ProcessBlockDone \/ DisconnectInputs \/ ConnectNext \/ ConnectInputs
             \/ ConnectBlock \/ TxnCommit \/ ResurrectDone \/ NewBestBlock \/ UNCHANGED vars
    BY <1>4 DEF NextInQueue, ProcessBlockDone, DisconnectInputs, ConnectNext, ConnectInputs,
                ConnectBlock, TxnCommit, ResurrectDone, NewBestBlock, vars
  <1>5. CASE DisconnectFails \/ ConnectInputsFails \/ ConnectBlockFails \/ TxnCommitFails
    BY <1>5 DEF DisconnectFails, ConnectInputsFails, ConnectBlockFails, TxnCommitFails, Abort
  <1>6. CASE DeleteTx
    BY <1>6 DEF DeleteTx, RemoveFromMemoryPool
  <1>7. CASE Restart
    BY <1>7 DEF Restart
  <1>8. CASE DisconnectBlock
    BY <1>8 DEF DisconnectBlock
  <1>9. CASE ResurrectTx
    <2>1. vResurrect \in Seq(Tx) /\ vResurrect # <<>> /\ vResurrect' = Tail(vResurrect)
      BY <1>9 DEF ResurrectTx, NodeInv, TypeOK, JobType
    <2>2. Head(vResurrect) \in Tx
      BY <2>1
    <2>3. \/ mapTransactions' = mapTransactions
          \/ /\ PoolAdmits(Head(vResurrect))
             /\ mapTransactions' = mapTransactions \cup {Head(vResurrect)}
      BY <1>9 DEF ResurrectTx, AddToMemoryPool
    <2> QED  BY <2>1, <2>2, <2>3
  <1>10. CASE Work
    BY <1>1, <1>4, <1>5, <1>6, <1>8, <1>9, <1>10 DEF Work
  <1>11. CASE Input
    BY <1>1, <1>2, <1>3, <1>11 DEF Input
  <1> QED  BY <1>4, <1>5, <1>7, <1>10, <1>11 DEF Next, Fault

PoolShaped ==
    /\ \A t \in mapTransactions : CheckTransaction(t) /\ ~IsCoinBase(t) /\ NameShape(t)
    /\ \A t \in ToSet(vResurrect) : NameShape(t)
    /\ \A t \in Tx : HasTxIndex(txTx, t) \/ HasTxIndex(dbTx, t) => NameShape(t)

LEMMA PoolShapedNext ==
    ASSUME NodeInv, PoolShaped, [Next]_vars
    PROVE  PoolShaped'
  <1>1. /\ vResurrect \in Seq(Tx) /\ txTx \in TxIndexType /\ mapTransactions \subseteq Tx
    BY DEF NodeInv, TypeOK, JobType, StoreType, PoolType
  <1>2. \A t \in Tx : HasTxIndex(txTx', t) \/ HasTxIndex(dbTx', t) => NameShape(t)
    <2>1. CASE ConnectInputs
      <3> DEFINE t == vtx[tip][nTx + 1]
                 tw == TxConnected(t, tip, nTx + 1, txTx)
      <3>1. tip \in Block /\ nTx \in Nat /\ Connectable(txTx, txName, tip, nTx) /\ txTx' = tw
            /\ dbTx' = dbTx /\ nTx + 1 \in Nat
        BY <2>1, ConnectInputsFacts
      <3>2. t \in Tx
        BY <3>1, TxAssumption DEF Connectable
      <3>3. NameShape(t)
        <4>1. CASE IsCoinBase(t)
          BY <4>1 DEF IsCoinBase, NameShape, NameInputs
        <4>2. CASE ~IsCoinBase(t)
          <5>1. HookConnectInputs(t, tip, txTx, txName, "block", {}, {})
            BY <3>1, <4>2 DEF Connectable
          <5> HIDE DEF t
          <5> QED  BY <3>2, <5>1, HookShape
        <4> QED  BY <4>1, <4>2
      <3> HIDE DEF t
      <3>4. Recorded(tw, txTx, t, <<tip, nTx + 1>>)
        BY <1>1, <3>1, <3>2, ConnectedIsRecorded
      <3> HIDE DEF tw
      <3> QED  BY <3>1, <3>3, <3>4 DEF PoolShaped, Recorded
    <2>2. CASE DisconnectInputs
      <3> DEFINE t == vtx[tip][nTx]
      <3>1. txTx' = TxDisconnected(t, txTx) /\ dbTx' = dbTx
        BY <2>2, DisconnectInputsFacts
      <3>2. \A u \in Tx : HasTxIndex(txTx', u) => HasTxIndex(txTx, u)
        <4> TAKE u \in Tx
        <4>1. CASE u = t
          <5>1. txTx'[u].pos = NoPos
            BY <3>1, <4>1 DEF TxDisconnected
          <5> QED  BY <5>1 DEF HasTxIndex
        <4>2. CASE u # t
          <5> DEFINE ks == {o[2] : o \in {p \in vin[t] : p[1] = u}}
          <5>1. txTx'[u] = [txTx[u] EXCEPT !.spent = @ \ ks]
            BY <3>1, <4>2 DEF TxDisconnected
          <5> HIDE DEF ks
          <5>2. txTx'[u].pos = txTx[u].pos
            BY <1>1, <5>1, IndexRecord
          <5> QED  BY <5>2 DEF HasTxIndex
        <4> QED  BY <4>1, <4>2
      <3> QED  BY <3>1, <3>2 DEF PoolShaped
    <2> QED  BY <2>1, <2>2, ViewSteps DEF PoolShaped
  <1>3. \A t \in ToSet(vResurrect') : NameShape(t)
    <2>1. CASE DisconnectBlock
      <3>1. stage = "disconnect" /\ ~AtFork /\ vResurrect' = vResurrect \o Tail(vtx[tip])
        BY <2>1 DEF DisconnectBlock
      <3>2. tip \in Ancestors[dbBest] \ {Genesis} /\ tip \in Block
        BY <3>1, DisconnectFacts, JobFacts DEF NodeInv, JobOK
      <3>3. vtx[tip] \in Seq(Tx) /\ vtx[tip] # <<>>
        BY <3>1, <3>2, DisconnectFacts, TxAssumption DEF CheckBlock
      <3>4. Tail(vtx[tip]) \in Seq(Tx)
        BY <3>3
      <3>5. /\ ToSet(vResurrect') = ToSet(vResurrect) \cup ToSet(Tail(vtx[tip]))
            /\ ToSet(Tail(vtx[tip])) \subseteq ToSet(vtx[tip])
        BY <1>1, <3>1, <3>3, <3>4, QueueFacts
      <3>6. \A t \in ToSet(vtx[tip]) : NameShape(t)
        BY <3>2, CommittedTx DEF PoolShaped
      <3> QED  BY <3>5, <3>6 DEF PoolShaped
    <2>2. CASE vResurrect # <<>> /\ vResurrect' = Tail(vResurrect)
      BY <1>1, <2>2, QueueFacts DEF PoolShaped
    <2>3. CASE vResurrect' \in {vResurrect, <<>>}
      <3>1. ToSet(<<>>) = {}
        BY DEF ToSet
      <3> QED  BY <2>3, <3>1 DEF PoolShaped
    <2> QED  BY <2>1, <2>2, <2>3, PoolGrowth
  <1>4. ASSUME NEW t \in mapTransactions' PROVE CheckTransaction(t) /\ ~IsCoinBase(t) /\ NameShape(t)
    <2>1. CASE t \in mapTransactions
      BY <2>1 DEF PoolShaped
    <2>2. CASE t \notin mapTransactions
      <3>1. /\ t \in Tx /\ PoolAdmits(t)
            /\ CheckInputs(t) \/ (vResurrect # <<>> /\ t = Head(vResurrect))
        BY <1>4, <2>2, PoolGrowth
      <3>2. CheckTransaction(t) /\ ~IsCoinBase(t)
        BY <3>1 DEF PoolAdmits
      <3>3. CASE CheckInputs(t)
        <4>1. HookConnectInputs(t, pindexBest, dbTx, dbName, "pool", {}, {})
          BY <3>3 DEF CheckInputs
        <4> QED  BY <3>1, <3>2, <4>1, HookShape
      <3>4. CASE vResurrect # <<>> /\ t = Head(vResurrect)
        <4>1. t \in ToSet(vResurrect)
          BY <1>1, <3>4, QueueFacts
        <4> QED  BY <3>2, <4>1 DEF PoolShaped
      <3> QED  BY <3>1, <3>3, <3>4
    <2> QED  BY <2>1, <2>2
  <1> QED  BY <1>2, <1>3, <1>4 DEF PoolShaped

LEMMA PoolShapedInvariant == Spec => []PoolShaped
  <1>1. Init => PoolShaped
    <2>1. ToSet(<<>>) = {}
      BY DEF ToSet
    <2> QED  BY <2>1 DEF Init, NoIndex, PoolShaped, HasTxIndex
  <1>2. NodeInv /\ PoolShaped /\ [Next]_vars => PoolShaped'
    BY PoolShapedNext
  <1> QED  BY <1>1, <1>2, NodeInvariant, PTL DEF Spec

(* AddTx records the transaction in mapTestPool as ConnectInputs records    *)
(* one of a block, at a position of its own.                                *)
LEMMA TestRecorded ==
    ASSUME TestView \in TxIndexType, NEW t \in Tx, mapTestPool' = TestPoolWith(t), dbTx' = dbTx
    PROVE  Recorded(TestView', TestView, t, TestPos)
  <1> DEFINE tv == TestView
             tw == TxConnected(t, NoBlock, 1, tv)
             ks(u) == {o[2] : o \in {p \in vin[t] : p[1] = u}}
             D == DOMAIN mapTestPool \cup PrevTxs(t) \cup {t}
  <1>1. vin[t] \subseteq Tx \X (Nat \ {0})
    BY TxAssumption
  <1>2. TestPos # NoPos /\ TestPos \in (Block \cup {NoBlock}) \X Nat /\ TestPos = <<NoBlock, 1>>
    BY DEF TestPos, NoPos
  <1>3. DOMAIN mapTestPool' = D /\ \A u \in D : mapTestPool'[u] = tw[u]
    BY DEF TestPoolWith
  <1>4. TestView' = [u \in Tx |-> IF u \in D THEN tw[u] ELSE dbTx[u]]
    BY <1>3 DEF TestView
  <1>5. TestView'[t].pos = TestPos /\ TestView'[t].spent = {}
    BY <1>2, <1>4 DEF TxConnected, PosOf
  <1>6. ASSUME NEW u \in Tx \ {t}
        PROVE  /\ TestView'[u].pos = tv[u].pos
               /\ \A k : k \in TestView'[u].spent <=> k \in tv[u].spent \/ <<u, k>> \in vin[t]
               /\ TestView'[u] \in [pos : (Block \cup {NoBlock}) \X Nat, spent : SUBSET Nat]
    <2>1. tv[u].pos \in (Block \cup {NoBlock}) \X Nat /\ tv[u].spent \in SUBSET Nat
          /\ tv[u] \in [pos : (Block \cup {NoBlock}) \X Nat, spent : SUBSET Nat]
      BY IndexRecord
    <2>2. ks(u) \subseteq Nat /\ \A k : k \in ks(u) <=> <<u, k>> \in vin[t]
      BY <1>1
    <2>3. CASE u \in D
      <3>1. TestView'[u] = [tv[u] EXCEPT !.spent = @ \cup ks(u)]
        BY <1>4, <2>3 DEF TxConnected
      <3>2. TestView'[u] = [pos |-> tv[u].pos, spent |-> tv[u].spent \cup ks(u)]
        <4> HIDE DEF ks, tv
        <4> QED  BY <2>1, <3>1
      <3> HIDE DEF ks, tv
      <3> QED  BY <2>1, <2>2, <3>2
    <2>4. CASE u \notin D
      <3>1. TestView'[u] = tv[u]
        BY <1>4, <2>4 DEF TestView
      <3>2. \A k : <<u, k>> \notin vin[t]
        BY <1>1, <2>4 DEF PrevTxs
      <3> QED  BY <2>1, <3>1, <3>2
    <2> QED  BY <2>3, <2>4
  <1>7. TestView' \in TxIndexType
    <2>1. TestView'[t] = [pos |-> TestPos, spent |-> {}]
      BY <1>2, <1>4 DEF TxConnected, PosOf
    <2>2. \A u \in Tx : TestView'[u] \in [pos : (Block \cup {NoBlock}) \X Nat, spent : SUBSET Nat]
      BY <1>2, <1>6, <2>1
    <2> QED  BY <1>4, <2>2 DEF TxIndexType
  <1>8. \A u \in Tx : HasTxIndex(TestView', u) <=> u = t \/ HasTxIndex(TestView, u)
    BY <1>2, <1>5, <1>6 DEF HasTxIndex
  <1> QED  BY <1>5, <1>6, <1>7, <1>8 DEF Recorded

(* tv, a view of a block with the transactions collected so far, agrees     *)
(* with mapTestPool in all but the positions of these.                      *)
IndexAgrees(tv) ==
    \A u \in Tx :
        /\ \A k : k \in tv[u].spent <=> k \in TestView[u].spent
        /\ u \in Range(work.txs) => TestView[u].pos = TestPos /\ tv[u].pos # NoPos
        /\ u \notin Range(work.txs) => TestView[u].pos = dbTx[u].pos /\ tv[u].pos = dbTx[u].pos

(* The histories agree but for the names that are operated on. *)
NamesAgree(nv) ==
    \A n \in Name : (\A u \in Range(work.txs) : ~Operates(u, n)) => VtxPos(nv, n) = VtxPos(dbName, n)

(* What is known of an operation that was collected. *)
UpdatesLast(u) ==
    LET o == NameInput(u)
    IN  /\ o \in vin[u] /\ o[2] <= Len(vout[o[1]]) /\ Out(o).op \in {"firstupdate", "update"}
        /\ CheckNameTxPos(dbName, NameOut(u).name, dbTx[o[1]].pos)

IsFree(n, h) ==
    LET nPrev == GetNameHeight(dbName, n) IN ~(nPrev >= 0 /\ NameUnexpired(nPrev, h))

CollectedOK(u) ==
    isNameTx[u] =>
        /\ NameOut(u).op = "update" =>
              UpdatesLast(u) /\ NameInput(u)[2] \in TestView[NameInput(u)[1]].spent
        /\ NameOut(u).op = "firstupdate" => IsFree(NameOut(u).name, nHeight[pindexBest])

(* The facts about a transaction that ConnectInputs lets through for the    *)
(* miner.                                                                   *)
TestFacts(t) ==
    LET o == NameInput(t)  n == NameOut(t).name  h == nHeight[pindexBest]
    IN  isNameTx[t] =>
        /\ ~Mismatch(t)
        /\ NameOut(t).op \in {"firstupdate", "update"} => o \in vin[t]
        /\ NameOut(t).op = "update" =>
              /\ Out(o).op \in {"firstupdate", "update"}
              /\ CheckTransactionAtRelativeDepth(pindexBest, TestView[o[1]].pos,
                                                 GetExpirationDepth(h)) >= 0
              /\ CheckNameTxPos(dbName, n, TestView[o[1]].pos)
        /\ NameOut(t).op = "firstupdate" =>
              /\ Out(o).op = "new" /\ IsFree(n, h)
              /\ GetNameNetFee(t) >= GetNetworkFee(h)
              /\ CheckTransactionAtRelativeDepth(pindexBest, TestView[o[1]].pos,
                                                 MIN_FIRSTUPDATE_DEPTH) = -1
              /\ CheckTransactionAtRelativeDepth(pindexBest, TestView[o[1]].pos,
                                                 GetExpirationDepth(h)) # -1
              /\ mapNamePending[n] \cap DOMAIN mapTestPool = {}

LEMMA TestFactsHold ==
    ASSUME NEW t \in Tx, ConnectsInTest(t), work.prev = pindexBest
    PROVE  TestFacts(t)
  <1> DEFINE P == IF isNameTx[t] THEN mapNamePending[NameOut(t).name] ELSE {}
             M == DOMAIN mapTestPool \cup PrevTxs(t)
  <1> SUFFICES ASSUME isNameTx[t] PROVE TestFacts(t)
    BY DEF TestFacts
  <1>1. HookConnectInputs(t, pindexBest, TestView, dbName, "miner", P, M)
    BY DEF ConnectsInTest
  <1> HIDE DEF P, M
  <1>2. /\ \/ NameOut(t).op = "new" /\ CheckNameNew(t)
           \/ /\ NameOut(t).op = "firstupdate"
              /\ CheckFirstUpdate(t, pindexBest, TestView, dbName, "miner", P, M)
           \/ NameOut(t).op = "update" /\ CheckNameUpdate(t, pindexBest, TestView, "miner")
        /\ ~Mismatch(t) /\ ~OnTopOfBug(t, TestView, dbName)
    BY <1>1 DEF HookConnectInputs
  <1>3. NameInputs(t) # {} => NameInput(t) \in vin[t]
    BY DEF NameInput, NameInputs
  <1>4. CASE NameOut(t).op = "firstupdate"
    <2>1. CheckFirstUpdate(t, pindexBest, TestView, dbName, "miner", P, M)
      BY <1>2, <1>4
    <2>2. mapNamePending[NameOut(t).name] \cap DOMAIN mapTestPool \subseteq P \cap M
      BY DEF P, M
    <2> QED  BY <1>2, <1>3, <1>4, <2>1, <2>2 DEF TestFacts, CheckFirstUpdate, IsFree
  <1>5. CASE NameOut(t).op = "update"
    <2>1. CheckNameUpdate(t, pindexBest, TestView, "miner")
      BY <1>2, <1>5
    <2> QED  BY <1>2, <1>3, <1>5, <2>1 DEF TestFacts, CheckNameUpdate, OnTopOfBug
  <1>6. CASE NameOut(t).op = "new"
    BY <1>2, <1>6 DEF TestFacts
  <1> QED  BY <1>2, <1>4, <1>5, <1>6

(* The depth of a transaction of the chain, seen from one block higher. *)
LEMMA OneDeeper ==
    ASSUME NEW b \in Block \ {Genesis}, NEW pos, NEW d \in Int,
           pos[1] \in Ancestors[hashPrevBlock[b]]
    PROVE  LET p == hashPrevBlock[b]
           IN  /\ CheckTransactionAtRelativeDepth(p, pos, d) = -1 =>
                     CheckTransactionAtRelativeDepth(b, pos, d) = -1
               /\ nHeight[b] - nHeight[pos[1]] < d =>
                     CheckTransactionAtRelativeDepth(b, pos, d) >= 0
               /\ CheckTransactionAtRelativeDepth(p, pos, d) # -1 =>
                     nHeight[p] - nHeight[pos[1]] < d
  <1> DEFINE p == hashPrevBlock[b]
             x == nHeight[pos[1]]
             y == nHeight[p]
             z == nHeight[b]
  <1>1. /\ p \in Block /\ pos[1] \in Ancestors[b] /\ z = y + 1
        /\ x \in Nat /\ y \in Nat /\ z \in Nat /\ x <= y
    BY BlockTree, HeightOnChain
  <1>2. CheckTransactionAtRelativeDepth(p, pos, d) = IF y - x < d THEN y - x ELSE -1
    BY DEF CheckTransactionAtRelativeDepth
  <1>3. CheckTransactionAtRelativeDepth(b, pos, d) = IF z - x < d THEN z - x ELSE -1
    BY <1>1 DEF CheckTransactionAtRelativeDepth
  <1> HIDE DEF x, y, z
  <1> QED  BY <1>1, <1>2, <1>3 DEF x, y, z

LEMMA FoundOnChain ==
    ASSUME NEW b, NEW pos, NEW d, CheckTransactionAtRelativeDepth(b, pos, d) # -1
    PROVE  pos[1] \in Ancestors[b]
  BY DEF CheckTransactionAtRelativeDepth

(* The last entry of a name is that of an indexed transaction. *)
LEMMA LastEntry ==
    ASSUME NodeInv, NameIndexOK, NEW n, NEW u \in Tx, HasTxIndex(dbTx, u),
           CheckNameTxPos(dbName, n, dbTx[u].pos)
    PROVE  /\ NamePopped(u) /\ NameOut(u).name = n
           /\ GetNameHeight(dbName, n) = nHeight[dbTx[u].pos[1]]
  <1> DEFINE s == VtxPos(dbName, n)
             k == Len(s)
  <1>1. NameIndexType(dbName) /\ dbTx \in TxIndexType /\ dbBest \in Block
    BY DEF NodeInv, TypeOK, StoreType, ChainType
  <1>2. s \in Seq(CNameIndex) /\ s # <<>> /\ s[k].pos = dbTx[u].pos
    BY <1>1, VtxPosType DEF CheckNameTxPos
  <1>3. n \in DOMAIN dbName /\ dbName[n] = s
    BY <1>2 DEF VtxPos
  <1>4. k \in DOMAIN dbName[n] /\ k \in Nat
    BY <1>2, <1>3
  <1>5. /\ EntryOK(dbTx, dbName, n, k)
        /\ TxAt(dbName[n][k].pos) \in IndexedTx(dbTx) /\ dbTx[TxAt(dbName[n][k].pos)].pos = dbName[n][k].pos
    BY <1>1, <1>3, <1>4, EntryPosition DEF NodeInv, NameIndexOK, NameView
  <1>6. dbTx[u].pos = dbName[n][k].pos /\ u \in IndexedTx(dbTx)
    BY <1>2, <1>3 DEF IndexedTx
  <1>7. TxAt(dbName[n][k].pos) = u
    BY <1>5, <1>6, PositionUnique DEF NodeInv
  <1>8. GetNameHeight(dbName, n) = dbName[n][k].nHeight
    BY <1>2, <1>3 DEF GetNameHeight
  <1> QED  BY <1>5, <1>6, <1>7, <1>8 DEF EntryOK

(* The state in which transactions are collected for a block on the tip. *)
Collecting ==
    /\ NodeInv /\ NameIndexOK /\ PoolShaped
    /\ stage = "idle" /\ work.prev = pindexBest
    /\ Range(work.txs) \subseteq mapTransactions /\ Range(work.txs) \subseteq DOMAIN mapTestPool
    /\ \A u \in Range(work.txs) : CollectedOK(u)

LEMMA NobodyElse ==
    ASSUME Collecting, NEW tv, IndexAgrees(tv), NEW t \in Tx, ConnectsInTest(t), isNameTx[t],
           NameOut(t).op \in {"firstupdate", "update"},
           NEW u \in Range(work.txs), Operates(u, NameOut(t).name), ~NotPending(u)
    PROVE  FALSE
  <1> DEFINE n == NameOut(t).name
             h == nHeight[pindexBest]
             o == NameInput(t)
             q == NameInput(u)
             pos == TestView[o[1]].pos
  <1>1. TestFacts(t)
    BY TestFactsHold DEF Collecting
  <1>2. u \in Tx /\ mapTransactions \subseteq Tx /\ pindexBest \in Block /\ pindexBest = dbBest
    BY DEF Collecting, NodeInv, TypeOK, PoolType, ChainType, JobOK
  <1>3. isNameTx[u] /\ NameOut(u).op \in {"firstupdate", "update"} /\ NameOut(u).name = n
    BY DEF Operates
  <1>4. u \in mapNamePending[n] /\ u \in DOMAIN mapTestPool
    BY <1>3 DEF NotPending, Collecting
  <1>5. NameOut(t).op = "update"
    BY <1>1, <1>4 DEF TestFacts
  <1>6. /\ o \in vin[t] /\ Out(o).op \in {"firstupdate", "update"}
        /\ CheckTransactionAtRelativeDepth(pindexBest, pos, GetExpirationDepth(h)) >= 0
        /\ CheckNameTxPos(dbName, n, pos)
    BY <1>1, <1>5 DEF TestFacts
  <1>7. /\ o \in Tx \X (Nat \ {0}) /\ o = <<o[1], o[2]>> /\ o[1] \in Tx
        /\ o[2] <= Len(vout[o[1]]) /\ o[2] \notin TestView[o[1]].spent
    BY <1>6, TxAssumption DEF ConnectsInTest, InputsOK, InputOK
  <1>8. pos[1] \in Ancestors[pindexBest] /\ pos[1] \in Block
    BY <1>2, <1>6, FoundOnChain, BlockTree
  <1>9. o[1] \notin Range(work.txs)
    <2>1. TestPos[1] \notin Block
      BY BlockTreeAssumption DEF TestPos
    <2> QED  BY <1>7, <1>8, <2>1 DEF IndexAgrees
  <1>10. pos = dbTx[o[1]].pos
    BY <1>7, <1>9 DEF IndexAgrees
  <1>11. HasTxIndex(dbTx, o[1])
    <2>1. NoPos[1] \notin Block
      BY BlockTreeAssumption DEF NoPos
    <2> QED  BY <1>8, <1>10, <2>1 DEF HasTxIndex
  <1>12. NamePopped(o[1]) /\ GetNameHeight(dbName, n) = nHeight[pos[1]]
    BY <1>6, <1>7, <1>10, <1>11, LastEntry DEF Collecting
  <1>13. CollectedOK(u)
    BY DEF Collecting
  <1>14. CASE NameOut(u).op = "firstupdate"
    <2>1. IsFree(n, h)
      BY <1>3, <1>13, <1>14 DEF CollectedOK
    <2>2. nHeight[pos[1]] \in Nat /\ h \in Nat
      BY <1>2, <1>8, BlockTree
    <2>3. ~NameUnexpired(nHeight[pos[1]], h)
      BY <1>12, <2>1, <2>2 DEF IsFree
    <2>4. h - nHeight[pos[1]] < GetExpirationDepth(h)
      BY <1>6, <1>8 DEF CheckTransactionAtRelativeDepth
    <2> QED  BY <2>3, <2>4 DEF NameUnexpired
  <1>15. CASE NameOut(u).op = "update"
    <2>1. /\ q \in vin[u] /\ q[2] <= Len(vout[q[1]]) /\ Out(q).op \in {"firstupdate", "update"}
          /\ CheckNameTxPos(dbName, n, dbTx[q[1]].pos) /\ q[2] \in TestView[q[1]].spent
      BY <1>3, <1>13, <1>15 DEF CollectedOK, UpdatesLast
    <2>2. q \in Tx \X (Nat \ {0}) /\ q[1] \in Tx
      BY <1>2, <2>1, TxAssumption
    <2>3. dbTx[q[1]].pos = dbTx[o[1]].pos
      BY <1>6, <1>10, <2>1 DEF CheckNameTxPos
    <2>4. q[1] = o[1]
      <3>1. o[1] \in IndexedTx(dbTx) /\ q[1] \in IndexedTx(dbTx)
        BY <1>7, <1>11, <2>2, <2>3 DEF IndexedTx, HasTxIndex
      <3> QED  BY <2>3, <3>1, PositionUnique DEF Collecting, NodeInv
    <2>5. vout[o[1]] \in Seq(TxOut) /\ DecodeNameTx(o[1])
      BY <1>7, <1>12, TxAssumption DEF NamePopped
    <2>6. o[2] \in NameOutputs(o[1]) /\ q[2] \in NameOutputs(o[1])
      BY <1>6, <1>7, <2>1, <2>2, <2>4, <2>5 DEF NameOutputs, NameOps, Out
    <2>7. o[2] = q[2]
      BY <1>7, <2>5, <2>6, TheNameOutput
    <2> QED  BY <1>7, <2>1, <2>4, <2>7
  <1> QED  BY <1>3, <1>14, <1>15

LEMMA NetFeeType ==
    ASSUME NEW t \in Tx
    PROVE  GetNameNetFee(t) \in Int
  <1> DEFINE S == {o \in OutputsOf(t) : Out(o).op = "return"}
  <1>1. IsFiniteSet(S) /\ S \subseteq Tx \X (Nat \ {0})
    <2>1. IsFiniteSet(OutputsOf(t)) /\ OutputsOf(t) \subseteq Tx \X (Nat \ {0})
      BY FiniteOutputs
    <2> QED  BY <2>1, FS_Subset
  <1> HIDE DEF S
  <1>2. ValueOf(S) \in Nat
    BY <1>1, ValueIsSum
  <1> QED  BY <1>2 DEF GetNameNetFee, S

(* A previous transaction that ConnectInputs finds at a place of the chain  *)
(* is not one of the block under construction.                              *)
LEMMA PrevOnChain ==
    ASSUME Collecting, NEW tv, IndexAgrees(tv), NEW u \in Tx,
           TestView[u].pos[1] \in Ancestors[pindexBest]
    PROVE  u \notin Range(work.txs) /\ TestView[u].pos = dbTx[u].pos /\ tv[u].pos = dbTx[u].pos
  <1>1. TestView[u].pos[1] \in Block
    BY BlockTree DEF Collecting, NodeInv, TypeOK, ChainType
  <1>2. TestPos[1] \notin Block
    BY BlockTreeAssumption DEF TestPos
  <1>3. u \notin Range(work.txs)
    BY <1>1, <1>2 DEF IndexAgrees
  <1> QED  BY <1>3 DEF IndexAgrees

(* The inputs, seen from the block. *)
LEMMA InputsConnect ==
    ASSUME Collecting, NEW b \in Block, hashPrevBlock[b] = pindexBest, NEW tv, IndexAgrees(tv),
           NEW t \in Tx, ConnectsInTest(t)
    PROVE  InputsOK(t, b, tv, "block", {})
  <1> SUFFICES ASSUME NEW o \in vin[t] PROVE InputOK(o, b, tv, "block", {})
    BY DEF InputsOK
  <1>1. o \in Tx \X (Nat \ {0}) /\ o[1] \in Tx
    BY TxAssumption
  <1>2. InputOK(o, pindexBest, TestView, "miner", {})
    BY DEF ConnectsInTest, InputsOK, Collecting
  <1>3. /\ HasTxIndex(TestView, o[1]) /\ o[2] <= Len(vout[o[1]]) /\ o[2] \notin TestView[o[1]].spent
        /\ IsCoinBase(o[1]) =>
              CheckTransactionAtRelativeDepth(pindexBest, TestView[o[1]].pos, COINBASE_MATURITY) = -1
    BY <1>2 DEF InputOK
  <1>4. b \in Block \ {Genesis} /\ pindexBest \in Block /\ dbBest = pindexBest
    BY BlockTree DEF Collecting, NodeInv, TypeOK, ChainType, JobOK
  <1>5. o[2] \notin tv[o[1]].spent
    BY <1>1, <1>3 DEF IndexAgrees
  <1>6. HasTxIndex(tv, o[1])
    BY <1>1, <1>3 DEF IndexAgrees, HasTxIndex
  <1>7. ASSUME IsCoinBase(o[1])
        PROVE  CheckTransactionAtRelativeDepth(b, tv[o[1]].pos, COINBASE_MATURITY) = -1
    <2>1. o[1] \notin Range(work.txs)
      BY <1>7 DEF Collecting, PoolShaped
    <2>2. TestView[o[1]].pos = dbTx[o[1]].pos /\ tv[o[1]].pos = dbTx[o[1]].pos
      BY <1>1, <2>1 DEF IndexAgrees
    <2>3. dbTx[o[1]].pos[1] \in Ancestors[pindexBest]
      BY <1>1, <1>3, <1>4, <2>2 DEF HasTxIndex, Collecting, NodeInv, ChainView, IndexIsChain, InChain
    <2>4. COINBASE_MATURITY \in Int
      BY TxAssumption
    <2> QED  BY <1>3, <1>4, <1>7, <2>2, <2>3, <2>4, OneDeeper
  <1> QED  BY <1>3, <1>5, <1>6, <1>7 DEF InputOK

(* The hook, seen from the block: the history of the name is the same when  *)
(* nothing collected before operates on it.                                 *)
LEMMA HookConnects ==
    ASSUME Collecting, NEW b \in Block, hashPrevBlock[b] = pindexBest, NEW tv, IndexAgrees(tv),
           NEW nv, NamesAgree(nv), NEW t \in Tx, ConnectsInTest(t),
           \A u \in Range(work.txs) :
               Operates(t, NameOut(t).name) => ~Operates(u, NameOut(t).name),
           ~ExpiresNow(t, b)
    PROVE  HookConnectInputs(t, b, tv, nv, "block", {}, {})
  <1> DEFINE n == NameOut(t).name
             o == NameInput(t)
             h == nHeight[pindexBest]
             g == nHeight[b]
             pos == TestView[o[1]].pos
             P == IF isNameTx[t] THEN mapNamePending[NameOut(t).name] ELSE {}
             M == DOMAIN mapTestPool \cup PrevTxs(t)
  <1>1. HookConnectInputs(t, pindexBest, TestView, dbName, "miner", P, M)
    BY DEF ConnectsInTest, Collecting
  <1>2. TestFacts(t)
    BY TestFactsHold DEF Collecting
  <1> HIDE DEF P, M
  <1>3. /\ b \in Block \ {Genesis} /\ pindexBest \in Block /\ dbBest = pindexBest
        /\ g = h + 1 /\ h \in Nat /\ g \in Nat
    BY BlockTree DEF Collecting, NodeInv, TypeOK, ChainType, JobOK
  <1>4. CASE ~isNameTx[t]
    BY <1>1, <1>4 DEF HookConnectInputs
  <1>5. CASE isNameTx[t]
    <2>1. /\ \A o1, o2 \in NameInputs(t) : o1 = o2
          /\ DecodeNameTx(t) /\ NameOut(t).nValue >= MIN_AMOUNT
          /\ \/ NameOut(t).op = "new" /\ CheckNameNew(t)
             \/ NameOut(t).op = "firstupdate" /\ NameInputs(t) # {}
             \/ NameOut(t).op = "update" /\ NameInputs(t) # {}
          /\ ~Mismatch(t)
      BY <1>1, <1>5 DEF HookConnectInputs, CheckFirstUpdate, CheckNameUpdate
    <2>2. NameOut(t).op \in {"firstupdate", "update"} => o \in vin[t] /\ o[1] \in Tx
      BY <1>2, <1>5, TxAssumption DEF TestFacts
    <2>3. NameOut(t).op \in {"firstupdate", "update"} => VtxPos(nv, n) = VtxPos(dbName, n)
      <3> SUFFICES ASSUME NameOut(t).op \in {"firstupdate", "update"}
                   PROVE  VtxPos(nv, n) = VtxPos(dbName, n)
        OBVIOUS
      <3>1. n \in Name
        BY <2>1, NameOutType DEF TxOut
      <3>2. \A u \in Range(work.txs) : ~Operates(u, n)
        BY <1>5 DEF Operates
      <3> QED  BY <3>1, <3>2 DEF NamesAgree
    <2>4. CASE NameOut(t).op = "new"
      BY <1>5, <2>1, <2>4 DEF HookConnectInputs, OnTopOfBug
    <2>5. CASE NameOut(t).op = "firstupdate"
      <3>1. /\ Out(o).op = "new" /\ IsFree(n, h) /\ GetNameNetFee(t) >= GetNetworkFee(h)
            /\ CheckTransactionAtRelativeDepth(pindexBest, pos, MIN_FIRSTUPDATE_DEPTH) = -1
            /\ CheckTransactionAtRelativeDepth(pindexBest, pos, GetExpirationDepth(h)) # -1
        BY <1>2, <1>5, <2>5 DEF TestFacts
      <3>2. pos[1] \in Ancestors[pindexBest]
        BY <3>1, FoundOnChain
      <3>3. tv[o[1]].pos = pos
        BY <2>2, <2>5, <3>2, PrevOnChain
      <3>4. CheckTransactionAtRelativeDepth(b, tv[o[1]].pos, MIN_FIRSTUPDATE_DEPTH) = -1
        <4>1. MIN_FIRSTUPDATE_DEPTH \in Int
          BY TxAssumption
        <4> HIDE DEF pos, o
        <4> QED  BY <1>3, <3>1, <3>2, <3>3, <4>1, OneDeeper
      <3>5. GetNameNetFee(t) >= GetNetworkFee(g)
        <4>1. GetNameNetFee(t) \in Int
          BY NetFeeType
        <4>2. GetNetworkFee(h) \in Int /\ GetNetworkFee(g) \in Int /\ GetNetworkFee(g) <= GetNetworkFee(h)
          BY <1>3, FeeFalls
        <4> HIDE DEF g, h
        <4> QED  BY <3>1, <4>1, <4>2
      <3>6. LET nPrev == GetNameHeight(nv, n) IN ~(nPrev >= 0 /\ NameUnexpired(nPrev, g))
        <4> DEFINE k == GetNameHeight(dbName, n)
        <4>1. GetNameHeight(nv, n) = k
          BY <2>3, <2>5 DEF GetNameHeight
        <4>2. k \in Nat \/ k = -1
          <5>1. VtxPos(dbName, n) \in Seq(CNameIndex)
            BY VtxPosType DEF Collecting, NodeInv, TypeOK, StoreType
          <5>2. PICK s \in Seq(CNameIndex) : s = VtxPos(dbName, n)
            BY <5>1
          <5>3. s # <<>> => s[Len(s)] \in CNameIndex
            OBVIOUS
          <5>4. s # <<>> => s[Len(s)].nHeight \in Nat
            BY <5>3 DEF CNameIndex
          <5>5. k = IF s = <<>> THEN -1 ELSE s[Len(s)].nHeight
            BY <5>2 DEF GetNameHeight
          <5> QED  BY <5>4, <5>5
        <4>3. ~(k >= 0 /\ NameUnexpired(k, h))
          BY <3>1 DEF IsFree
        <4> HIDE DEF k, g, h, n
        <4>4. k \in Nat => ~NameUnexpired(k, g)
          BY <1>3, <4>3, StaysExpired
        <4> QED  BY <4>1, <4>2, <4>4
      <3>7. CheckFirstUpdate(t, b, tv, nv, "block", {}, {})
        BY <2>1, <2>5, <3>1, <3>4, <3>5, <3>6 DEF CheckFirstUpdate
      <3> QED  BY <1>5, <2>1, <2>5, <3>7 DEF HookConnectInputs, OnTopOfBug
    <2>6. CASE NameOut(t).op = "update"
      <3>1. /\ Out(o).op \in {"firstupdate", "update"} /\ CheckNameTxPos(dbName, n, pos)
            /\ CheckTransactionAtRelativeDepth(pindexBest, pos, GetExpirationDepth(h)) >= 0
        BY <1>2, <1>5, <2>6 DEF TestFacts
      <3>2. pos[1] \in Ancestors[pindexBest]
        BY <3>1, FoundOnChain
      <3>3. tv[o[1]].pos = pos /\ pos = dbTx[o[1]].pos
        BY <2>2, <2>6, <3>2, PrevOnChain
      <3>4. GetExpirationDepth(h) \in Int /\ GetExpirationDepth(g) \in Int
        BY <1>3, RulesAssumption DEF GetExpirationDepth
      <3>5. h - nHeight[pos[1]] < GetExpirationDepth(h)
        BY <3>1, <3>2 DEF CheckTransactionAtRelativeDepth
      <3>6. g - nHeight[pos[1]] < GetExpirationDepth(g)
        <4> DEFINE x == nHeight[pos[1]]
                   D == GetExpirationDepth(g)
        <4>1. g - 1 = h /\ x \in Nat
          BY <1>3, <3>2, HeightOnChain
        <4>2. ~(g - x >= D /\ g - 1 - x < GetExpirationDepth(g - 1))
          BY <1>5, <2>6, <3>3 DEF ExpiresNow
        <4> HIDE DEF x, D, g, h
        <4> QED  BY <1>3, <3>4, <3>5, <4>1, <4>2 DEF x, D
      <3>7. CheckTransactionAtRelativeDepth(b, tv[o[1]].pos, GetExpirationDepth(g)) >= 0
        <4> HIDE DEF pos, o
        <4> QED  BY <1>3, <3>2, <3>3, <3>4, <3>6, OneDeeper
      <3>8. CheckNameUpdate(t, b, tv, "block")
        BY <2>1, <2>6, <3>1, <3>7 DEF CheckNameUpdate
      <3>9. ~OnTopOfBug(t, tv, nv)
        BY <2>3, <2>6, <3>1, <3>3 DEF OnTopOfBug, CheckNameTxPos
      <3> QED  BY <1>5, <2>1, <2>6, <3>8, <3>9 DEF HookConnectInputs
    <2> QED  BY <2>1, <2>4, <2>5, <2>6
  <1> QED  BY <1>4, <1>5

(* The step that adds t to the block under construction. *)
Adds(t) ==
    /\ ConnectsInTest(t) /\ t \in mapTransactions /\ t \notin Range(work.txs)
    /\ work' = [prev |-> work.prev, txs |-> Append(work.txs, t), nFees |-> work.nFees + TxFee(t)]
    /\ mapTestPool' = TestPoolWith(t)
    /\ UNCHANGED vars

(* The state in which it is taken. *)
CollectingMore ==
    /\ Collecting /\ PoolOutside /\ work.txs \in Seq(Tx) /\ TestView \in TxIndexType

LEMMA AddedRange ==
    ASSUME work.txs \in Seq(Tx), NEW t \in Tx, Adds(t)
    PROVE  Range(work.txs)' = Range(work.txs) \cup {t}
  <1>1. PICK s \in Seq(Tx) : s = work.txs
    OBVIOUS
  <1>2. (work.txs)' = Append(s, t)
    BY <1>1 DEF Adds
  <1>3. DOMAIN Append(s, t) = DOMAIN s \cup {Len(s) + 1} /\ Append(s, t)[Len(s) + 1] = t
        /\ \A i \in DOMAIN s : Append(s, t)[i] = s[i]
    OBVIOUS
  <1>4. Range(Append(s, t)) = Range(s) \cup {t}
    BY <1>3 DEF Range
  <1>5. Range(work.txs)' = Range(Append(s, t))
    BY <1>2
  <1> QED  BY <1>1, <1>4, <1>5

LEMMA AddedIndex ==
    ASSUME CollectingMore, NEW tv \in TxIndexType, IndexAgrees(tv), NEW t \in Tx, Adds(t),
           NEW b \in Block, NEW i \in Nat, NEW tw, tw = TxConnected(t, b, i, tv)
    PROVE  IndexAgrees(tw)'
  <1>1. Recorded(tw, tv, t, <<b, i>>)
    BY ConnectedIsRecorded
  <1>2. dbTx' = dbTx
    BY DEF Adds, vars, diskVars
  <1>3. Recorded(TestView', TestView, t, TestPos)
    BY <1>2, TestRecorded DEF CollectingMore, Adds
  <1>4. PICK W : W = TestView'
    OBVIOUS
  <1>5. PICK R : R = Range(work.txs)'
    OBVIOUS
  <1>6. R = Range(work.txs) \cup {t}
    BY <1>5, AddedRange DEF CollectingMore
  <1>7. <<b, i>> # NoPos
    BY PositionNotNull
  <1>8. ASSUME NEW u \in Tx
        PROVE  /\ \A k : k \in tw[u].spent <=> k \in W[u].spent
               /\ u \in R => W[u].pos = TestPos /\ tw[u].pos # NoPos
               /\ u \notin R => W[u].pos = dbTx[u].pos /\ tw[u].pos = dbTx[u].pos
    <2>1. CASE u = t
      BY <1>1, <1>3, <1>4, <1>6, <1>7, <2>1 DEF Recorded
    <2>2. CASE u # t
      BY <1>1, <1>3, <1>4, <1>6, <2>2 DEF Recorded, IndexAgrees
    <2> QED  BY <2>1, <2>2
  <1> QED  BY <1>2, <1>4, <1>5, <1>8 DEF IndexAgrees

LEMMA AddedNames ==
    ASSUME CollectingMore, NEW nv, NamesAgree(nv), NEW t \in Tx, Adds(t), NEW tv,
           NEW b, NEW i, NEW nw, nw = NameConnected(t, b, i, tv, nv)
    PROVE  NamesAgree(nw)'
  <1>1. dbName' = dbName
    BY DEF Adds, vars, diskVars
  <1>2. PICK R : R = Range(work.txs)'
    OBVIOUS
  <1>3. R = Range(work.txs) \cup {t}
    BY <1>2, AddedRange DEF CollectingMore
  <1>4. ASSUME NEW n \in Name, \A u \in R : ~Operates(u, n)
        PROVE  VtxPos(nw, n) = VtxPos(dbName, n)
    <2>1. VtxPos(nv, n) = VtxPos(dbName, n)
      BY <1>3, <1>4 DEF NamesAgree
    <2>2. ~Operates(t, n)
      BY <1>3, <1>4
    <2>3. VtxPos(nw, n) = VtxPos(nv, n)
      BY <2>2 DEF NameConnected, WritesName, Operates, WriteName, VtxPos
    <2> QED  BY <2>1, <2>3
  <1> QED  BY <1>1, <1>2, <1>4 DEF NamesAgree

(* The last entry of a name is never that of a pool transaction. *)
LEMMA LastNotInPool ==
    ASSUME CollectingMore, NEW n, NEW u \in Tx, CheckNameTxPos(dbName, n, dbTx[u].pos)
    PROVE  u \notin mapTransactions
  <1>1. VtxPos(dbName, n) \in Seq(CNameIndex) /\ VtxPos(dbName, n) # <<>>
    BY VtxPosType DEF CollectingMore, Collecting, NodeInv, TypeOK, StoreType, CheckNameTxPos
  <1>2. PICK s \in Seq(CNameIndex) : s = VtxPos(dbName, n)
    BY <1>1
  <1>3. s[Len(s)] \in CNameIndex /\ s[Len(s)].pos = dbTx[u].pos
    BY <1>1, <1>2 DEF CheckNameTxPos
  <1>4. dbTx[u].pos[1] \in Block
    BY <1>3 DEF CNameIndex
  <1>5. NoPos[1] \notin Block
    BY BlockTreeAssumption DEF NoPos
  <1> QED  BY <1>4, <1>5 DEF CollectingMore, Collecting, PoolOutside, HasTxIndex

LEMMA AddedFacts ==
    ASSUME CollectingMore, NEW tv, IndexAgrees(tv), NEW t \in Tx, Adds(t)
    PROVE  \A u \in Range(work.txs)' : CollectedOK(u)'
  <1>1. UNCHANGED <<dbTx, dbName, pindexBest>>
    BY DEF Adds, vars, diskVars, chainVars
  <1>2. Recorded(TestView', TestView, t, TestPos)
    BY <1>1, TestRecorded DEF CollectingMore, Adds
  <1>3. PICK W : W = TestView'
    OBVIOUS
  <1>4. Range(work.txs)' = Range(work.txs) \cup {t}
    BY AddedRange DEF CollectingMore
  <1>5. t \in mapTransactions /\ mapTransactions \subseteq Tx
    BY DEF Adds, CollectingMore, Collecting, NodeInv, TypeOK, PoolType
  <1>6. ASSUME NEW u \in Range(work.txs) PROVE CollectedOK(u)'
    <2> DEFINE q == NameInput(u)
    <2>1. CollectedOK(u) /\ u \in Tx
      BY <1>5 DEF CollectingMore, Collecting
    <2>2. ASSUME isNameTx[u], NameOut(u).op = "update"
          PROVE  q[2] \in W[q[1]].spent
      <3>1. UpdatesLast(u) /\ q[2] \in TestView[q[1]].spent
        BY <2>1, <2>2 DEF CollectedOK
      <3>2. q \in vin[u] /\ q[1] \in Tx /\ CheckNameTxPos(dbName, NameOut(u).name, dbTx[q[1]].pos)
        BY <2>1, <3>1, TxAssumption DEF UpdatesLast
      <3>3. q[1] # t
        <4> HIDE DEF q
        <4> QED  BY <1>5, <3>2, LastNotInPool
      <3> HIDE DEF q
      <3> QED  BY <1>2, <1>3, <3>1, <3>2, <3>3 DEF Recorded
    <2> QED  BY <1>1, <1>3, <2>1, <2>2 DEF CollectedOK, UpdatesLast, IsFree
  <1>7. CollectedOK(t)'
    <2> DEFINE o == NameInput(t)
    <2>1. TestFacts(t) /\ ConnectsInTest(t)
      BY TestFactsHold DEF CollectingMore, Collecting, Adds
    <2>2. ASSUME isNameTx[t], NameOut(t).op = "update"
          PROVE  UpdatesLast(t) /\ o[2] \in W[o[1]].spent
      <3>1. /\ o \in vin[t] /\ Out(o).op \in {"firstupdate", "update"}
            /\ CheckTransactionAtRelativeDepth(pindexBest, TestView[o[1]].pos,
                                               GetExpirationDepth(nHeight[pindexBest])) >= 0
            /\ CheckNameTxPos(dbName, NameOut(t).name, TestView[o[1]].pos)
        BY <2>1, <2>2 DEF TestFacts
      <3>2. o \in Tx \X (Nat \ {0}) /\ o[1] \in Tx /\ o = <<o[1], o[2]>>
            /\ o[2] <= Len(vout[o[1]])
        BY <2>1, <3>1, TxAssumption DEF ConnectsInTest, InputsOK, InputOK
      <3>3. TestView[o[1]].pos[1] \in Ancestors[pindexBest]
        BY <3>1, FoundOnChain
      <3> HIDE DEF o
      <3>4. TestView[o[1]].pos = dbTx[o[1]].pos
        BY <3>2, <3>3, PrevOnChain DEF CollectingMore
      <3>5. CheckNameTxPos(dbName, NameOut(t).name, dbTx[o[1]].pos)
        BY <3>1, <3>4
      <3>6. o[1] # t
        BY <1>5, <3>2, <3>5, LastNotInPool
      <3>7. <<o[1], o[2]>> \in vin[t]
        BY <3>1, <3>2
      <3>8. o[2] \in W[o[1]].spent
        BY <1>2, <1>3, <3>2, <3>6, <3>7 DEF Recorded
      <3>9. UpdatesLast(t)
        BY <3>1, <3>2, <3>5 DEF UpdatesLast, o
      <3> QED  BY <3>8, <3>9
    <2>3. ASSUME isNameTx[t], NameOut(t).op = "firstupdate"
          PROVE  IsFree(NameOut(t).name, nHeight[pindexBest])
      BY <2>1, <2>3 DEF TestFacts
    <2> QED  BY <1>1, <1>3, <2>2, <2>3 DEF CollectedOK, UpdatesLast, IsFree
  <1> QED  BY <1>4, <1>6, <1>7

(* v is what block b has made of the databases after the transactions       *)
(* collected so far: it agrees with mapTestPool, and all of them connect,   *)
(* unless a name expires or two of them take the same name, and that takes  *)
(* an operation that mapNamePending does not have.                          *)
ViewFits(b, v) ==
    /\ v \in ViewSet(dbName) /\ IndexAgrees(v.tv) /\ NamesAgree(v.nv)
    /\ v.nFees = work.nFees
    /\ \/ v.ok \/ \E t \in Range(work.txs) : ExpiresNow(t, b)
       \/ Rivals(Range(work.txs)) /\ \E t \in Range(work.txs) : NotPending(t)

LEMMA AddedView ==
    ASSUME CollectingMore, NEW b \in Block, hashPrevBlock[b] = pindexBest,
           NEW v, ViewFits(b, v), NEW t \in Tx, Adds(t), NEW i \in Nat
    PROVE  ViewFits(b, ViewWith(t, b, i, v))'
  <1> DEFINE x == ViewWith(t, b, i, v)
             tw == TxConnected(t, b, i, v.tv)
             nw == NameConnected(t, b, i, v.tv, v.nv)
             In == InputsOK(t, b, v.tv, "block", {})
             Hook == HookConnectInputs(t, b, v.tv, v.nv, "block", {}, {})
             R == Range(work.txs) \cup {t}
  <1>1. v.tv \in TxIndexType /\ IndexAgrees(v.tv) /\ NamesAgree(v.nv) /\ v \in ViewSet(dbName)
    BY DEF ViewFits, ViewSet
  <1>2. UNCHANGED <<dbTx, dbName, pindexBest, mapNamePending>>
    BY DEF Adds, vars, diskVars, chainVars, poolVars
  <1>3. NameIndexType(dbName) /\ CheckTransaction(t)
    BY DEF CollectingMore, Collecting, NodeInv, TypeOK, StoreType, PoolShaped, Adds
  <1>4. x \in ViewSet(dbName)
    BY <1>1, <1>3, ViewWithType
  <1>5. x.tv = tw /\ x.nv = nw /\ x.nFees = v.nFees + TxFee(t)
        /\ (x.ok <=> v.ok /\ In /\ Hook /\ TxFee(t) >= 0)
    BY DEF ViewWith
  <1> HIDE DEF x, In, Hook
  <1>6. PICK y, tz, nz : y = x /\ tz = tw /\ nz = nw
    OBVIOUS
  <1>7. IndexAgrees(tz)'
    BY <1>1, <1>6, AddedIndex
  <1>8. NamesAgree(nz)'
    BY <1>1, <1>6, AddedNames
  <1>9. Range(work.txs)' = R
    BY AddedRange DEF CollectingMore
  <1>10. work.nFees' = v.nFees + TxFee(t)
    BY DEF Adds, ViewFits
  <1>11. \/ y.ok \/ \E u \in R : ExpiresNow(u, b)
         \/ Rivals(R) /\ \E u \in R : NotPending(u)
    <2>1. CASE \E u \in Range(work.txs) : ExpiresNow(u, b)
      BY <2>1
    <2>2. CASE Rivals(Range(work.txs)) /\ \E u \in Range(work.txs) : NotPending(u)
      BY <2>2 DEF Rivals
    <2>3. CASE v.ok
      <3> SUFFICES ASSUME ~ExpiresNow(t, b), ~(Rivals(R) /\ \E u \in R : NotPending(u))
                   PROVE  y.ok
        OBVIOUS
      <3>1. ConnectsInTest(t) /\ TxFee(t) >= 0 /\ t \notin Range(work.txs)
        BY DEF Adds, ConnectsInTest
      <3>2. ASSUME NEW u \in Range(work.txs), Operates(t, NameOut(t).name),
                   Operates(u, NameOut(t).name)
            PROVE  FALSE
        <4>1. Rivals(R)
          BY <3>1, <3>2 DEF Rivals
        <4>2. ~NotPending(u)
          BY <4>1
        <4>3. isNameTx[t] /\ NameOut(t).op \in {"firstupdate", "update"}
          BY <3>2 DEF Operates
        <4> QED  BY <1>1, <3>1, <3>2, <4>2, <4>3, NobodyElse DEF CollectingMore
      <3>3. In
        BY <1>1, <3>1, InputsConnect DEF CollectingMore, In
      <3>4. Hook
        BY <1>1, <3>1, <3>2, HookConnects DEF CollectingMore, Hook
      <3> QED  BY <1>5, <1>6, <2>3, <3>1, <3>3, <3>4
    <2> QED  BY <2>1, <2>2, <2>3 DEF ViewFits
  <1>12. \A u : ExpiresNow(u, b)' <=> ExpiresNow(u, b)
    BY <1>2 DEF ExpiresNow
  <1>13. \A u : NotPending(u)' <=> NotPending(u)
    BY <1>2 DEF NotPending
  <1>14. ViewFits(b, y)'
    <2>1. y \in ViewSet(dbName')
      BY <1>2, <1>4, <1>6
    <2>2. y.tv = tz /\ y.nv = nz /\ y.nFees = work.nFees'
      BY <1>5, <1>6, <1>10
    <2>3. \/ y.ok \/ \E u \in Range(work.txs)' : ExpiresNow(u, b)'
          \/ Rivals(Range(work.txs)') /\ \E u \in Range(work.txs)' : NotPending(u)'
      BY <1>9, <1>11, <1>12, <1>13
    <2> QED  BY <1>7, <1>8, <2>1, <2>2, <2>3 DEF ViewFits
  <1> QED  BY <1>6, <1>14 DEF x

(* The inductive invariant of CreateNewBlock. *)
Fits ==
    /\ IndexAgrees(TestView)
    /\ \A u \in Range(work.txs) : CollectedOK(u)
    /\ \A b \in Block : hashPrevBlock[b] = pindexBest =>
          ViewFits(b, ViewAfter(dbTx, dbName, work.txs, b))

CollectedOnce ==
    /\ work.txs \in Seq(Tx)
    /\ Range(work.txs) \cup mapPriority \cup DOMAIN mapDependers \subseteq mapTransactions
    /\ mapPriority \cap Range(work.txs) = {}
    /\ DOMAIN mapDependers \cap (Range(work.txs) \cup mapPriority) = {}
    /\ Range(work.txs) \subseteq DOMAIN mapTestPool
    /\ TestView \in TxIndexType

CollectInv ==
    /\ WorkShape
    /\ phase = "entered" => work.txs = <<>> /\ work.nFees = 0
    /\ phase = "collect" =>
          stage = "idle" /\ CollectedOnce /\ (work.prev = pindexBest => Fits)

LEMMA AddedTest ==
    ASSUME CollectingMore, IndexAgrees(TestView), NEW t \in Tx, Adds(t)
    PROVE  IndexAgrees(TestView)'
  <1>1. dbTx' = dbTx
    BY DEF Adds, vars, diskVars
  <1>2. Recorded(TestView', TestView, t, TestPos)
    BY <1>1, TestRecorded DEF CollectingMore, Adds
  <1>3. PICK W : W = TestView'
    OBVIOUS
  <1>4. PICK R : R = Range(work.txs)'
    OBVIOUS
  <1>5. R = Range(work.txs) \cup {t}
    BY <1>4, AddedRange DEF CollectingMore
  <1>6. TestPos # NoPos
    BY DEF TestPos, NoPos
  <1>7. ASSUME NEW u \in Tx
        PROVE  /\ u \in R => W[u].pos = TestPos /\ W[u].pos # NoPos
               /\ u \notin R => W[u].pos = dbTx[u].pos
    BY <1>2, <1>3, <1>5, <1>6 DEF Recorded, IndexAgrees
  <1> QED  BY <1>1, <1>3, <1>4, <1>7 DEF IndexAgrees

LEMMA AddingFits ==
    ASSUME CollectingMore, Fits, NEW t \in Tx, Adds(t)
    PROVE  Fits'
  <1>1. UNCHANGED <<dbTx, dbName, pindexBest>>
    BY DEF Adds, vars, diskVars, chainVars
  <1>2. /\ dbTx \in TxIndexType /\ NameIndexType(dbName) /\ CheckTransaction(t)
        /\ Checked(work.txs) /\ mapTransactions \subseteq Tx /\ pindexBest \in Block
    <2>1. \A i \in 1 .. Len(work.txs) : work.txs[i] \in Range(work.txs)
      BY DEF CollectingMore, Range
    <2> QED  BY <2>1 DEF CollectingMore, Collecting, NodeInv, TypeOK, StoreType, PoolType, ChainType,
                         PoolShaped, Adds, Checked
  <1>3. ASSUME NEW b \in Block, hashPrevBlock[b] = pindexBest
        PROVE  ViewFits(b, ViewAfter(dbTx, dbName, work.txs, b))'
    <2>1. PICK v : v = ViewAfter(dbTx, dbName, work.txs, b)
      OBVIOUS
    <2>2. PICK i \in Nat : i = Len(work.txs) + 2
      BY DEF CollectingMore
    <2>3. PICK x : x = ViewWith(t, b, i, v)
      OBVIOUS
    <2>4. ViewFits(b, v)
      BY <1>3, <2>1 DEF Fits
    <2>5. ViewFits(b, x)'
      BY <1>3, <2>3, <2>4, AddedView
    <2>6. ViewAfter(dbTx, dbName, Append(work.txs, t), b) = x
      BY <1>2, <2>1, <2>2, <2>3, ViewOfAppend
    <2>7. (work.txs)' = Append(work.txs, t)
      BY DEF Adds
    <2>8. ViewAfter(dbTx', dbName', work'.txs, b) = x
      BY <1>1, <2>6, <2>7
    <2> QED  BY <2>5, <2>8
  <1>4. \A u \in Range(work.txs)' : CollectedOK(u)'
    <2>1. PICK tv : tv = TestView
      OBVIOUS
    <2>2. IndexAgrees(tv)
      BY <2>1 DEF Fits
    <2> QED  BY <2>2, AddedFacts
  <1>5. IndexAgrees(TestView)'
    BY AddedTest DEF Fits
  <1> QED  BY <1>1, <1>3, <1>4, <1>5 DEF Fits

LEMMA AddTxAdds ==
    ASSUME WorkShape, CollectedOnce, NEW t, AddTx(t)
    PROVE  /\ Adds(t) /\ phase' = phase /\ work.prev' = work.prev
           /\ mapPriority' = (mapPriority \ {t}) \cup Released(t)
           /\ DOMAIN mapDependers' = DOMAIN mapDependers \ Released(t)
  <1>1. PICK x, s, n : work = [prev |-> x, txs |-> s, nFees |-> n]
    BY DEF WorkShape
  <1>2. work' = [prev |-> x, txs |-> Append(s, t), nFees |-> n + TxFee(t)]
    BY <1>1 DEF AddTx
  <1>3. t \in mapTransactions /\ t \notin Range(work.txs)
    BY DEF AddTx, CollectedOnce
  <1> QED  BY <1>1, <1>2, <1>3 DEF AddTx, Adds

(* AddTx keeps the invariant. *)
LEMMA AddTxCollects ==
    ASSUME NodeInv, NameIndexOK, PoolShaped, PoolOutside, CollectInv, NEW t, AddTx(t)
    PROVE  stage' = "idle" /\ CollectedOnce' /\ (work.prev' = pindexBest' => Fits')
  <1>1. /\ WorkShape /\ CollectedOnce /\ stage = "idle" /\ (work.prev = pindexBest => Fits)
    BY DEF AddTx, CollectInv
  <1>2. /\ Adds(t) /\ phase' = phase /\ work.prev' = work.prev
        /\ mapPriority' = (mapPriority \ {t}) \cup Released(t)
        /\ DOMAIN mapDependers' = DOMAIN mapDependers \ Released(t)
    BY <1>1, AddTxAdds
  <1>3. UNCHANGED <<stage, dbTx, pindexBest, mapTransactions>>
    BY <1>2 DEF Adds, vars, diskVars, chainVars, poolVars, jobVars
  <1>4. t \in Tx /\ t \in mapPriority
    BY <1>2 DEF AddTx, Adds, NodeInv, TypeOK, PoolType
  <1>5. work.txs \in Seq(Tx) /\ TestView \in TxIndexType
    BY <1>1 DEF CollectedOnce
  <1>6. PICK R : R = Range(work.txs)'
    OBVIOUS
  <1>7. R = Range(work.txs) \cup {t}
    BY <1>2, <1>4, <1>5, <1>6, AddedRange
  <1>8. (work.txs)' \in Seq(Tx)
    BY <1>2, <1>4, <1>5 DEF Adds
  <1>9. TestView' \in TxIndexType
    BY <1>2, <1>3, <1>4, <1>5, TestRecorded DEF Adds, Recorded
  <1>10. DOMAIN mapTestPool' = DOMAIN mapTestPool \cup PrevTxs(t) \cup {t}
    BY <1>2 DEF Adds, TestPoolWith
  <1>11. Released(t) \subseteq DOMAIN mapDependers
    BY DEF Released
  <1>12. /\ R \cup mapPriority' \cup DOMAIN mapDependers' \subseteq mapTransactions'
         /\ mapPriority' \cap R = {}
         /\ DOMAIN mapDependers' \cap (R \cup mapPriority') = {}
         /\ R \subseteq DOMAIN mapTestPool'
    BY <1>1, <1>2, <1>3, <1>4, <1>7, <1>10, <1>11 DEF CollectedOnce
  <1>13. CollectedOnce'
    BY <1>6, <1>8, <1>9, <1>12 DEF CollectedOnce
  <1>14. ASSUME work.prev' = pindexBest' PROVE Fits'
    <2>1. work.prev = pindexBest
      BY <1>2, <1>3, <1>14
    <2>2. Fits
      BY <1>1, <2>1
    <2>3. CollectingMore
      BY <1>1, <2>1, <2>2 DEF CollectingMore, Collecting, CollectedOnce, Fits
    <2> QED  BY <1>2, <1>4, <2>2, <2>3, AddingFits
  <1> QED  BY <1>1, <1>3, <1>13, <1>14

(* ScanPool begins with an empty block. *)
LEMMA ScanPoolCollects ==
    ASSUME NodeInv, CollectInv, ScanPool
    PROVE  stage' = "idle" /\ CollectedOnce' /\ Fits'
  <1>1. /\ work.txs = <<>> /\ work.nFees = 0 /\ stage = "idle" /\ work' = work
        /\ mapTestPool' = <<>>
        /\ UNCHANGED <<stage, dbTx, dbName, pindexBest, mapTransactions, mapNamePending>>
    BY DEF CollectInv, ScanPool, vars, diskVars, chainVars, poolVars, jobVars
  <1>2. /\ dbTx \in TxIndexType /\ NameIndexType(dbName) /\ pindexBest \in Block
    BY DEF NodeInv, TypeOK, StoreType, ChainType
  <1>3. Range(<<>>) = {} /\ <<>> \in Seq(Tx)
    BY DEF Range
  <1>4. Range(work.txs)' = {}
    BY <1>1, <1>3
  <1>5. TestView' = dbTx
    <2>1. TestView' = [t \in Tx |-> dbTx[t]]
      BY <1>1 DEF TestView
    <2> QED  BY <1>2, <2>1 DEF TxIndexType
  <1>6. CollectedOnce'
    <2>1. (work.txs)' \in Seq(Tx)
      BY <1>1, <1>3
    <2>2. /\ mapPriority' \cup DOMAIN mapDependers' \subseteq mapTransactions'
          /\ DOMAIN mapDependers' \cap mapPriority' = {}
      BY <1>1 DEF ScanPool, HasPrevInfo
    <2> QED  BY <1>2, <1>4, <1>5, <2>1, <2>2 DEF CollectedOnce
  <1>7. IndexAgrees(TestView)'
    BY <1>1, <1>4, <1>5 DEF IndexAgrees
  <1>8. ASSUME NEW b \in Block
        PROVE  ViewFits(b, ViewAfter(dbTx, dbName, work.txs, b))'
    <2>1. PICK x : x = StartView(dbTx, dbName)
      OBVIOUS
    <2>2. x.tv = dbTx /\ x.nv = dbName /\ x.nFees = 0 /\ x.ok = TRUE
          /\ x = [tv |-> dbTx, nv |-> dbName, nFees |-> 0, ok |-> TRUE]
      BY <2>1 DEF StartView
    <2>3. x \in ViewSet(dbName')
      BY <1>1, <1>2, <2>2 DEF ViewSet, NameIndexes
    <2>4. IndexAgrees(x.tv)'
      BY <1>1, <1>4, <1>5, <2>2 DEF IndexAgrees
    <2>5. NamesAgree(x.nv)'
      BY <1>1, <2>2 DEF NamesAgree
    <2>6. ViewFits(b, x)'
      BY <1>1, <2>2, <2>3, <2>4, <2>5 DEF ViewFits
    <2>7. ViewAfter(dbTx', dbName', work'.txs, b) = x
      BY <1>1, <1>2, <2>1, ViewOfNone
    <2> QED  BY <2>6, <2>7
  <1> QED  BY <1>1, <1>4, <1>6, <1>7, <1>8 DEF Fits

LEMMA CollectInvNext ==
    ASSUME NodeInv, NameIndexOK, PoolShaped, PoolOutside, CollectInv, [MinerNext]_minerAll
    PROVE  CollectInv'
  <1>1. WorkShape'
    BY WorkShapeNext DEF CollectInv
  <1> DEFINE Away == phase' \notin {"entered", "collect"}
             Kept == phase' = phase /\ phase # "collect" /\ work' = work
  <1>2. ASSUME Away \/ Kept PROVE CollectInv'
    BY <1>1, <1>2 DEF CollectInv
  <1>3. CASE NodeStep
    BY <1>2, <1>3 DEF NodeStep, callVars
  <1>4. CASE MinerRestart \/ CallGetWork \/ ClearOldBlocks \/ SetPrev \/ NewBlockDone
    BY <1>2, <1>4 DEF MinerRestart, CallGetWork, ClearOldBlocks, SetPrev, NewBlockDone
  <1>5. CASE CreateNewBlock
    <2>1. phase' = "entered" /\ work' = [prev |-> pindexBest, txs |-> <<>>, nFees |-> 0]
      BY <1>5 DEF CreateNewBlock, EmptyWork
    <2> QED  BY <1>1, <2>1 DEF CollectInv
  <1>6. CASE ScanPool
    <2>1. phase' = "collect"
      BY <1>6 DEF ScanPool
    <2> QED  BY <1>1, <1>6, <2>1, ScanPoolCollects DEF CollectInv
  <1>7. ASSUME NEW t \in mapPriority, AddTx(t) PROVE CollectInv'
    <2>1. phase' = "collect"
      BY <1>7 DEF AddTx
    <2> QED  BY <1>1, <1>7, <2>1, AddTxCollects DEF CollectInv
  <1>8. ASSUME UNCHANGED <<vars, work, mapDependers, mapTestPool, phase>>, mapPriority' \subseteq mapPriority
        PROVE  CollectInv'
    <2>1. /\ UNCHANGED <<stage, dbTx, dbName, pindexBest, mapTransactions, mapNamePending>>
          /\ UNCHANGED <<work, mapDependers, mapTestPool, phase>>
      BY <1>8 DEF vars, diskVars, chainVars, poolVars, jobVars
    <2>2. TestView' = TestView
      BY <2>1 DEF TestView
    <2>3. CollectedOnce => CollectedOnce'
      BY <1>8, <2>1, <2>2 DEF CollectedOnce
    <2>4. Fits => Fits'
      BY <2>1, <2>2 DEF Fits, ViewFits, IndexAgrees, NamesAgree, CollectedOK, UpdatesLast, IsFree,
                        ExpiresNow, NotPending
    <2> QED  BY <1>1, <2>1, <2>3, <2>4 DEF CollectInv
  <1>9. ASSUME NEW t \in mapPriority, SkipTx(t) PROVE CollectInv'
    <2>1. /\ UNCHANGED <<vars, work, mapDependers, mapTestPool, phase>>
          /\ mapPriority' \subseteq mapPriority
      BY <1>9 DEF SkipTx
    <2> QED  BY <1>8, <2>1
  <1>10. CASE UNCHANGED minerAll
    <2>1. /\ UNCHANGED <<vars, work, mapDependers, mapTestPool, phase>>
          /\ mapPriority' \subseteq mapPriority
      BY <1>10 DEF minerAll, minerVars, callVars
    <2> QED  BY <1>8, <2>1
  <1>11. ASSUME NEW b \in Block, NEW w \in mapNewBlock, CheckWork(b, w) PROVE CollectInv'
    BY <1>2, <1>11 DEF CheckWork, minerVars, callVars
  <1> QED  BY <1>3, <1>4, <1>5, <1>6, <1>7, <1>9, <1>10, <1>11 DEF MinerNext, MinerStep

LEMMA BlockValueType ==
    ASSUME NEW h \in Nat, NEW x \in Int
    PROVE  GetBlockValue(h, x) \in Int
  <1>1. HalvedSubsidy = CHOOSE f : Halves(SUBSIDY, f)
    BY DEF HalvedSubsidy, Halves
  <1>2. HalvedSubsidy \in [Nat -> Nat]
    BY <1>1, RulesAssumption, Halving
  <1>3. (h \div HALVING) \in Nat
    <2>1. HALVING \in Nat \ {0}
      BY RulesAssumption
    <2>2. \A d \in Nat \ {0} : (h \div d) \in Nat
      OBVIOUS
    <2> QED  BY <2>1, <2>2
  <1> DEFINE s == HalvedSubsidy[h \div HALVING]
  <1>4. s \in Nat
    BY <1>2, <1>3
  <1>5. GetBlockValue(h, x) = s + x
    BY DEF GetBlockValue
  <1> HIDE DEF s
  <1> QED  BY <1>4, <1>5

(* The block CreateNewBlock has collected connects as b, or one of the two  *)
(* exceptions holds.                                                        *)
LEMMA NewBlockConnects ==
    ASSUME NodeInv, CollectInv, phase = "collect", work.prev = pindexBest,
           NEW b \in Block, hashPrevBlock[b] = work.prev
    PROVE  \/ ConnectsAs(NewBlock, b)
           \/ \E t \in Range(work.txs) : ExpiresNow(t, b)
           \/ Rivals(Range(work.txs)) /\ \E t \in Range(work.txs) : NotPending(t)
  <1> DEFINE v == ViewAfter(dbTx, dbName, work.txs, b)
             h == nHeight[work.prev] + 1
  <1>1. ViewFits(b, v)
    BY DEF CollectInv, Fits
  <1>2. v.nFees = work.nFees /\ v.nFees \in Int
    BY <1>1 DEF ViewFits, ViewSet
  <1>3. NewBlock.txs = work.txs /\ NewBlock.nValue = GetBlockValue(h, work.nFees)
    BY DEF NewBlock
  <1>4. Connecting(NewBlock, b) = v
    BY <1>3, ConnectingIs
  <1>5. nHeight[b] = h /\ h \in Nat
    BY BlockTree DEF NodeInv, TypeOK, ChainType
  <1> HIDE DEF v, h
  <1>6. GetBlockValue(h, v.nFees) <= GetBlockValue(h, v.nFees)
    BY <1>2, <1>5, BlockValueType
  <1>7. v.ok => ConnectsAs(NewBlock, b)
    BY <1>2, <1>3, <1>4, <1>5, <1>6 DEF ConnectsAs
  <1> QED  BY <1>1, <1>7 DEF ViewFits

LEMMA TemplateFits ==
    ASSUME NodeInv, CollectInv
    PROVE  TemplateConnects
  BY NewBlockConnects DEF TemplateConnects

LEMMA CollectInvariant == MinerSpec => []CollectInv
  <1>1. MinerInit => CollectInv
    BY DEF MinerInit, NotCalled, CollectInv, WorkShape, EmptyWork
  <1>2. NodeInv /\ NameIndexOK /\ PoolShaped /\ PoolOutside /\ CollectInv /\ [MinerNext]_minerAll
            => CollectInv'
    BY CollectInvNext
  <1> QED  BY <1>1, <1>2, MinerLeavesNodeAlone, NodeInvariant, NamesInvariant,
              PoolShapedInvariant, PoolOutsideInvariant, PTL DEF MinerSpec

(* TemplateConnects.  Nothing moves while CreateNewBlock holds cs_main, so  *)
(* what ConnectInputs accepts with mapTestPool on top of the databases can  *)
(* be compared, transaction by transaction, with what ConnectBlock will see *)
(* one height later: the invariant CollectInv.                              *)
THEOREM TemplatesConnect == MinerSpec => []TemplateConnects
  <1>1. NodeInv /\ CollectInv => TemplateConnects
    BY TemplateFits
  <1> QED  BY <1>1, MinerLeavesNodeAlone, NodeInvariant, CollectInvariant, PTL

-----------------------------------------------------------------------------
(* What was handed out stays valid (WorkStaysValid).                       *)

(* b, as the solved block w, connects to the databases. *)
BlockFits(w, b) ==
    \/ ConnectsAs(w, b) \/ Rivals(Range(w.txs))
    \/ \E t \in Range(w.txs) : ExpiresNow(t, b)

(* A block made on the tip the databases belong to. *)
HandedOutFit ==
    \A w \in mapNewBlock : w.prev = dbBest =>
        \A b \in Block : hashPrevBlock[b] = w.prev => BlockFits(w, b)

(* What the databases hold changes with the tip they belong to. *)
LEMMA DatabasesMove ==
    ASSUME NodeInv, JobHasMoreWork, [Next]_vars
    PROVE  \/ UNCHANGED <<dbTx, dbName, dbBest>>
           \/ dbBest' \in Block /\ bnChainWork[dbBest'] > bnChainWork[pindexBest]
  <1>1. CASE TxnCommit
    <2>1. dbBest' = pindexNew /\ pindexNew \in Block /\ pindexNew # NoBlock
      BY <1>1, JobFacts, BlockTreeAssumption DEF TxnCommit, ReadyToCommit
    <2> QED  BY <2>1 DEF JobHasMoreWork, HasMoreWork
  <1> QED  BY <1>1, StepKinds DEF QuietStep, DisconnectInputs, DisconnectBlock, ConnectNext,
                                  ConnectInputs, ConnectBlock, AbortingStep, Abort, Restart, diskVars

LEMMA HandedOutNext ==
    ASSUME NodeInv, JobHasMoreWork, ReadsInOrder, CollectInv, HandedOutFit, [MinerNext]_minerAll
    PROVE  HandedOutFit'
  <1>1. ASSUME UNCHANGED <<dbTx, dbName, dbBest>>, NEW w \in mapNewBlock, w.prev = dbBest,
               NEW b \in Block, hashPrevBlock[b] = w.prev
        PROVE  BlockFits(w, b)'
    <2>1. BlockFits(w, b)
      BY <1>1 DEF HandedOutFit
    <2>2. Connecting(w, b)' = Connecting(w, b)
      BY <1>1 DEF Connecting
    <2> QED  BY <1>1, <2>1, <2>2 DEF BlockFits, ConnectsAs, ExpiresNow
  <1>2. ASSUME mapNewBlock' \subseteq mapNewBlock PROVE HandedOutFit'
    <2>1. CASE UNCHANGED <<dbTx, dbName, dbBest>>
      BY <1>1, <1>2, <2>1 DEF HandedOutFit
    <2>2. CASE dbBest' \in Block /\ bnChainWork[dbBest'] > bnChainWork[pindexBest]
      <3>1. ASSUME NEW w \in mapNewBlock PROVE w.prev # dbBest'
        <4>1. w.prev \in Block /\ (w.prev = pindexBest \/ bnChainWork[w.prev] < bnChainWork[pindexBest])
          BY DEF ReadsInOrder, Seen
        <4>2. /\ bnChainWork[w.prev] \in Nat /\ bnChainWork[pindexBest] \in Nat
              /\ bnChainWork[dbBest'] \in Nat
          BY <2>2, <4>1, BlockTree DEF NodeInv, TypeOK, ChainType
        <4> QED  BY <2>2, <4>1, <4>2
      <3> QED  BY <1>2, <3>1 DEF HandedOutFit
    <2> QED  BY <2>1, <2>2, MinerSteps, DatabasesMove
  <1>3. CASE NewBlockDone
    <2>1. /\ phase = "collect" /\ mapNewBlock' = mapNewBlock \cup {NewBlock}
          /\ UNCHANGED <<dbTx, dbName, dbBest>> /\ stage = "idle"
      BY <1>3 DEF NewBlockDone, vars, diskVars, CollectInv
    <2>2. dbBest = pindexBest
      BY <2>1 DEF NodeInv, JobOK
    <2>3. PICK x : x = NewBlock
      OBVIOUS
    <2>4. x.prev = work.prev
      BY <2>3 DEF NewBlock
    <2>5. ASSUME x.prev = dbBest, NEW b \in Block, hashPrevBlock[b] = x.prev
          PROVE  BlockFits(x, b)'
      <3>1. BlockFits(x, b)
        BY <2>1, <2>2, <2>3, <2>4, <2>5, NewBlockConnects DEF BlockFits, NewBlock
      <3>2. Connecting(x, b)' = Connecting(x, b)
        BY <2>1 DEF Connecting
      <3> QED  BY <2>1, <3>1, <3>2 DEF BlockFits, ConnectsAs, ExpiresNow
    <2> QED  BY <1>1, <2>1, <2>3, <2>5 DEF HandedOutFit
  <1>4. CASE \/ NodeStep \/ CallGetWork \/ ClearOldBlocks \/ SetPrev \/ CreateNewBlock
             \/ ScanPool \/ MinerRestart \/ UNCHANGED minerAll
    BY <1>2, <1>4 DEF NodeStep, CallGetWork, ClearOldBlocks, SetPrev, CreateNewBlock, ScanPool,
                      MinerRestart, minerAll, minerVars
  <1>5. ASSUME NEW t \in mapPriority, AddTx(t) \/ SkipTx(t) PROVE HandedOutFit'
    BY <1>2, <1>5 DEF AddTx, SkipTx
  <1>6. ASSUME NEW b \in Block, NEW w \in mapNewBlock, CheckWork(b, w) PROVE HandedOutFit'
    BY <1>2, <1>6 DEF CheckWork, minerVars
  <1> QED  BY <1>3, <1>4, <1>5, <1>6 DEF MinerNext, MinerStep

(* WorkStaysValid.  The databases change with the tip they belong to, and   *)
(* only to one with more work than any block handed out was made on.        *)
THEOREM HandedOutWorkStaysValid == MinerSpec => []WorkStaysValid
  <1>1. MinerInit => HandedOutFit
    BY DEF MinerInit, HandedOutFit
  <1>2. NodeInv /\ JobHasMoreWork /\ ReadsInOrder /\ CollectInv /\ HandedOutFit
           /\ [MinerNext]_minerAll => HandedOutFit'
    BY HandedOutNext
  <1>3. NodeInv /\ HandedOutFit => WorkStaysValid
    BY DEF NodeInv, JobOK, HandedOutFit, BlockFits, WorkStaysValid
  <1> QED  BY <1>1, <1>2, <1>3, MinerLeavesNodeAlone, NodeInvariant, JobInvariant, ReadsInvariant,
              CollectInvariant, PTL DEF MinerSpec

-----------------------------------------------------------------------------
(* name_update and the pool (UpdateRefusedOnlyWhenLost).                   *)

(* name_update finds the transaction of the last entry: it is in the index, *)
(* at the place of the entry, and its coin is unspent.                      *)
LEMMA TxOfName ==
    ASSUME NodeInv, NameIndexOK, OneLiveCoin, stage = "idle", NEW n, GetTxOfName(n) \in Tx
    PROVE  LET u == GetTxOfName(n)
           IN  /\ HasTxIndex(dbTx, u) /\ ~IsCoinBase(u) /\ NamePopped(u) /\ NameOut(u).name = n
               /\ CheckNameTxPos(dbName, n, dbTx[u].pos)
               /\ NameCoin(u) \notin dbTx[u].spent
  <1> DEFINE s == VtxPos(dbName, n)
             u == GetTxOfName(n)
             k == Len(s)
  <1>1. /\ NameIndexType(dbName) /\ dbTx \in TxIndexType /\ dbBest \in Block
        /\ txTx = dbTx /\ txName = dbName
    BY DEF NodeInv, TypeOK, StoreType, ChainType, JobOK, Committed
  <1>2. s # <<>> /\ u = vtx[Last(s).pos[1]][Last(s).pos[2]]
    BY NoTxAssumption DEF GetTxOfName
  <1>3. s \in Seq(CNameIndex) /\ k \in Nat /\ k \in DOMAIN s /\ Last(s) = s[k]
    <2>1. s \in Seq(CNameIndex)
      BY <1>1, VtxPosType
    <2> QED  BY <1>2, <2>1 DEF Last
  <1>4. n \in DOMAIN dbName /\ dbName[n] = s
    BY <1>2 DEF VtxPos
  <1>5. u = TxAt(s[k].pos)
    BY <1>2, <1>3 DEF TxAt
  <1>6. /\ EntryOK(dbTx, dbName, n, k)
        /\ u \in IndexedTx(dbTx) /\ dbTx[u].pos = s[k].pos
    BY <1>1, <1>3, <1>4, <1>5, EntryPosition DEF NodeInv, NameIndexOK, NameView
  <1>7. NamePopped(u) /\ NameOut(u).name = n /\ NameInput(u) \in vin[u]
    BY <1>4, <1>5, <1>6 DEF EntryOK
  <1>8. CheckNameTxPos(dbName, n, dbTx[u].pos)
    BY <1>2, <1>6 DEF CheckNameTxPos
  <1>9. PICK w \in UnspentNameCoins(n) : txTx[w].pos = Last(s).pos
    BY <1>1, <1>2, <1>4 DEF OneLiveCoin
  <1>10. w = u
    BY <1>1, <1>3, <1>6, <1>9, PositionUnique DEF UnspentNameCoins, NodeInv
  <1>11. NameCoin(u) \notin dbTx[u].spent
    BY <1>1, <1>9, <1>10 DEF UnspentNameCoins
  <1> HIDE DEF u
  <1> QED  BY <1>6, <1>7, <1>8, <1>11 DEF IndexedTx, IsCoinBase, u

(* What is known when name_update has made its checks. *)
UpdateFacts(t) ==
    LET o == NameInput(t)
    IN  /\ o \in vin[t] /\ o \in Tx \X (Nat \ {0}) /\ o \in Mine /\ o = <<o[1], o[2]>>
        /\ NameInputs(t) = {o} /\ Out(o).op \in {"firstupdate", "update"}
        /\ Out(o).name = NameOut(t).name
        /\ HasTxIndex(dbTx, o[1]) /\ ~IsCoinBase(o[1]) /\ o[2] <= Len(vout[o[1]])
        /\ CheckNameTxPos(dbName, NameOut(t).name, dbTx[o[1]].pos)
        /\ o[2] \notin dbTx[o[1]].spent

LEMMA UpdateFactsHold ==
    ASSUME UpdatesAsMade, NodeInv, NameIndexOK, OneLiveCoin, stage = "idle",
           wallet.txs \subseteq Tx, NEW t \in Commands, CanUpdate(t)
    PROVE  UpdateFacts(t)
  <1> DEFINE o == NameInput(t)
             n == NameOut(t).name
             u == GetTxOfName(n)
  <1>1. t \in Tx /\ isNameTx[t] /\ NameOut(t).op = "update"
    BY CommandsAssumption DEF CanUpdate
  <1>2. NameInputs(t) = {o} /\ \A p \in vin[t] : p[2] <= Len(vout[p[1]])
    BY <1>1 DEF UpdatesAsMade
  <1>3. o \in vin[t] /\ Out(o).op \in NameOps
    BY <1>2 DEF NameInputs
  <1>4. o \in Tx \X (Nat \ {0}) /\ o = <<o[1], o[2]>> /\ o[2] <= Len(vout[o[1]])
    BY <1>1, <1>2, <1>3, TxAssumption
  <1>5. o[1] = u /\ u \in Tx /\ o \in Mine
    BY DEF CanUpdate, CreateWithInputTx
  <1>6. /\ HasTxIndex(dbTx, u) /\ ~IsCoinBase(u) /\ NamePopped(u) /\ NameOut(u).name = n
        /\ CheckNameTxPos(dbName, n, dbTx[u].pos)
        /\ NameCoin(u) \notin dbTx[u].spent
    <2> HIDE DEF n
    <2> QED  BY <1>5, TxOfName
  <1>7. vout[u] \in Seq(TxOut) /\ DecodeNameTx(u)
    BY <1>5, <1>6, TxAssumption DEF NamePopped
  <1> HIDE DEF o, u
  <1>8. o[2] \in NameOutputs(u)
    BY <1>3, <1>4, <1>5, <1>7 DEF NameOutputs, Out
  <1>9. o[2] = NameCoin(u) /\ Out(o) = NameOut(u)
    BY <1>5, <1>7, <1>8, TheNameOutput DEF Out
  <1> QED  BY <1>2, <1>3, <1>4, <1>5, <1>6, <1>9 DEF UpdateFacts, NamePopped, o

(* The name coin is not spent in the pool, or mapNamePending has lost the   *)
(* operation that spends it.                                                *)
LEMMA NameCoinFree ==
    ASSUME MatchingSpends, NodeInv, PoolShaped, PoolIndices, NEW t \in Commands,
           CanUpdate(t), UpdateFacts(t)
    PROVE  mapNextTx[NameInput(t)] = NoTx \/ PendingLost(NameOut(t).name)
  <1> DEFINE o == NameInput(t)
             n == NameOut(t).name
             u == mapNextTx[o]
  <1> SUFFICES ASSUME u # NoTx PROVE PendingLost(n)
    OBVIOUS
  <1>1. t \in Tx /\ o \in vin[t] /\ o \in Mine /\ Out(o).op \in {"firstupdate", "update"}
        /\ Out(o).name = n
    BY CommandsAssumption DEF UpdateFacts
  <1>2. o \in OutPoint
    BY <1>1 DEF OutPoint
  <1>3. u \in mapTransactions /\ o \in vin[u] /\ u \in Tx
    BY <1>2 DEF PoolIndices, InPointsValid, NodeInv, TypeOK, PoolType
  <1> HIDE DEF o, u, n
  <1>4. o \in NameInputs(u)
    BY <1>1, <1>3 DEF NameInputs, NameOps
  <1>5. /\ isNameTx[u] /\ NameInputs(u) = {NameInput(u)}
        /\ \/ NameOut(u).op = "firstupdate" /\ Out(NameInput(u)).op = "new"
           \/ NameOut(u).op = "update" /\ Out(NameInput(u)).op \in {"firstupdate", "update"}
    BY <1>3, <1>4 DEF PoolShaped, NameShape
  <1>6. NameInput(u) = o
    BY <1>4, <1>5
  <1>7. NameOut(u).op = "update"
    BY <1>1, <1>5, <1>6
  <1>8. NameOut(u).name = n
    BY <1>1, <1>3, <1>5, <1>7 DEF MatchingSpends
  <1>9. mapNamePending[n] = {}
    BY DEF CanUpdate, NothingPending, n
  <1> QED  BY <1>3, <1>5, <1>7, <1>8, <1>9 DEF PendingLost

(* The coins that pay for the update. *)
LEMMA PaymentOK ==
    ASSUME UpdatesAsMade, NodeInv, NoFalseConfirmation, stage = "idle", PaymentInOrder,
           NEW t \in Commands, CanUpdate(t), NEW o \in vin[t] \ {NameInput(t)}
    PROVE  InputOK(o, pindexBest, dbTx, "pool", mapTransactions) /\ mapNextTx[o] = NoTx
  <1>1. /\ ~Forgotten(o) /\ mapNextTx[o] = NoTx
        /\ HasTxIndex(dbTx, o[1]) \/ o[1] \in mapTransactions
    BY DEF PaymentInOrder
  <1>2. CoinAvailable(o)
    BY DEF CanUpdate, CreateWithInputTx
  <1>3. o[2] <= Len(vout[o[1]])
    BY DEF UpdatesAsMade, CanUpdate
  <1>4. o[2] \notin dbTx[o[1]].spent
    BY <1>1, <1>2 DEF Forgotten, CoinAvailable, MyCoins
  <1>5. ASSUME IsCoinBase(o[1])
        PROVE  CheckTransactionAtRelativeDepth(pindexBest, dbTx[o[1]].pos, COINBASE_MATURITY) = -1
    <2> DEFINE b == wallet.hashBlock[o[1]]
               x == nHeight[b]
               y == nHeight[pindexBest]
    <2>1. o[1] \in wallet.txs /\ GetDepthInMainChain(o[1]) >= COINBASE_MATURITY + 20
      BY <1>2, <1>5 DEF CoinAvailable
    <2>2. COINBASE_MATURITY \in Nat /\ pindexBest \in Block
      BY TxAssumption DEF NodeInv, TypeOK, ChainType
    <2>3. GetDepthInMainChain(o[1]) =
              IF b # NoBlock /\ b \in Ancestors[pindexBest] THEN y - x + 1 ELSE 0
      BY DEF GetDepthInMainChain, InMainChain
    <2>4. b \in Ancestors[pindexBest]
      BY <2>1, <2>2, <2>3
    <2>5. x \in Nat /\ y \in Nat
      BY <2>2, <2>4, HeightOnChain
    <2> HIDE DEF x, y
    <2>6. y - x + 1 >= COINBASE_MATURITY + 20
      BY <2>1, <2>2, <2>3
    <2>7. GetDepthInMainChain(o[1]) >= 1 /\ ~(y - x < COINBASE_MATURITY)
      <3>1. GetDepthInMainChain(o[1]) = y - x + 1
        BY <2>1, <2>2, <2>3
      <3> QED  BY <2>2, <2>5, <2>6, <3>1
    <2>8. dbTx[o[1]].pos[1] = b
      BY <2>1, <2>7 DEF NoFalseConfirmation
    <2> QED  BY <2>7, <2>8 DEF CheckTransactionAtRelativeDepth, x, y
  <1> QED  BY <1>1, <1>3, <1>4, <1>5 DEF InputOK

LEMMA UpdateTaken ==
    ASSUME UpdatesAsMade, MatchingSpends, NodeInv, NameIndexOK, OneLiveCoin, PoolShaped,
           PoolIndices, NoFalseConfirmation, wallet.txs \subseteq Tx, PaymentInOrder
    PROVE  UpdateRefusedOnlyWhenLost
  <1> SUFFICES ASSUME stage = "idle", NEW t \in Commands, CanUpdate(t),
                      ~PendingLost(NameOut(t).name)
               PROVE  Reacceptable(t)
    BY DEF UpdateRefusedOnlyWhenLost
  <1> DEFINE o == NameInput(t)
  <1>1. UpdateFacts(t)
    BY UpdateFactsHold
  <1>2. /\ t \in Tx /\ isNameTx[t] /\ NameOut(t).op = "update" /\ CheckTransaction(t)
        /\ DecodeNameTx(t) /\ NameOut(t).nValue >= MIN_AMOUNT /\ TxFee(t) >= 0
    BY CommandsAssumption DEF CanUpdate, UpdatesAsMade, CheckTransaction
  <1>3. t \notin mapTransactions /\ ~HasTxIndex(dbTx, t)
    BY DEF CanUpdate, CreateWithInputTx
  <1>4. ASSUME NEW p \in vin[t]
        PROVE  InputOK(p, pindexBest, dbTx, "pool", mapTransactions) /\ mapNextTx[p] = NoTx
    <2>1. CASE p = o
      BY <1>1, <2>1, NameCoinFree DEF UpdateFacts, InputOK
    <2>2. CASE p # o
      BY <2>2, PaymentOK
    <2> QED  BY <2>1, <2>2
  <1>5. PoolAdmits(t)
    BY <1>1, <1>2, <1>3, <1>4 DEF PoolAdmits, UpdateFacts, IsCoinBase
  <1>6. ~Mismatch(t) /\ ~OnTopOfBug(t, dbTx, dbName)
    BY <1>1, <1>2 DEF UpdateFacts, Mismatch, OnTopOfBug
  <1>7. CheckNameUpdate(t, pindexBest, dbTx, "pool")
    BY <1>1, <1>6 DEF CheckNameUpdate, UpdateFacts
  <1>8. HookConnectInputs(t, pindexBest, dbTx, dbName, "pool", {}, {})
    BY <1>1, <1>2, <1>6, <1>7 DEF HookConnectInputs, UpdateFacts
  <1>9. CheckInputs(t)
    BY <1>2, <1>3, <1>4, <1>8 DEF CheckInputs, InputsOK
  <1> QED  BY <1>5, <1>9 DEF Reacceptable

(* UpdateRefusedOnlyWhenLost, while the coins that pay for the update are   *)
(* there.  The coin name_update spends is that of the last entry of the     *)
(* name index, which is unspent in the chain because a name has one holder; *)
(* a pool transaction that spends it can only be an update of the same      *)
(* name, which mapNamePending should have named.                            *)
THEOREM UpdatesAreTaken ==
    NoNameBug /\ UpdatesAsMade /\ MatchingSpends =>
        (NamesSpec => [](PaymentInOrder => UpdateRefusedOnlyWhenLost))
  <1> SUFFICES ASSUME NoNameBug, UpdatesAsMade, MatchingSpends
               PROVE  NamesSpec => [](PaymentInOrder => UpdateRefusedOnlyWhenLost)
    OBVIOUS
  <1>1. Spec => []OneLiveCoin
    BY OneHolderPerName
  <1>2. NodeInv /\ WalletInv => wallet.txs \subseteq Tx
    BY WalletNow, WalletFields DEF WalletInv
  <1>3. NodeInv /\ NameIndexOK /\ OneLiveCoin /\ PoolShaped /\ PoolIndices /\ NoFalseConfirmation
           /\ wallet.txs \subseteq Tx => (PaymentInOrder => UpdateRefusedOnlyWhenLost)
    BY UpdateTaken
  <1> QED  BY <1>1, <1>2, <1>3, WalletLeavesNodeAlone, NodeInvariant, NamesInvariant,
              PoolShapedInvariant, PoolIndicesInvariant, ConfirmationsAreTrue, WalletInvariant, PTL
=============================================================================
