----------------------------- MODULE NodeProofs -----------------------------
(***************************************************************************)
(* NodeInv is an invariant of NodeCore, for every tree of blocks, every    *)
(* set of transactions and any number of faults; with it its consequences, *)
(* and the two indices of the memory pool.                                 *)
(***************************************************************************)
EXTENDS NodeProps, InductionProofs

-----------------------------------------------------------------------------
(* Along hashPrevBlock every block leads to the genesis block. *)
LEMMA BlocksDescend == Descends(Block, {Genesis}, hashPrevBlock, nHeight)
  BY BlockTreeAssumption DEF Descends

LEMMA AncestorsUnfold ==
    /\ Ancestors \in [Block -> SUBSET Block]
    /\ \A b \in Block :
          Ancestors[b] = IF b = Genesis THEN {b} ELSE {b} \cup Ancestors[hashPrevBlock[b]]
  <1> DEFINE Def(g) == g = [b \in Block |-> {b} \cup IF hashPrevBlock[b] = NoBlock THEN {}
                                                   ELSE g[hashPrevBlock[b]]]
             V    == SUBSET Block
             init == [b \in Block |-> {b}]
             step == [x \in Block \X V |-> {x[1]} \cup x[2]]
  <1>1. PICK g \in [Block -> V] : Recurs(Block, {Genesis}, hashPrevBlock, init, step, g)
    <2>1. init \in [Block -> V] /\ step \in [Block \X V -> V]
      OBVIOUS
    <2> HIDE DEF V, init, step
    <2> QED  BY <2>1, BlocksDescend, ForestRecursion
  <1>2. Def(g)
    <2>1. ASSUME NEW b \in Block
          PROVE  g[b] = {b} \cup IF hashPrevBlock[b] = NoBlock THEN {} ELSE g[hashPrevBlock[b]]
      <3>1. g[b] = IF b = Genesis THEN init[b] ELSE step[<<b, g[hashPrevBlock[b]]>>]
        BY <1>1 DEF Recurs
      <3>2. b # Genesis => hashPrevBlock[b] \in Block /\ hashPrevBlock[b] # NoBlock
        BY BlockTreeAssumption
      <3>3. b = Genesis => hashPrevBlock[b] = NoBlock
        BY BlockTreeAssumption
      <3> QED  BY <3>1, <3>2, <3>3
    <2> QED  BY <2>1
  <1>3. Def(Ancestors)
    <2> HIDE DEF Def
    <2>1. Def(CHOOSE f : Def(f))
      BY <1>2
    <2>2. Ancestors = CHOOSE f : Def(f)
      BY DEF Def, Ancestors
    <2> QED  BY <2>1, <2>2
  <1>4. \A b \in Block :
           Ancestors[b] = IF b = Genesis THEN {b} ELSE {b} \cup Ancestors[hashPrevBlock[b]]
    BY <1>3, BlockTreeAssumption
  <1> DEFINE T == {b \in Block : Ancestors[b] \in SUBSET Block}
  <1>5. Block \subseteq T
    <2>1. ASSUME NEW b \in Block, b = Genesis \/ hashPrevBlock[b] \in T PROVE b \in T
      <3>1. b = Genesis => Ancestors[b] = {b}
        BY <1>4
      <3>2. b # Genesis => Ancestors[b] = {b} \cup Ancestors[hashPrevBlock[b]]
                             /\ Ancestors[hashPrevBlock[b]] \subseteq Block
        BY <1>4, <2>1
      <3> QED  BY <3>1, <3>2
    <2> HIDE DEF T
    <2> QED  BY <2>1, BlocksDescend, ForestInduction
  <1>6. DOMAIN Ancestors = Block /\ Ancestors = [b \in Block |-> Ancestors[b]]
    BY <1>3
  <1>7. Ancestors \in [Block -> SUBSET Block]
    BY <1>5, <1>6
  <1> QED  BY <1>4, <1>7

LEMMA WorkUnfolds ==
    /\ bnChainWork \in [Block -> Nat]
    /\ \A b \in Block :
          bnChainWork[b] = IF b = Genesis THEN BlockWork[b]
                           ELSE BlockWork[b] + bnChainWork[hashPrevBlock[b]]
  <1> DEFINE Def(g) == g = [b \in Block |-> BlockWork[b] + IF hashPrevBlock[b] = NoBlock THEN 0
                                                         ELSE g[hashPrevBlock[b]]]
             init == [b \in Block |-> BlockWork[b]]
             step == [x \in Block \X Nat |-> BlockWork[x[1]] + x[2]]
  <1>0. \A b \in Block : BlockWork[b] \in Nat
    BY BlockTreeAssumption
  <1>1. PICK g \in [Block -> Nat] : Recurs(Block, {Genesis}, hashPrevBlock, init, step, g)
    <2>1. init \in [Block -> Nat] /\ step \in [Block \X Nat -> Nat]
      BY <1>0
    <2> HIDE DEF init, step
    <2> QED  BY <2>1, BlocksDescend, ForestRecursion
  <1>2. Def(g)
    <2>1. ASSUME NEW b \in Block
          PROVE  g[b] = BlockWork[b] + IF hashPrevBlock[b] = NoBlock THEN 0 ELSE g[hashPrevBlock[b]]
      <3>1. g[b] = IF b = Genesis THEN init[b] ELSE step[<<b, g[hashPrevBlock[b]]>>]
        BY <1>1 DEF Recurs
      <3>2. b # Genesis => hashPrevBlock[b] \in Block /\ hashPrevBlock[b] # NoBlock
        BY BlockTreeAssumption
      <3>3. b = Genesis => hashPrevBlock[b] = NoBlock
        BY BlockTreeAssumption
      <3> QED  BY <1>0, <3>1, <3>2, <3>3
    <2> QED  BY <2>1
  <1>3. Def(bnChainWork)
    <2> HIDE DEF Def
    <2>1. Def(CHOOSE f : Def(f))
      BY <1>2
    <2>2. bnChainWork = CHOOSE f : Def(f)
      BY DEF Def, bnChainWork
    <2> QED  BY <2>1, <2>2
  <1>4. \A b \in Block :
           bnChainWork[b] = IF b = Genesis THEN BlockWork[b]
                            ELSE BlockWork[b] + bnChainWork[hashPrevBlock[b]]
    BY <1>0, <1>3, BlockTreeAssumption
  <1> DEFINE T == {b \in Block : bnChainWork[b] \in Nat}
  <1>5. Block \subseteq T
    <2>1. \A b \in Block : (b \in {Genesis} \/ hashPrevBlock[b] \in T) => b \in T
      BY <1>0, <1>4
    <2> HIDE DEF T
    <2> QED  BY <2>1, BlocksDescend, ForestInduction
  <1>6. DOMAIN bnChainWork = Block /\ bnChainWork = [b \in Block |-> bnChainWork[b]]
    BY <1>3
  <1>7. bnChainWork \in [Block -> Nat]
    BY <1>5, <1>6
  <1> QED  BY <1>4, <1>7

(* The ancestors of a block, in one place: they form a chain from the       *)
(* genesis block to it, of which each has a height and a work of its own.   *)
ChainTo(b) ==
    /\ Genesis \in Ancestors[b] /\ b \in Ancestors[b]
    /\ \A a \in Ancestors[b] :
          /\ nHeight[a] <= nHeight[b] /\ (a # b => nHeight[a] < nHeight[b])
          /\ Ancestors[a] \subseteq Ancestors[b]
          /\ bnChainWork[a] <= bnChainWork[b]
          /\ a # b => \E c \in Ancestors[b] : hashPrevBlock[c] = a
          /\ \A d \in Ancestors[b] : nHeight[a] = nHeight[d] => a = d

LEMMA ChainsToAll == \A b \in Block : ChainTo(b)
  <1> DEFINE T == {b \in Block : ChainTo(b)}
  <1>0. /\ \A b \in Block : nHeight[b] \in Nat /\ bnChainWork[b] \in Nat /\ BlockWork[b] \in Nat
        /\ Genesis \in Block
    BY BlockTreeAssumption, WorkUnfolds
  <1>1. ASSUME NEW b \in Block, b = Genesis \/ hashPrevBlock[b] \in T PROVE b \in T
    <2>1. CASE b = Genesis
      <3>1. Ancestors[b] = {b}
        BY <2>1, AncestorsUnfold
      <3> QED  BY <1>0, <2>1, <3>1 DEF ChainTo
    <2>2. CASE b # Genesis
      <3> DEFINE p == hashPrevBlock[b]
      <3>1. /\ p \in Block /\ ChainTo(p) /\ Ancestors[b] = {b} \cup Ancestors[p]
            /\ nHeight[b] = nHeight[p] + 1 /\ bnChainWork[b] = BlockWork[b] + bnChainWork[p]
            /\ Ancestors[p] \subseteq Block
        BY <1>1, <2>2, AncestorsUnfold, WorkUnfolds, BlockTreeAssumption
      <3>2. Genesis \in Ancestors[b] /\ b \in Ancestors[b] /\ p \in Ancestors[b]
        BY <3>1 DEF ChainTo
      <3>3. ASSUME NEW a \in Ancestors[p]
            PROVE  nHeight[a] < nHeight[b] /\ bnChainWork[a] <= bnChainWork[b]
        <4>1. nHeight[a] <= nHeight[p] /\ bnChainWork[a] <= bnChainWork[p] /\ a \in Block
          BY <3>1 DEF ChainTo
        <4> QED  BY <1>0, <3>1, <4>1
      <3>4. ASSUME NEW a \in Ancestors[b]
            PROVE  /\ nHeight[a] <= nHeight[b] /\ (a # b => nHeight[a] < nHeight[b])
                   /\ Ancestors[a] \subseteq Ancestors[b]
                   /\ bnChainWork[a] <= bnChainWork[b]
                   /\ a # b => \E c \in Ancestors[b] : hashPrevBlock[c] = a
                   /\ \A d \in Ancestors[b] : nHeight[a] = nHeight[d] => a = d
        <4> HIDE DEF p
        <4>1. CASE a = b
          <5>1. \A d \in Ancestors[b] : nHeight[a] = nHeight[d] => a = d
            <6> SUFFICES ASSUME NEW d \in Ancestors[p], nHeight[d] = nHeight[b] PROVE FALSE
              BY <3>1, <4>1
            <6>1. nHeight[d] < nHeight[b] /\ nHeight[d] \in Nat
              BY <1>0, <3>1, <3>3
            <6> QED  BY <1>0, <6>1
          <5> QED  BY <1>0, <4>1, <5>1
        <4>2. CASE a \in Ancestors[p] /\ a # b
          <5>1. nHeight[a] < nHeight[b] /\ bnChainWork[a] <= bnChainWork[b] /\ a \in Block
            BY <3>1, <3>3, <4>2
          <5>2. Ancestors[a] \subseteq Ancestors[b]
            BY <3>1, <4>2 DEF ChainTo
          <5>3. \E c \in Ancestors[b] : hashPrevBlock[c] = a
            BY <3>1, <3>2, <4>2 DEF ChainTo, p
          <5>4. \A d \in Ancestors[b] : nHeight[a] = nHeight[d] => a = d
            <6>1. \A d \in Ancestors[p] : nHeight[a] = nHeight[d] => a = d
              BY <3>1, <4>2 DEF ChainTo
            <6>2. nHeight[a] # nHeight[b]
              BY <1>0, <5>1
            <6> QED  BY <3>1, <6>1, <6>2
          <5> QED  BY <1>0, <5>1, <5>2, <5>3, <5>4
        <4> QED  BY <3>1, <4>1, <4>2
      <3> QED  BY <3>2, <3>4 DEF ChainTo
    <2> QED  BY <2>1, <2>2
  <1>2. Block \subseteq T
    <2> HIDE DEF T
    <2> QED  BY <1>1, BlocksDescend, ForestInduction
  <1> QED  BY <1>2

LEMMA BlockTree ==
    /\ Genesis \in Block
    /\ NoBlock \notin Block
    /\ hashPrevBlock \in [Block -> Block \cup {NoBlock}]
    /\ \A b \in Block : hashPrevBlock[b] = NoBlock <=> b = Genesis
    /\ BlockWork \in [Block -> Nat \ {0}]
    /\ nHeight \in [Block -> Nat]
    /\ Ancestors \in [Block -> SUBSET Block]
    /\ bnChainWork \in [Block -> Nat]
    /\ nHeight[Genesis] = 0
    /\ Ancestors[Genesis] = {Genesis}
    /\ \A b \in Block \ {Genesis} :
          /\ nHeight[b] = nHeight[hashPrevBlock[b]] + 1
          /\ Ancestors[b] = {b} \cup Ancestors[hashPrevBlock[b]]
          /\ bnChainWork[b] = BlockWork[b] + bnChainWork[hashPrevBlock[b]]
          /\ \A a \in Ancestors[hashPrevBlock[b]] : nHeight[a] < nHeight[b]
  <1>1. ASSUME NEW b \in Block \ {Genesis}, NEW a \in Ancestors[hashPrevBlock[b]]
        PROVE  nHeight[a] < nHeight[b]
    <2>1. /\ hashPrevBlock[b] \in Block /\ nHeight[b] = nHeight[hashPrevBlock[b]] + 1
          /\ nHeight[b] \in Nat /\ nHeight[hashPrevBlock[b]] \in Nat
      BY BlockTreeAssumption
    <2>2. a \in Block /\ nHeight[a] <= nHeight[hashPrevBlock[b]] /\ nHeight[a] \in Nat
      BY <2>1, ChainsToAll, AncestorsUnfold, BlockTreeAssumption DEF ChainTo
    <2> QED  BY <2>1, <2>2
  <1>2. Ancestors \in [Block -> SUBSET Block] /\ Ancestors[Genesis] = {Genesis}
    BY AncestorsUnfold, BlockTreeAssumption
  <1>3. \A b \in Block \ {Genesis} :
          /\ Ancestors[b] = {b} \cup Ancestors[hashPrevBlock[b]]
          /\ bnChainWork[b] = BlockWork[b] + bnChainWork[hashPrevBlock[b]]
    BY AncestorsUnfold, WorkUnfolds
  <1> QED  BY <1>1, <1>2, <1>3, WorkUnfolds, BlockTreeAssumption

LEMMA ChainOrder ==
    \A b \in Block :
        /\ Genesis \in Ancestors[b] /\ b \in Ancestors[b]
        /\ \A a \in Ancestors[b] :
              /\ Ancestors[a] \subseteq Ancestors[b]
              /\ bnChainWork[a] <= bnChainWork[b]
              /\ a # b => \E c \in Ancestors[b] : hashPrevBlock[c] = a
              /\ \A d \in Ancestors[b] : nHeight[a] = nHeight[d] => a = d
  BY ChainsToAll DEF ChainTo

-----------------------------------------------------------------------------
(* The value of outputs, as a sum. *)
nValues == [o \in Tx \X (Nat \ {0}) |-> IF o[2] <= Len(vout[o[1]]) THEN Out(o).nValue ELSE 0]

LEMMA OutputValue ==
    ASSUME NEW o \in Tx \X (Nat \ {0})
    PROVE  nValues[o] \in Nat /\ (o[2] <= Len(vout[o[1]]) => nValues[o] = Out(o).nValue)
  <1>1. o[1] \in Tx /\ o[2] \in Nat \ {0} /\ o = <<o[1], o[2]>>
    OBVIOUS
  <1>2. vout[o[1]] \in Seq(TxOut)
    BY <1>1, TxAssumption
  <1>3. ASSUME o[2] <= Len(vout[o[1]]) PROVE Out(o).nValue \in Nat
    <2>1. vout[o[1]][o[2]] \in TxOut
      BY <1>1, <1>2, <1>3
    <2> QED  BY <2>1 DEF Out, TxOut
  <1> QED  BY <1>3 DEF nValues

LEMMA ValueIsSum ==
    ASSUME NEW O, O \subseteq Tx \X (Nat \ {0}), IsFiniteSet(O)
    PROVE  ValueOf(O) = SumFunctionOnSet(nValues, O) /\ ValueOf(O) \in Nat /\ IntOn(nValues, O)
  <1> DEFINE E == {p \in O : p[2] <= Len(vout[p[1]])}
             M == O \ E
             f == [o \in E |-> Out(o).nValue]
  <1>1. \A o \in O : nValues[o] \in Nat
    BY OutputValue
  <1>2. IntOn(nValues, O) /\ IntOn(nValues, E) /\ IntOn(nValues, M) /\ IsFiniteSet(E) /\ IsFiniteSet(M)
    BY <1>1, FS_Subset DEF IntOn
  <1>3. ValueOf(O) = SumFunctionOnSet(f, E)
    BY DEF ValueOf, SumFunction
  <1>4. \A o \in E : nValues[o] = f[o]
    BY OutputValue
  <1>5. SumFunctionOnSet(nValues, E) = SumFunctionOnSet(f, E)
    <2> HIDE DEF E, f
    <2> QED  BY <1>2, <1>4, SumCongruence
  <1>6. SumFunctionOnSet(nValues, M) = 0
    <2>1. \A o \in M : nValues[o] = 0
      BY DEF nValues
    <2> HIDE DEF M
    <2> QED  BY <1>2, <2>1, SumZero
  <1>7. E \cap M = {} /\ E \cup M = O
    OBVIOUS
  <1>8. SumFunctionOnSet(nValues, O) = SumFunctionOnSet(nValues, E) + SumFunctionOnSet(nValues, M)
    <2> HIDE DEF E, M
    <2> QED  BY <1>2, <1>7, SumUnion
  <1>9. SumFunctionOnSet(nValues, E) \in Nat
    <2>1. \A o \in E : nValues[o] \in Nat
      BY <1>1
    <2> HIDE DEF E
    <2> QED  BY <1>2, <2>1, SumNat
  <1> DEFINE x == SumFunctionOnSet(nValues, E)
  <1>10. x \in Nat /\ ValueOf(O) = x /\ SumFunctionOnSet(nValues, O) = x + 0
    BY <1>3, <1>5, <1>6, <1>8, <1>9
  <1>11. x + 0 = x
    <2> HIDE DEF x
    <2> QED  BY <1>10
  <1> QED  BY <1>2, <1>10, <1>11

LEMMA FiniteOutputs ==
    ASSUME NEW t \in Tx
    PROVE  OutputsOf(t) \subseteq Tx \X (Nat \ {0}) /\ IsFiniteSet(OutputsOf(t))
  <1>1. vout[t] \in Seq(TxOut)
    BY TxAssumption
  <1>2. DOMAIN vout[t] = 1 .. Len(vout[t]) /\ Len(vout[t]) \in Nat
    BY <1>1
  <1>3. IsFiniteSet({t})
    BY FS_Singleton
  <1>4. IsFiniteSet(DOMAIN vout[t])
    BY <1>2, FS_Interval
  <1>5. IsFiniteSet({t} \X DOMAIN vout[t])
    BY <1>3, <1>4, FS_Product
  <1> QED  BY <1>2, <1>5 DEF OutputsOf

LEMMA Values == \A t \in Tx : GetValueIn(t) \in Nat /\ GetValueOut(t) \in Nat
  <1> TAKE t \in Tx
  <1>1. vin[t] \subseteq Tx \X (Nat \ {0}) /\ IsFiniteSet(vin[t])
    BY TxAssumption
  <1> QED  BY <1>1, FiniteOutputs, ValueIsSum DEF GetValueIn, GetValueOut


(***************************************************************************)
(* What connecting and disconnecting one transaction does to the           *)
(* transaction index: the four steps by which SetBestChain and Reorganize  *)
(* move along the chain preserve ChainView.                                *)
(***************************************************************************)

(* Ancestors and heights of a block and of its predecessor. *)
LEMMA Ancestry ==
    ASSUME NEW e \in Block \ {Genesis}
    PROVE  /\ hashPrevBlock[e] \in Block
           /\ Ancestors[e] = {e} \cup Ancestors[hashPrevBlock[e]]
           /\ e \notin Ancestors[hashPrevBlock[e]]
           /\ \A a \in Ancestors[e] : a # e => nHeight[a] < nHeight[e]
           /\ Ancestors[e] \subseteq Block
  <1>1. /\ hashPrevBlock[e] \in Block
        /\ Ancestors[e] = {e} \cup Ancestors[hashPrevBlock[e]]
        /\ \A a \in Ancestors[hashPrevBlock[e]] : nHeight[a] < nHeight[e]
        /\ Ancestors[e] \subseteq Block /\ nHeight[e] \in Nat
    BY BlockTree
  <1> QED  BY <1>1

(* A position in a block is not the null position. *)
LEMMA PositionNotNull ==
    ASSUME NEW b \in Block, NEW i
    PROVE  PosOf(b, i) = <<b, i>> /\ <<b, i>> # NoPos
  <1>1. NoBlock \notin Block
    BY BlockTreeAssumption
  <1> QED  BY <1>1 DEF PosOf, NoPos

(* A transaction index record has a position and a set of spent outputs. *)
LEMMA IndexRecord ==
    ASSUME NEW tv \in TxIndexType, NEW u \in Tx
    PROVE  /\ tv[u] \in [pos : (Block \cup {NoBlock}) \X Nat, spent : SUBSET Nat]
           /\ tv[u].pos \in (Block \cup {NoBlock}) \X Nat
           /\ tv[u].spent \subseteq Nat
  BY DEF TxIndexType

(* TxConnected, record by record. *)
LEMMA ConnectedRecords ==
    ASSUME NEW tv \in TxIndexType, NEW t \in Tx, NEW e \in Block, NEW i \in Nat
    PROVE  LET tw == TxConnected(t, e, i, tv)
           IN  /\ tw \in TxIndexType
               /\ tw[t].pos = <<e, i>> /\ tw[t].spent = {}
               /\ \A u \in Tx \ {t} :
                     /\ tw[u].pos = tv[u].pos
                     /\ \A k : k \in tw[u].spent <=> k \in tv[u].spent \/ <<u, k>> \in vin[t]
               /\ \A u \in Tx : HasTxIndex(tw, u) <=> u = t \/ HasTxIndex(tv, u)
  <1> DEFINE tw == TxConnected(t, e, i, tv)
             ks(u) == {o[2] : o \in {p \in vin[t] : p[1] = u}}
  <1>1. vin[t] \subseteq Tx \X (Nat \ {0})
    BY TxAssumption
  <1>2. tw[t] = [pos |-> <<e, i>>, spent |-> {}]
    BY DEF TxConnected, PosOf
  <1>3. ASSUME NEW u \in Tx \ {t}
        PROVE  /\ tw[u] = [pos |-> tv[u].pos, spent |-> tv[u].spent \cup ks(u)]
               /\ ks(u) \subseteq Nat
               /\ \A k : k \in ks(u) <=> <<u, k>> \in vin[t]
    <2>1. tw[u] = [tv[u] EXCEPT !.spent = @ \cup ks(u)]
      BY DEF TxConnected
    <2>2. tw[u] = [pos |-> tv[u].pos, spent |-> tv[u].spent \cup ks(u)]
      BY <2>1, IndexRecord
    <2>3. ks(u) \subseteq Nat
      BY <1>1
    <2>4. \A k : k \in ks(u) <=> <<u, k>> \in vin[t]
      BY <1>1
    <2> QED  BY <2>2, <2>3, <2>4
  <1>4. tw \in TxIndexType
    <2>1. \A u \in Tx : tw[u] \in [pos : (Block \cup {NoBlock}) \X Nat, spent : SUBSET Nat]
      <3> TAKE u \in Tx
      <3>1. CASE u = t
        BY <3>1, <1>2
      <3>2. CASE u # t
        <4>1. tv[u].pos \in (Block \cup {NoBlock}) \X Nat /\ tv[u].spent \in SUBSET Nat
          BY IndexRecord
        <4>2. /\ tw[u] = [pos |-> tv[u].pos, spent |-> tv[u].spent \cup ks(u)]
              /\ ks(u) \subseteq Nat
          BY <3>2, <1>3
        <4> HIDE DEF tw, ks
        <4> QED  BY <4>1, <4>2
      <3> QED  BY <3>1, <3>2
    <2> QED  BY <2>1 DEF TxIndexType, TxConnected
  <1>5. <<e, i>> # NoPos
    BY BlockTree DEF NoPos
  <1> HIDE DEF tw, ks
  <1>6. ASSUME NEW u \in Tx \ {t}
        PROVE  /\ tw[u].pos = tv[u].pos
               /\ \A k : k \in tw[u].spent <=> k \in tv[u].spent \/ <<u, k>> \in vin[t]
    <2>1. /\ tw[u] = [pos |-> tv[u].pos, spent |-> tv[u].spent \cup ks(u)]
          /\ \A k : k \in ks(u) <=> <<u, k>> \in vin[t]
      BY <1>3
    <2> QED  BY <2>1
  <1>8. tw[t].pos = <<e, i>> /\ tw[t].spent = {}
    BY <1>2
  <1>9. \A u \in Tx : HasTxIndex(tw, u) <=> u = t \/ HasTxIndex(tv, u)
    BY <1>5, <1>6, <1>8 DEF HasTxIndex
  <1> QED  BY <1>4, <1>6, <1>8, <1>9 DEF tw

(* tw is tv with t recorded at pos. *)
Recorded(tw, tv, t, pos) ==
    /\ tw \in TxIndexType
    /\ tw[t].pos = pos /\ tw[t].spent = {}
    /\ \A u \in Tx \ {t} :
          /\ tw[u].pos = tv[u].pos
          /\ \A k : k \in tw[u].spent <=> k \in tv[u].spent \/ <<u, k>> \in vin[t]
    /\ \A u \in Tx : HasTxIndex(tw, u) <=> u = t \/ HasTxIndex(tv, u)

LEMMA ConnectedIsRecorded ==
    ASSUME NEW tv \in TxIndexType, NEW t \in Tx, NEW e \in Block, NEW i \in Nat
    PROVE  Recorded(TxConnected(t, e, i, tv), tv, t, <<e, i>>)
  BY ConnectedRecords DEF Recorded

(* TxDisconnected, record by record. *)
LEMMA DisconnectedRecords ==
    ASSUME NEW tv \in TxIndexType, NEW t \in Tx
    PROVE  LET tw == TxDisconnected(t, tv)
           IN  /\ tw \in TxIndexType
               /\ \A u \in Tx \ {t} :
                     /\ tw[u].pos = tv[u].pos
                     /\ \A k : k \in tw[u].spent <=> k \in tv[u].spent /\ <<u, k>> \notin vin[t]
               /\ \A u \in Tx : HasTxIndex(tw, u) <=> u # t /\ HasTxIndex(tv, u)
  <1> DEFINE tw == TxDisconnected(t, tv)
             ks(u) == {o[2] : o \in {p \in vin[t] : p[1] = u}}
  <1>1. vin[t] \subseteq Tx \X (Nat \ {0})
    BY TxAssumption
  <1>2. tw[t] = [pos |-> NoPos, spent |-> {}]
    BY DEF TxDisconnected
  <1>3. ASSUME NEW u \in Tx \ {t}
        PROVE  /\ tw[u] = [pos |-> tv[u].pos, spent |-> tv[u].spent \ ks(u)]
               /\ \A k : k \in ks(u) <=> <<u, k>> \in vin[t]
    <2>1. tw[u] = [tv[u] EXCEPT !.spent = @ \ ks(u)]
      BY DEF TxDisconnected
    <2>2. tw[u] = [pos |-> tv[u].pos, spent |-> tv[u].spent \ ks(u)]
      BY <2>1, IndexRecord
    <2>3. \A k : k \in ks(u) <=> <<u, k>> \in vin[t]
      BY <1>1
    <2> QED  BY <2>2, <2>3
  <1>4. tw \in TxIndexType
    <2>1. \A u \in Tx : tw[u] \in [pos : (Block \cup {NoBlock}) \X Nat, spent : SUBSET Nat]
      <3> TAKE u \in Tx
      <3>1. CASE u = t
        BY <3>1, <1>2 DEF NoPos
      <3>2. CASE u # t
        <4>1. tv[u].pos \in (Block \cup {NoBlock}) \X Nat /\ tv[u].spent \in SUBSET Nat
          BY IndexRecord
        <4>2. tw[u] = [pos |-> tv[u].pos, spent |-> tv[u].spent \ ks(u)]
          BY <3>2, <1>3
        <4> HIDE DEF tw, ks
        <4> QED  BY <4>1, <4>2
      <3> QED  BY <3>1, <3>2
    <2> QED  BY <2>1 DEF TxIndexType, TxDisconnected
  <1> HIDE DEF tw, ks
  <1>5. ASSUME NEW u \in Tx \ {t}
        PROVE  /\ tw[u].pos = tv[u].pos
               /\ \A k : k \in tw[u].spent <=> k \in tv[u].spent /\ <<u, k>> \notin vin[t]
    <2>1. /\ tw[u] = [pos |-> tv[u].pos, spent |-> tv[u].spent \ ks(u)]
          /\ \A k : k \in ks(u) <=> <<u, k>> \in vin[t]
      BY <1>3
    <2> QED  BY <2>1
  <1>6. tw[t].pos = NoPos
    BY <1>2
  <1>7. \A u \in Tx : HasTxIndex(tw, u) <=> u # t /\ HasTxIndex(tv, u)
    BY <1>5, <1>6 DEF HasTxIndex
  <1> QED  BY <1>4, <1>5, <1>7 DEF tw

-----------------------------------------------------------------------------
(* The position after the n-th transaction of e comes after every position *)
(* of the chain so far, and is the only new one.                           *)
LEMMA NextPosition ==
    ASSUME NEW e \in Block \ {Genesis}, NEW n \in Nat, n < Len(vtx[e]),
           NEW b, NEW i
    PROVE  /\ InChain(b, i, e, n + 1) <=> InChain(b, i, e, n) \/ (b = e /\ i = n + 1)
           /\ InChain(b, i, e, n) => Precedes(<<b, i>>, <<e, n + 1>>)
           /\ ~InChain(e, n + 1, e, n)
  <1>1. vtx[e] \in Seq(Tx) /\ Len(vtx[e]) \in Nat
    BY TxAssumption
  <1>2. e \in Ancestors[e]
    BY ChainOrder
  <1>3. InChain(b, i, e, n + 1) <=> InChain(b, i, e, n) \/ (b = e /\ i = n + 1)
    BY <1>1, <1>2 DEF InChain
  <1>4. InChain(b, i, e, n) => Precedes(<<b, i>>, <<e, n + 1>>)
    BY <1>1, Ancestry DEF InChain, Precedes
  <1>5. ~InChain(e, n + 1, e, n)
    BY DEF InChain
  <1> QED  BY <1>3, <1>4, <1>5

(* A transaction that the next position holds is not in the index yet: a    *)
(* coinbase by CoinbaseAssumption, any other because its inputs are unspent. *)
LEMMA NextNotIndexed ==
    ASSUME NEW tv \in TxIndexType, NEW e \in Block \ {Genesis}, NEW n \in Nat,
           n < Len(vtx[e]), ChainView(tv, e, n),
           \A b \in Ancestors[e] \ {Genesis} : CheckBlock(b),
           ~IsCoinBase(vtx[e][n + 1]) =>
               \A o \in vin[vtx[e][n + 1]] : o[2] \notin tv[o[1]].spent
    PROVE  ~HasTxIndex(tv, vtx[e][n + 1])
  <1> DEFINE t == vtx[e][n + 1]
  <1>1. t \in Tx /\ vtx[e] \in Seq(Tx) /\ n + 1 \in DOMAIN vtx[e] /\ vtx[e] # <<>>
    BY TxAssumption
  <1> SUFFICES ASSUME HasTxIndex(tv, t) PROVE FALSE
    OBVIOUS
  <1>2. CASE IsCoinBase(t)
    <2>1. PICK b, i : b = tv[t].pos[1] /\ i = tv[t].pos[2] /\ InChain(b, i, e, n) /\ vtx[b][i] = t
      BY <1>1 DEF ChainView, IndexIsChain
    <2>2. b \in Ancestors[e] \ {Genesis} /\ b \in Block /\ i \in DOMAIN vtx[b] /\ vtx[b] # <<>>
      <3>1. b \in Ancestors[e] \ {Genesis} /\ b \in Block /\ i \in 1 .. Len(vtx[b])
        BY <2>1, Ancestry DEF InChain
      <3>2. vtx[b] \in Seq(Tx)
        BY <3>1, TxAssumption
      <3> QED  BY <3>1, <3>2
    <2>3. i = 1 /\ n + 1 = 1
      <3>1. CheckBlock(b) /\ CheckBlock(e)
        BY <2>2, ChainOrder
      <3> QED  BY <1>1, <1>2, <2>1, <2>2, <3>1 DEF CheckBlock
    <2>4. b # e
      BY <2>1, <2>3 DEF InChain
    <2> QED  BY <1>1, <2>1, <2>2, <2>3, <2>4, CoinbaseAssumption
  <1>3. CASE ~IsCoinBase(t)
    <2>1. PICK o \in vin[t] : o[2] \notin tv[o[1]].spent
      BY <1>3 DEF IsCoinBase
    <2>2. o[1] \in Tx /\ o = <<o[1], o[2]>>
      BY <1>1, <2>1, TxAssumption
    <2>3. HasTxIndex(tv, o[1]) /\ o[2] \in 1 .. Len(vout[o[1]])
      BY <1>1, <2>1 DEF ChainView, InputsPrecede, IndexedTx
    <2>4. o[2] \in tv[o[1]].spent
      BY <1>1, <2>1, <2>2, <2>3 DEF ChainView, OutputsSpentOnce, IndexedTx
    <2> QED  BY <2>1, <2>4
  <1> QED  BY <1>2, <1>3

(* ConnectInputs moves the view one transaction up. *)
LEMMA ConnectView ==
    ASSUME NEW tv \in TxIndexType, NEW e \in Block \ {Genesis}, NEW n \in Nat,
           n < Len(vtx[e]), ChainView(tv, e, n),
           \A b \in Ancestors[e] \ {Genesis} : CheckBlock(b),
           \A o \in vin[vtx[e][n + 1]] :
               /\ HasTxIndex(tv, o[1]) /\ o[2] <= Len(vout[o[1]])
               /\ o[2] \notin tv[o[1]].spent
    PROVE  ChainView(TxConnected(vtx[e][n + 1], e, n + 1, tv), e, n + 1)
  <1> DEFINE t == vtx[e][n + 1]
             tw == TxConnected(t, e, n + 1, tv)
  <1>1. t \in Tx /\ n + 1 \in Nat /\ n + 1 \in 1 .. Len(vtx[e])
    BY TxAssumption
  <1>2. vin[t] \subseteq Tx \X (Nat \ {0}) /\ \A u \in Tx : vout[u] \in Seq(TxOut)
    BY <1>1, TxAssumption
  <1>3. ~HasTxIndex(tv, t)
    BY NextNotIndexed
  <1> HIDE DEF t
  <1>4. /\ tw \in TxIndexType
        /\ tw[t].pos = <<e, n + 1>> /\ tw[t].spent = {}
        /\ \A u \in Tx \ {t} :
              /\ tw[u].pos = tv[u].pos
              /\ \A k : k \in tw[u].spent <=> k \in tv[u].spent \/ <<u, k>> \in vin[t]
        /\ \A u \in Tx : HasTxIndex(tw, u) <=> u = t \/ HasTxIndex(tv, u)
    <2>1. e \in Block
      OBVIOUS
    <2>2. Recorded(tw, tv, t, <<e, n + 1>>)
      BY <1>1, <2>1, ConnectedIsRecorded
    <2> HIDE DEF tw
    <2> QED  BY <2>2 DEF Recorded
  <1>5. \A o \in vin[t] : /\ o \in Tx \X (Nat \ {0}) /\ o[1] # t
                          /\ HasTxIndex(tv, o[1]) /\ o[2] \in 1 .. Len(vout[o[1]])
                          /\ o[2] \notin tv[o[1]].spent
    BY <1>2, <1>3 DEF t
  <1> HIDE DEF tw
  <1>6. IndexIsChain(tw, e, n + 1)
    <2>1. ASSUME NEW b \in Block, NEW i \in 1 .. Len(vtx[b]), InChain(b, i, e, n + 1)
          PROVE  tw[vtx[b][i]].pos = PosOf(b, i)
      <3>1. vtx[b][i] \in Tx
        BY TxAssumption
      <3>2. CASE InChain(b, i, e, n)
        <4>1. tv[vtx[b][i]].pos = <<b, i>> /\ <<b, i>> # NoPos
          BY <3>2, BlockTree DEF ChainView, IndexIsChain, PosOf, NoPos
        <4>2. vtx[b][i] # t
          BY <1>3, <4>1 DEF HasTxIndex
        <4> QED  BY <1>4, <3>1, <4>1, <4>2 DEF PosOf
      <3>3. CASE b = e /\ i = n + 1
        BY <1>4, <3>3 DEF PosOf, t
      <3> QED  BY <2>1, <3>2, <3>3, NextPosition
    <2>2. ASSUME NEW u \in Tx, HasTxIndex(tw, u)
          PROVE  /\ InChain(tw[u].pos[1], tw[u].pos[2], e, n + 1)
                 /\ vtx[tw[u].pos[1]][tw[u].pos[2]] = u
      <3>1. CASE u = t
        <4>1. InChain(e, n + 1, e, n + 1)
          BY NextPosition
        <4>2. tw[u].pos[1] = e /\ tw[u].pos[2] = n + 1
          BY <1>4, <3>1
        <4>3. vtx[e][n + 1] = u
          BY <3>1 DEF t
        <4> QED  BY <4>1, <4>2, <4>3
      <3>2. CASE u # t
        <4>1. tw[u].pos = tv[u].pos /\ HasTxIndex(tv, u)
          BY <1>4, <2>2, <3>2
        <4>2. /\ InChain(tv[u].pos[1], tv[u].pos[2], e, n)
              /\ vtx[tv[u].pos[1]][tv[u].pos[2]] = u
          BY <4>1 DEF ChainView, IndexIsChain
        <4>3. \A b, i : InChain(b, i, e, n) => InChain(b, i, e, n + 1)
          BY NextPosition
        <4> QED  BY <4>1, <4>2, <4>3
      <3> QED  BY <3>1, <3>2
    <2> QED  BY <2>1, <2>2 DEF IndexIsChain
  <1>7. \A u \in IndexedTx(tv) : \A o \in vin[u] :
            /\ o \in Tx \X (Nat \ {0}) /\ o[1] # t
            /\ HasTxIndex(tv, o[1]) /\ o[2] \in 1 .. Len(vout[o[1]])
            /\ o[2] \in tv[o[1]].spent
    <2> TAKE u \in IndexedTx(tv)
    <2> TAKE o \in vin[u]
    <2>1. o \in Tx \X (Nat \ {0}) /\ o = <<o[1], o[2]>>
      BY TxAssumption DEF IndexedTx
    <2>2. HasTxIndex(tv, o[1]) /\ o[2] \in 1 .. Len(vout[o[1]])
      BY DEF ChainView, InputsPrecede
    <2>3. o[2] \in tv[o[1]].spent
      BY <2>1, <2>2 DEF ChainView, OutputsSpentOnce, IndexedTx
    <2> QED  BY <2>1, <2>2, <2>3, <1>3
  <1>8. OutputsSpentOnce(tw)
    <2>1. ASSUME NEW u \in IndexedTx(tw), NEW w \in IndexedTx(tw), u # w
          PROVE  vin[u] \cap vin[w] = {}
      <3>1. CASE u # t /\ w # t
        BY <1>4, <2>1, <3>1 DEF IndexedTx, ChainView, OutputsSpentOnce
      <3>2. CASE u = t
        BY <1>4, <1>5, <1>7, <2>1, <3>2 DEF IndexedTx
      <3>3. CASE w = t
        BY <1>4, <1>5, <1>7, <2>1, <3>3 DEF IndexedTx
      <3> QED  BY <3>1, <3>2, <3>3
    <2>2. ASSUME NEW u \in IndexedTx(tw), NEW k \in 1 .. Len(vout[u])
          PROVE  k \in tw[u].spent <=> \E w \in IndexedTx(tw) : <<u, k>> \in vin[w]
      <3>1. CASE u = t
        <4>1. \A w \in IndexedTx(tw) : <<t, k>> \notin vin[w]
          BY <1>4, <1>5, <1>7 DEF IndexedTx
        <4> QED  BY <1>4, <3>1, <4>1
      <3>2. CASE u # t
        <4>1. u \in IndexedTx(tv) /\ u \in Tx \ {t}
          BY <1>4, <3>2 DEF IndexedTx
        <4>2. k \in tv[u].spent <=> \E w \in IndexedTx(tv) : <<u, k>> \in vin[w]
          BY <4>1 DEF ChainView, OutputsSpentOnce
        <4>3. k \in tw[u].spent <=> k \in tv[u].spent \/ <<u, k>> \in vin[t]
          BY <1>4, <4>1
        <4>4. IndexedTx(tw) = IndexedTx(tv) \cup {t}
          BY <1>1, <1>4 DEF IndexedTx
        <4> QED  BY <4>2, <4>3, <4>4
      <3> QED  BY <3>1, <3>2
    <2> QED  BY <2>1, <2>2 DEF OutputsSpentOnce
  <1>9. InputsPrecede(tw)
    <2> SUFFICES ASSUME NEW u \in IndexedTx(tw), NEW o \in vin[u]
                 PROVE  /\ HasTxIndex(tw, o[1]) /\ o[2] \in 1 .. Len(vout[o[1]])
                        /\ Precedes(tw[o[1]].pos, tw[u].pos)
      BY DEF InputsPrecede
    <2>1. CASE u = t
      <3>1. /\ o[1] \in Tx \ {t} /\ HasTxIndex(tv, o[1]) /\ o[2] \in 1 .. Len(vout[o[1]])
        BY <1>5, <2>1
      <3>2. /\ InChain(tv[o[1]].pos[1], tv[o[1]].pos[2], e, n)
            /\ tv[o[1]].pos = <<tv[o[1]].pos[1], tv[o[1]].pos[2]>>
        BY <3>1, IndexRecord DEF ChainView, IndexIsChain
      <3>3. Precedes(tv[o[1]].pos, <<e, n + 1>>)
        BY <3>2, NextPosition
      <3> QED  BY <1>4, <2>1, <3>1, <3>3
    <2>2. CASE u # t
      <3>1. u \in IndexedTx(tv)
        BY <1>4, <2>2 DEF IndexedTx
      <3>2. /\ o[1] \in Tx \ {t} /\ HasTxIndex(tv, o[1]) /\ o[2] \in 1 .. Len(vout[o[1]])
        BY <1>7, <3>1
      <3>3. Precedes(tv[o[1]].pos, tv[u].pos)
        BY <3>1 DEF ChainView, InputsPrecede
      <3> QED  BY <1>4, <2>2, <3>1, <3>2, <3>3 DEF IndexedTx
    <2> QED  BY <2>1, <2>2
  <1> QED  BY <1>6, <1>8, <1>9 DEF ChainView, t, tw

(* DisconnectInputs moves the view one transaction down: the last one has   *)
(* its inputs marked spent, and nobody spends its outputs.                  *)
LEMMA LastPosition ==
    ASSUME NEW tv \in TxIndexType, NEW e \in Block \ {Genesis}, NEW n \in Nat \ {0},
           n <= Len(vtx[e]), ChainView(tv, e, n)
    PROVE  /\ HasTxIndex(tv, vtx[e][n]) /\ tv[vtx[e][n]].pos = <<e, n>>
           /\ \A o \in vin[vtx[e][n]] : HasTxIndex(tv, o[1]) /\ o[2] \in tv[o[1]].spent
           /\ \A u \in IndexedTx(tv) : \A o \in vin[u] : o[1] # vtx[e][n]
  <1> DEFINE t == vtx[e][n]
  <1>1. t \in Tx /\ vin[t] \subseteq Tx \X (Nat \ {0})
    BY TxAssumption
  <1>2. InChain(e, n, e, n) /\ n \in 1 .. Len(vtx[e])
    BY ChainOrder, TxAssumption DEF InChain
  <1>3. tv[t].pos = <<e, n>> /\ HasTxIndex(tv, t)
    <2>1. tv[t].pos = PosOf(e, n)
      BY <1>2 DEF ChainView, IndexIsChain
    <2>2. PosOf(e, n) = <<e, n>> /\ <<e, n>> # NoPos
      BY PositionNotNull
    <2> QED  BY <2>1, <2>2 DEF HasTxIndex
  <1> HIDE DEF t
  <1>4. \A o \in vin[t] : HasTxIndex(tv, o[1]) /\ o[2] \in tv[o[1]].spent
    <2> TAKE o \in vin[t]
    <2>1. o[1] \in Tx /\ o = <<o[1], o[2]>> /\ t \in IndexedTx(tv)
      BY <1>1, <1>3 DEF IndexedTx
    <2>2. HasTxIndex(tv, o[1]) /\ o[2] \in 1 .. Len(vout[o[1]])
      BY <2>1 DEF ChainView, InputsPrecede
    <2> QED  BY <2>1, <2>2 DEF ChainView, OutputsSpentOnce, IndexedTx
  <1>5. ASSUME NEW u \in IndexedTx(tv), NEW o \in vin[u], o[1] = t
        PROVE  FALSE
    <2>1. Precedes(<<e, n>>, tv[u].pos)
      BY <1>3, <1>5 DEF ChainView, InputsPrecede
    <2>2. PICK b, i : b = tv[u].pos[1] /\ i = tv[u].pos[2] /\ InChain(b, i, e, n)
      BY DEF IndexedTx, ChainView, IndexIsChain
    <2>3. nHeight[e] < nHeight[b] \/ (e = b /\ n < i)
      BY <2>1, <2>2 DEF Precedes
    <2>4. b \in Ancestors[e] /\ b \in Block /\ i \in Nat /\ (b = e => i <= n)
      BY <2>2, Ancestry, TxAssumption DEF InChain
    <2>5. b # e => nHeight[b] < nHeight[e]
      BY <2>4, Ancestry
    <2>6. nHeight[b] \in Nat /\ nHeight[e] \in Nat
      BY <2>4, BlockTree
    <2> QED  BY <2>3, <2>4, <2>5, <2>6
  <1> QED  BY <1>3, <1>4, <1>5 DEF t

LEMMA DisconnectView ==
    ASSUME NEW tv \in TxIndexType, NEW e \in Block \ {Genesis}, NEW n \in Nat \ {0},
           n <= Len(vtx[e]), ChainView(tv, e, n)
    PROVE  ChainView(TxDisconnected(vtx[e][n], tv), e, n - 1)
  <1> DEFINE t == vtx[e][n]
             tw == TxDisconnected(t, tv)
  <1>1. t \in Tx /\ n - 1 \in Nat /\ n - 1 < Len(vtx[e]) /\ (n - 1) + 1 = n
    BY TxAssumption
  <1>2. /\ tv[t].pos = <<e, n>> /\ \A u \in IndexedTx(tv) : \A o \in vin[u] : o[1] # t
    BY LastPosition
  <1> HIDE DEF t
  <1>3. /\ tw \in TxIndexType
        /\ \A u \in Tx \ {t} :
              /\ tw[u].pos = tv[u].pos
              /\ \A k : k \in tw[u].spent <=> k \in tv[u].spent /\ <<u, k>> \notin vin[t]
        /\ \A u \in Tx : HasTxIndex(tw, u) <=> u # t /\ HasTxIndex(tv, u)
    BY <1>1, DisconnectedRecords
  <1>4. IndexedTx(tw) = IndexedTx(tv) \ {t}
    BY <1>3 DEF IndexedTx
  <1>5. \A b, i : /\ InChain(b, i, e, n) <=> InChain(b, i, e, n - 1) \/ (b = e /\ i = n)
                  /\ ~InChain(e, n, e, n - 1)
    <2>1. PICK m \in Nat : m = n - 1 /\ m < Len(vtx[e]) /\ m + 1 = n
      BY <1>1
    <2>2. ASSUME NEW b, NEW i
          PROVE  /\ InChain(b, i, e, m + 1) <=> InChain(b, i, e, m) \/ (b = e /\ i = m + 1)
                 /\ ~InChain(e, m + 1, e, m)
      <3>1. m < Len(vtx[e])
        BY <2>1
      <3> QED  BY <3>1, NextPosition
    <2>3. m + 1 = n /\ m = n - 1
      BY <2>1
    <2> QED  BY <2>2, <2>3
  <1> HIDE DEF tw
  <1>6. IndexIsChain(tw, e, n - 1)
    <2>1. ASSUME NEW b \in Block, NEW i \in 1 .. Len(vtx[b]), InChain(b, i, e, n - 1)
          PROVE  tw[vtx[b][i]].pos = PosOf(b, i)
      <3>1. vtx[b][i] \in Tx
        BY TxAssumption
      <3>2. tv[vtx[b][i]].pos = <<b, i>>
        BY <1>5, <2>1 DEF ChainView, IndexIsChain, PosOf
      <3>3. vtx[b][i] # t
        BY <1>2, <1>5, <2>1, <3>2
      <3> QED  BY <1>3, <3>1, <3>2, <3>3 DEF PosOf
    <2>2. ASSUME NEW u \in Tx, HasTxIndex(tw, u)
          PROVE  /\ InChain(tw[u].pos[1], tw[u].pos[2], e, n - 1)
                 /\ vtx[tw[u].pos[1]][tw[u].pos[2]] = u
      <3>1. u # t /\ HasTxIndex(tv, u) /\ tw[u].pos = tv[u].pos
        BY <1>3, <2>2
      <3>2. /\ InChain(tv[u].pos[1], tv[u].pos[2], e, n)
            /\ vtx[tv[u].pos[1]][tv[u].pos[2]] = u
        BY <3>1 DEF ChainView, IndexIsChain
      <3>3. ~(tv[u].pos[1] = e /\ tv[u].pos[2] = n)
        BY <3>1, <3>2 DEF t
      <3> QED  BY <1>5, <3>1, <3>2, <3>3
    <2> QED  BY <2>1, <2>2 DEF IndexIsChain
  <1>7. OutputsSpentOnce(tw)
    <2>1. \A u, w \in IndexedTx(tw) : u # w => vin[u] \cap vin[w] = {}
      BY <1>4 DEF ChainView, OutputsSpentOnce
    <2>2. ASSUME NEW u \in IndexedTx(tw), NEW k \in 1 .. Len(vout[u])
          PROVE  k \in tw[u].spent <=> \E w \in IndexedTx(tw) : <<u, k>> \in vin[w]
      <3>1. u \in IndexedTx(tv) /\ u \in Tx \ {t}
        BY <1>4 DEF IndexedTx
      <3>2. k \in tv[u].spent <=> \E w \in IndexedTx(tv) : <<u, k>> \in vin[w]
        BY <3>1 DEF ChainView, OutputsSpentOnce
      <3>3. k \in tw[u].spent <=> k \in tv[u].spent /\ <<u, k>> \notin vin[t]
        BY <1>3, <3>1
      <3>4. t \in IndexedTx(tv)
        BY <1>1, <1>2, BlockTree DEF IndexedTx, HasTxIndex, NoPos
      <3>5. \A w \in IndexedTx(tv) \ {t} : <<u, k>> \in vin[w] => <<u, k>> \notin vin[t]
        BY <3>4 DEF ChainView, OutputsSpentOnce
      <3> QED  BY <1>4, <3>2, <3>3, <3>5
    <2> QED  BY <2>1, <2>2 DEF OutputsSpentOnce
  <1>8. InputsPrecede(tw)
    <2> SUFFICES ASSUME NEW u \in IndexedTx(tw), NEW o \in vin[u]
                 PROVE  /\ HasTxIndex(tw, o[1]) /\ o[2] \in 1 .. Len(vout[o[1]])
                        /\ Precedes(tw[o[1]].pos, tw[u].pos)
      BY DEF InputsPrecede
    <2>1. u \in IndexedTx(tv) /\ u \in Tx \ {t}
      BY <1>4 DEF IndexedTx
    <2>2. o[1] \in Tx \ {t}
      <3>1. vin[u] \subseteq Tx \X (Nat \ {0})
        BY <2>1, TxAssumption
      <3> QED  BY <1>2, <2>1, <3>1
    <2>3. /\ HasTxIndex(tv, o[1]) /\ o[2] \in 1 .. Len(vout[o[1]])
          /\ Precedes(tv[o[1]].pos, tv[u].pos)
      BY <2>1 DEF ChainView, InputsPrecede
    <2> QED  BY <1>3, <2>1, <2>2, <2>3
  <1> QED  BY <1>6, <1>7, <1>8 DEF ChainView, t, tw

(* Nothing happens to the view between the end of a block and the beginning *)
(* of the next one.                                                         *)
LEMMA BlockBoundary ==
    ASSUME NEW tv, NEW e \in Block \ {Genesis}
    PROVE  ChainView(tv, e, 0) <=> ChainView(tv, hashPrevBlock[e], Len(vtx[hashPrevBlock[e]]))
  <1> DEFINE p == hashPrevBlock[e]
  <1>1. \A b, i : InChain(b, i, e, 0) <=> InChain(b, i, p, Len(vtx[p]))
    <2>1. /\ Ancestors[e] = {e} \cup Ancestors[p] /\ e \notin Ancestors[p]
      BY Ancestry
    <2> HIDE DEF p
    <2> QED  BY <2>1 DEF InChain
  <1> HIDE DEF p
  <1>2. IndexIsChain(tv, e, 0) <=> IndexIsChain(tv, p, Len(vtx[p]))
    BY <1>1 DEF IndexIsChain
  <1> QED  BY <1>2 DEF ChainView, p

-----------------------------------------------------------------------------
(***************************************************************************)
(* The invariant, one step after another.                                  *)
(***************************************************************************)

(* The name output of a well-formed name transaction. *)
LEMMA NameOutType ==
    ASSUME NEW t \in Tx, DecodeNameTx(t)
    PROVE  NameOut(t) \in TxOut
  <1>1. vout[t] \in Seq(TxOut)
    BY TxAssumption
  <1>2. \E i \in DOMAIN vout[t] : i \in NameOutputs(t)
    BY DEF DecodeNameTx
  <1> QED  BY <1>1, <1>2 DEF NameOut

(* The pool keeps its type: a transaction is added, or removed. *)
LEMMA AddType ==
    ASSUME PoolType, NEW t \in Tx, PoolAdmits(t), AddToMemoryPool(t)
    PROVE  PoolType'
  <1>1. isNameTx[t] => NameOut(t).name \in Name /\ NameOut(t).rand \in Nat
    BY NameOutType DEF PoolAdmits, CheckTransaction, TxOut
  <1>2. mapTransactions' \subseteq Tx /\ mapNextTx' \in [OutPoint -> Tx \cup {NoTx}]
    BY DEF PoolType, AddToMemoryPool
  <1>3. mapNamePending' \in [Name -> SUBSET Tx]
    BY <1>1 DEF PoolType, AddToMemoryPool
  <1>4. setNewHashes' \subseteq Nat \X Name
    BY <1>1 DEF PoolType, AddToMemoryPool, NewHash
  <1> QED  BY <1>2, <1>3, <1>4 DEF PoolType

LEMMA PendingWithoutType ==
    ASSUME PoolType, NEW t \in Tx
    PROVE  PendingWithout(t) \in [Name -> SUBSET Tx]
  BY DEF PoolType, PendingWithout

LEMMA RemoveType ==
    ASSUME PoolType, NEW t \in Tx, RemoveFromMemoryPool(t)
    PROVE  PoolType'
  BY PendingWithoutType DEF PoolType, RemoveFromMemoryPool

(* The name index keeps its type. *)
LEMMA WriteNameType ==
    ASSUME NEW nv, NameIndexType(nv), NEW n \in Name, NEW s \in Seq(CNameIndex)
    PROVE  NameIndexType(WriteName(nv, n, s))
  BY DEF NameIndexType, WriteName

LEMMA VtxPosType ==
    ASSUME NEW nv, NameIndexType(nv), NEW n
    PROVE  VtxPos(nv, n) \in Seq(CNameIndex)
  BY DEF NameIndexType, VtxPos

LEMMA NameConnectedType ==
    ASSUME NEW nv, NameIndexType(nv), NEW tv, NEW t \in Tx, NEW b \in Block, NEW i \in Nat,
           isNameTx[t] /\ ~IsCoinBase(t) => DecodeNameTx(t)
    PROVE  NameIndexType(NameConnected(t, b, i, tv, nv))
  <1> DEFINE rec == [nHeight |-> nHeight[b], pos |-> PosOf(b, i)]
  <1>1. rec \in CNameIndex
    BY BlockTree DEF CNameIndex, PosOf
  <1>2. CASE WritesName(t, tv, nv)
    <2>1. NameOut(t).name \in Name
      BY <1>2, NameOutType DEF WritesName, TxOut
    <2>2. Append(VtxPos(nv, NameOut(t).name), rec) \in Seq(CNameIndex)
      BY <1>1, VtxPosType
    <2> QED  BY <1>2, <2>1, <2>2, WriteNameType DEF NameConnected
  <1>3. CASE ~WritesName(t, tv, nv)
    BY <1>3 DEF NameConnected
  <1> QED  BY <1>2, <1>3

LEMMA NameDisconnectedType ==
    ASSUME NEW nv, NameIndexType(nv), NEW tv, NEW t \in Tx
    PROVE  NameIndexType(NameDisconnected(t, tv, nv))
  <1> DEFINE s == VtxPos(nv, NameOut(t).name)
  <1>1. CASE NamePopped(t) /\ CheckNameTxPos(nv, NameOut(t).name, tv[t].pos)
    <2>1. NameOut(t).name \in Name
      BY <1>1, NameOutType DEF NamePopped, TxOut
    <2>2. s \in Seq(CNameIndex) /\ s # <<>>
      BY <1>1, VtxPosType DEF CheckNameTxPos
    <2>3. SubSeq(s, 1, Len(s) - 1) \in Seq(CNameIndex)
      BY <2>2
    <2> QED  BY <1>1, <2>1, <2>3, WriteNameType DEF NameDisconnected
  <1>2. CASE ~(NamePopped(t) /\ CheckNameTxPos(nv, NameOut(t).name, tv[t].pos))
    BY <1>2 DEF NameDisconnected
  <1> QED  BY <1>1, <1>2

-----------------------------------------------------------------------------
LEMMA InitInv == Init => NodeInv
  <1> SUFFICES ASSUME Init PROVE NodeInv
    OBVIOUS
  <1>1. /\ Genesis \in Block /\ Ancestors[Genesis] = {Genesis}
        /\ vtx[Genesis] \in Seq(Tx) /\ Len(vtx[Genesis]) \in Nat
    BY BlockTree, TxAssumption
  <1>2. TypeOK
    <2>1. ChainType
      BY <1>1 DEF Init, ChainType, NextType
    <2>2. NoIndex \in [pos : (Block \cup {NoBlock}) \X Nat, spent : SUBSET Nat]
      BY DEF NoIndex, NoPos
    <2>3. dbTx \in TxIndexType /\ txTx \in TxIndexType
      BY <2>2 DEF Init, TxIndexType
    <2>4. NameIndexType(dbName) /\ NameIndexType(txName)
      BY DEF Init, NameIndexType
    <2>5. PoolType
      BY DEF Init, PoolType
    <2>6. JobType
      BY <1>1 DEF Init, JobType
    <2> QED  BY <2>1, <2>3, <2>4, <2>5, <2>6 DEF TypeOK, StoreType
  <1>3. IndexClosed
    BY <1>1 DEF Init, IndexClosed
  <1>4. JobOK
    BY DEF Init, JobOK, Committed
  <1>5. \A t \in Tx : ~HasTxIndex(dbTx, t)
    BY DEF Init, HasTxIndex, NoIndex
  <1>6. ChainView(dbTx, Genesis, Len(vtx[Genesis]))
    <2>1. \A b, i, n : ~InChain(b, i, Genesis, n)
      BY <1>1 DEF InChain
    <2>2. IndexedTx(dbTx) = {}
      BY <1>5 DEF IndexedTx
    <2> QED  BY <1>5, <2>1, <2>2
             DEF ChainView, IndexIsChain, OutputsSpentOnce, InputsPrecede
  <1>7. ChainView(dbTx, dbBest, Len(vtx[dbBest])) /\ ChainView(txTx, tip, nTx)
    BY <1>6 DEF Init
  <1> QED  BY <1>2, <1>3, <1>4, <1>7 DEF NodeInv

(* The parts of the invariant, for the steps that leave them alone. *)
LEMMA SameViews ==
    ASSUME NodeInv, UNCHANGED <<txTx, tip, nTx, dbTx, dbBest>>
    PROVE  ChainView(txTx, tip, nTx)' /\ ChainView(dbTx, dbBest, Len(vtx[dbBest]))'
  BY DEF NodeInv

LEMMA SameIndex ==
    ASSUME NodeInv, UNCHANGED <<mapBlockIndex, mapOrphanBlocks, vWorkQueue>>
    PROVE  IndexClosed'
  BY DEF NodeInv, IndexClosed

LEMMA SameJob ==
    ASSUME NodeInv, UNCHANGED <<pindexBest, pindexNew, stage, tip, nTx, txTx, txName,
                                dbTx, dbName, dbBest>>
    PROVE  JobOK'
  BY DEF NodeInv, JobOK, Committed, AtFork

(* Steps that change the pool and its queues only. *)
LEMMA PoolStep ==
    ASSUME NodeInv, PoolType', vResurrect' \in Seq(Tx), vDelete' \in Seq(Tx),
           UNCHANGED <<diskVars, txnVars, chainVars, stage, pindexNew, viewVars,
                       vWorkQueue, faults>>
    PROVE  NodeInv'
  <1> USE DEF diskVars, txnVars, chainVars, viewVars
  <1>1. TypeOK'
    BY DEF NodeInv, TypeOK, ChainType, StoreType, JobType
  <1> QED  BY <1>1, SameViews, SameIndex, SameJob DEF NodeInv

LEMMA PoolSteps ==
    ASSUME NodeInv,
           \/ \E t \in Tx : AcceptToMemoryPool(t) \/ deletetransaction(t)
           \/ ResurrectTx \/ DeleteTx
    PROVE  NodeInv'
  <1>1. PoolType /\ vResurrect \in Seq(Tx) /\ vDelete \in Seq(Tx)
    BY DEF NodeInv, TypeOK, JobType
  <1>2. ASSUME NEW t \in Tx, AcceptToMemoryPool(t) PROVE NodeInv'
    <2>1. PoolType'
      BY <1>1, <1>2, AddType DEF AcceptToMemoryPool
    <2> QED  BY <1>1, <1>2, <2>1, PoolStep DEF AcceptToMemoryPool, jobVars, viewVars
  <1>3. ASSUME NEW t \in Tx, deletetransaction(t) PROVE NodeInv'
    <2>1. PoolType'
      BY <1>1, <1>3, RemoveType DEF deletetransaction
    <2> QED  BY <1>1, <1>3, <2>1, PoolStep DEF deletetransaction, jobVars, viewVars
  <1>4. CASE ResurrectTx
    <2>1. Head(vResurrect) \in Tx /\ vResurrect' \in Seq(Tx) /\ vDelete' = vDelete
      BY <1>1, <1>4 DEF ResurrectTx
    <2>2. PoolType'
      <3>1. CASE PoolAdmits(Head(vResurrect))
        BY <1>1, <1>4, <2>1, <3>1, AddType DEF ResurrectTx
      <3>2. CASE ~PoolAdmits(Head(vResurrect))
        <4>1. UNCHANGED poolVars
          BY <1>4, <3>2 DEF ResurrectTx
        <4> QED  BY <1>1, <4>1 DEF PoolType, poolVars
      <3> QED  BY <3>1, <3>2
    <2> QED  BY <1>1, <1>4, <2>1, <2>2, PoolStep DEF ResurrectTx
  <1>5. CASE DeleteTx
    <2>1. Head(vDelete) \in Tx /\ vDelete' \in Seq(Tx) /\ vResurrect' = vResurrect
      BY <1>1, <1>5 DEF DeleteTx
    <2>2. PoolType'
      BY <1>1, <1>5, <2>1, RemoveType DEF DeleteTx
    <2> QED  BY <1>1, <1>5, <2>1, <2>2, PoolStep DEF DeleteTx
  <1> QED  BY <1>2, <1>3, <1>4, <1>5

-----------------------------------------------------------------------------
(* A block that extends the index keeps it closed, and starts a job of      *)
(* SetBestChain only if it is not on the best chain already.                *)
LEMMA AcceptBlockStep ==
    ASSUME NodeInv, NEW b \in Block, stage \in {"idle", "orphans"},
           hashPrevBlock[b] \in mapBlockIndex, CheckBlock(b), AcceptBlock(b),
           mapOrphanBlocks' \subseteq mapOrphanBlocks
    PROVE  NodeInv'
  <1>1. /\ mapBlockIndex' = mapBlockIndex \cup {b} /\ mapBlockIndex \subseteq Block
        /\ vWorkQueue \in Seq(Block)
        /\ UNCHANGED <<pindexBest, pnext, bnBestInvalidWork, diskVars, txnVars, poolVars,
                       viewVars, vResurrect, vDelete, faults>>
    BY DEF NodeInv, TypeOK, ChainType, JobType, AcceptBlock, IndexBlock
  <1>2. b # Genesis
    BY BlockTree, <1>1
  <1>3. \/ /\ bnChainWork[b] > bnChainWork[pindexBest] /\ stage' = "disconnect" /\ pindexNew' = b
           /\ vWorkQueue' = vWorkQueue
        \/ stage' = "orphans" /\ pindexNew' = pindexNew /\ vWorkQueue' = Append(vWorkQueue, b)
    BY DEF AcceptBlock, IndexBlock, HasMoreWork
  <1>4. vWorkQueue' \in Seq(Block)
        /\ \A i \in DOMAIN vWorkQueue' : vWorkQueue'[i] \in mapBlockIndex'
    BY <1>1, <1>3 DEF NodeInv, IndexClosed
  <1> USE DEF diskVars, txnVars, poolVars, viewVars
  <1>5. TypeOK'
    <2>1. ChainType' /\ StoreType' /\ PoolType'
      BY <1>1 DEF NodeInv, TypeOK, ChainType, StoreType, PoolType
    <2>2. JobType'
      <3>1. b # NoBlock /\ b \in mapBlockIndex'
        BY <1>1, BlockTree
      <3>2. /\ pindexNew \in mapBlockIndex \cup {NoBlock}
            /\ pindexNew # NoBlock <=> stage \notin {"idle", "orphans"}
            /\ tip \in mapBlockIndex /\ nTx \in 0 .. Len(vtx[tip]) /\ nFees \in Int
            /\ vResurrect \in Seq(Tx) /\ vDelete \in Seq(Tx)
        BY DEF NodeInv, TypeOK, JobType
      <3> QED  BY <1>1, <1>3, <1>4, <3>1, <3>2 DEF JobType
    <2> QED  BY <2>1, <2>2 DEF TypeOK
  <1>6. IndexClosed'
    <2>1. Ancestors[b] = {b} \cup Ancestors[hashPrevBlock[b]]
      BY <1>2, Ancestry
    <2>2. \A c \in mapBlockIndex' : Ancestors[c] \subseteq mapBlockIndex'
      BY <1>1, <2>1 DEF NodeInv, IndexClosed
    <2>3. \A c \in mapBlockIndex' \cup mapOrphanBlocks' : c = Genesis \/ CheckBlock(c)
      BY <1>1 DEF NodeInv, IndexClosed
    <2> QED  BY <1>4, <2>2, <2>3 DEF IndexClosed
  <1>7. JobOK'
    <2>1. /\ tip = dbBest /\ dbBest = pindexBest /\ nTx = Len(vtx[tip])
          /\ txTx = dbTx /\ txName = dbName
      BY DEF NodeInv, JobOK, Committed
    <2>2. pindexBest \in Block /\ pindexBest \in Ancestors[pindexBest]
      BY <1>1, ChainOrder DEF NodeInv, TypeOK, ChainType
    <2>3. bnChainWork[b] > bnChainWork[pindexBest] => b \notin Ancestors[pindexBest]
      BY <2>2, ChainOrder, BlockTree
    <2> QED  BY <1>1, <1>3, <2>1, <2>2, <2>3 DEF JobOK, Committed, AtFork
  <1> QED  BY <1>1, <1>5, <1>6, <1>7, SameViews DEF NodeInv

LEMMA RejectBlockStep ==
    ASSUME NodeInv, NEW b \in Block, stage \in {"idle", "orphans"}, RejectBlock(b),
           mapOrphanBlocks' \subseteq mapOrphanBlocks
    PROVE  NodeInv'
  <1> USE DEF RejectBlock, diskVars, txnVars, poolVars, viewVars
  <1>1. TypeOK'
    BY DEF NodeInv, TypeOK, ChainType, StoreType, PoolType, JobType
  <1>2. IndexClosed'
    BY DEF NodeInv, IndexClosed
  <1>3. JobOK'
    BY DEF NodeInv, JobOK, Committed, AtFork
  <1> QED  BY <1>1, <1>2, <1>3, SameViews DEF NodeInv

(* ProcessBlock and its orphan loop. *)
LEMMA ProcessBlockSteps ==
    ASSUME NodeInv,
           \/ \E b \in Block : \/ ProcessBlockRefused(b) \/ ProcessBlockOrphan(b)
                               \/ ProcessBlock(b) \/ ProcessOrphan(b)
           \/ NextInQueue \/ ProcessBlockDone
    PROVE  NodeInv'
  <1>1. ASSUME NEW b \in Block, ProcessBlockRefused(b) PROVE NodeInv'
    <2>1. PoolType' /\ vResurrect' \in Seq(Tx) /\ vDelete' \in Seq(Tx)
      BY <1>1 DEF ProcessBlockRefused, vars, poolVars, jobVars, NodeInv, TypeOK, PoolType, JobType
    <2> QED  BY <1>1, <2>1, PoolStep DEF ProcessBlockRefused, vars, jobVars
  <1>2. ASSUME NEW b \in Block, ProcessBlockOrphan(b) PROVE NodeInv'
    <2> USE <1>2 DEF ProcessBlockOrphan, diskVars, txnVars, poolVars, jobVars, viewVars
    <2>1. TypeOK'
      BY DEF NodeInv, TypeOK, ChainType, StoreType, PoolType, JobType
    <2>2. IndexClosed'
      BY DEF NodeInv, IndexClosed
    <2> QED  BY <2>1, <2>2, SameJob, SameViews DEF NodeInv
  <1>3. ASSUME NEW b \in Block, ProcessBlock(b) PROVE NodeInv'
    BY <1>3, AcceptBlockStep, RejectBlockStep DEF ProcessBlock
  <1>4. ASSUME NEW b \in Block, ProcessOrphan(b) PROVE NodeInv'
    <2>1. b # Genesis /\ hashPrevBlock[b] \in mapBlockIndex
      <3>1. vWorkQueue \in Seq(Block) /\ vWorkQueue # <<>> /\ hashPrevBlock[b] = Head(vWorkQueue)
        BY <1>4 DEF ProcessOrphan, NodeInv, TypeOK, JobType
      <3>2. 1 \in DOMAIN vWorkQueue /\ Head(vWorkQueue) = vWorkQueue[1]
        BY <3>1
      <3>3. hashPrevBlock[b] \in mapBlockIndex /\ mapBlockIndex \subseteq Block
        BY <3>1, <3>2 DEF NodeInv, IndexClosed, TypeOK, ChainType
      <3> QED  BY <3>3, BlockTree
    <2>2. CheckBlock(b)
      BY <1>4, <2>1 DEF ProcessOrphan, NodeInv, IndexClosed
    <2> QED  BY <1>4, <2>1, <2>2, AcceptBlockStep, RejectBlockStep DEF ProcessOrphan
  <1>5. CASE NextInQueue
    <2> USE <1>5 DEF NextInQueue, diskVars, txnVars, chainVars, poolVars, viewVars
    <2>1. vWorkQueue \in Seq(Block) /\ vWorkQueue # <<>> /\ vWorkQueue' = Tail(vWorkQueue)
      BY DEF NodeInv, TypeOK, JobType
    <2>2. TypeOK'
      BY <2>1 DEF NodeInv, TypeOK, ChainType, StoreType, PoolType, JobType
    <2>3. \A i \in DOMAIN vWorkQueue' : i + 1 \in DOMAIN vWorkQueue /\ vWorkQueue'[i] = vWorkQueue[i + 1]
      BY <2>1
    <2>4. IndexClosed'
      BY <2>3 DEF NodeInv, IndexClosed
    <2> QED  BY <2>2, <2>4, SameJob, SameViews DEF NodeInv
  <1>6. CASE ProcessBlockDone
    <2> USE <1>6 DEF ProcessBlockDone, diskVars, txnVars, chainVars, poolVars, viewVars
    <2>1. TypeOK'
      BY DEF NodeInv, TypeOK, ChainType, StoreType, PoolType, JobType
    <2>2. JobOK'
      BY DEF NodeInv, JobOK, Committed, AtFork
    <2> QED  BY <2>1, <2>2, SameIndex, SameViews DEF NodeInv
  <1> QED  BY <1>1, <1>2, <1>3, <1>4, <1>5, <1>6

-----------------------------------------------------------------------------
(* While SetBestChain works, its blocks are in the index. *)
LEMMA JobFacts ==
    ASSUME NodeInv
    PROVE  /\ mapBlockIndex \subseteq Block /\ tip \in Block /\ pindexBest \in Block
           /\ stage \notin {"idle", "orphans"} => pindexNew \in mapBlockIndex
           /\ stage \in {"disconnect", "connect", "connected"} => dbBest = pindexBest
           /\ \A b \in Block : vtx[b] \in Seq(Tx) /\ Len(vtx[b]) \in Nat
           /\ nTx \in Nat /\ nTx <= Len(vtx[tip])
  <1>1. mapBlockIndex \subseteq Block /\ tip \in Block /\ pindexBest \in Block
    BY DEF NodeInv, TypeOK, ChainType, JobType
  <1>2. stage \notin {"idle", "orphans"} => pindexNew \in mapBlockIndex
    BY DEF NodeInv, TypeOK, JobType
  <1>3. stage \in {"disconnect", "connect", "connected"} => dbBest = pindexBest
    BY DEF NodeInv, JobOK
  <1>4. \A b \in Block : vtx[b] \in Seq(Tx) /\ Len(vtx[b]) \in Nat
    BY TxAssumption
  <1>5. nTx \in Nat /\ nTx <= Len(vtx[tip])
    BY <1>1, <1>4 DEF NodeInv, TypeOK, JobType
  <1> QED  BY <1>1, <1>2, <1>3, <1>4, <1>5

(* On the way down the tip is not the genesis block, and was checked. *)
LEMMA DisconnectFacts ==
    ASSUME NodeInv, stage = "disconnect", ~AtFork
    PROVE  tip \in Block \ {Genesis} /\ CheckBlock(tip)
  <1>1. pindexNew \in Block /\ Genesis \in Ancestors[pindexNew]
    BY JobFacts, ChainOrder
  <1>2. tip \in Block \ {Genesis} /\ tip \in mapBlockIndex
    BY <1>1, JobFacts DEF AtFork, NodeInv, TypeOK, JobType
  <1> QED  BY <1>2 DEF NodeInv, IndexClosed

LEMMA DisconnectInputsStep == ASSUME NodeInv, DisconnectInputs PROVE NodeInv'
  <1> DEFINE t == vtx[tip][nTx]
  <1>1. /\ stage = "disconnect" /\ ~AtFork /\ nTx > 0
        /\ txName' = NameDisconnected(t, txTx, txName) /\ txTx' = TxDisconnected(t, txTx)
        /\ nTx' = nTx - 1
        /\ UNCHANGED <<diskVars, txNext, chainVars, poolVars, stage, pindexNew, tip, nFees,
                       vResurrect, vDelete, vWorkQueue, faults>>
    BY DEF DisconnectInputs
  <1>2. tip \in Block \ {Genesis} /\ nTx \in Nat \ {0} /\ nTx <= Len(vtx[tip]) /\ t \in Tx
    BY <1>1, DisconnectFacts, JobFacts
  <1>3. txTx \in TxIndexType /\ NameIndexType(txName) /\ ChainView(txTx, tip, nTx)
    BY DEF NodeInv, TypeOK, StoreType
  <1>4. txTx' \in TxIndexType /\ NameIndexType(txName')
    BY <1>1, <1>2, <1>3, NameDisconnectedType, DisconnectedRecords
  <1>5. ChainView(txTx', tip', nTx')
    BY <1>1, <1>2, <1>3, DisconnectView
  <1> HIDE DEF t
  <1> USE DEF diskVars, chainVars, poolVars
  <1>6. TypeOK'
    <2>1. nTx' \in 0 .. Len(vtx[tip'])
      BY <1>1, <1>2
    <2> QED  BY <1>1, <1>4, <2>1 DEF NodeInv, TypeOK, ChainType, StoreType, PoolType, JobType, NameIndexType
  <1>7. JobOK'
    BY <1>1 DEF NodeInv, JobOK, Committed, AtFork
  <1>8. ChainView(dbTx', dbBest', Len(vtx[dbBest']))
    BY <1>1 DEF NodeInv
  <1> QED  BY <1>1, <1>5, <1>6, <1>7, <1>8, SameIndex DEF NodeInv

LEMMA DisconnectBlockStep == ASSUME NodeInv, DisconnectBlock PROVE NodeInv'
  <1> DEFINE prev == hashPrevBlock[tip]
  <1>1. /\ stage = "disconnect" /\ ~AtFork /\ nTx = 0
        /\ txNext' = [txNext EXCEPT ![prev] = NoBlock]
        /\ tip' = prev /\ nTx' = Len(vtx[prev])
        /\ vResurrect' = vResurrect \o Tail(vtx[tip])
        /\ UNCHANGED <<diskVars, txTx, txName, chainVars, poolVars, stage, pindexNew, nFees,
                       vDelete, vWorkQueue, faults>>
    BY DEF DisconnectBlock
  <1>2. tip \in Block \ {Genesis} /\ CheckBlock(tip) /\ vtx[tip] \in Seq(Tx)
    BY <1>1, DisconnectFacts, JobFacts
  <1>3. prev \in Block /\ prev \in Ancestors[tip]
    BY <1>2, Ancestry, ChainOrder
  <1>4. tip \in mapBlockIndex /\ tip \in Ancestors[pindexBest]
    BY <1>1 DEF NodeInv, TypeOK, JobType, JobOK
  <1>5. prev \in mapBlockIndex /\ prev \in Ancestors[pindexBest]
    <2>1. Ancestors[tip] \subseteq Ancestors[pindexBest]
      BY <1>4, JobFacts, ChainOrder
    <2> QED  BY <1>3, <1>4, <2>1 DEF NodeInv, IndexClosed
  <1>6. ChainView(txTx', tip', nTx')
    BY <1>1, <1>2, BlockBoundary DEF NodeInv
  <1>7. vResurrect' \in Seq(Tx)
    <2>1. vResurrect \in Seq(Tx) /\ vtx[tip] # <<>>
      BY <1>2 DEF NodeInv, TypeOK, JobType, CheckBlock
    <2> QED  BY <1>1, <1>2, <2>1
  <1> HIDE DEF prev
  <1> USE DEF diskVars, chainVars, poolVars
  <1>8. TypeOK'
    <2>1. nTx' \in 0 .. Len(vtx[tip'])
      BY <1>1, <1>3, TxAssumption
    <2>2. txNext' \in NextType
      BY <1>1 DEF NodeInv, TypeOK, ChainType, NextType
    <2> QED  BY <1>1, <1>5, <1>7, <2>1, <2>2
             DEF NodeInv, TypeOK, ChainType, StoreType, PoolType, JobType, NameIndexType
  <1>9. JobOK'
    BY <1>1, <1>5 DEF NodeInv, JobOK, Committed, AtFork
  <1>10. ChainView(dbTx', dbBest', Len(vtx[dbBest']))
    BY <1>1 DEF NodeInv
  <1> QED  BY <1>1, <1>6, <1>8, <1>9, <1>10, SameIndex DEF NodeInv

LEMMA ConnectNextStep == ASSUME NodeInv, ConnectNext PROVE NodeInv'
  <1> DEFINE c == NextToConnect
  <1>1. /\ stage' = "connect" /\ tip' = c /\ nTx' = 0 /\ nFees' = 0
        /\ UNCHANGED <<diskVars, txnVars, chainVars, poolVars, pindexNew,
                       vResurrect, vDelete, vWorkQueue, faults>>
        /\ stage \in {"disconnect", "connected"}
    BY DEF ConnectNext
  <1>2. pindexNew \in mapBlockIndex /\ pindexNew \in Block
    BY <1>1, JobFacts
  <1>3. tip \in Ancestors[pindexNew] /\ tip # pindexNew /\ nTx = Len(vtx[tip])
    <2>1. CASE stage = "disconnect" /\ AtFork
      BY <2>1 DEF NodeInv, JobOK, AtFork
    <2>2. CASE stage = "connected" /\ tip # pindexNew
      BY <2>2 DEF NodeInv, JobOK
    <2> QED  BY <2>1, <2>2 DEF ConnectNext
  <1>4. c \in Ancestors[pindexNew] /\ hashPrevBlock[c] = tip
    <2>1. \E b \in Ancestors[pindexNew] : hashPrevBlock[b] = tip
      BY <1>2, <1>3, ChainOrder
    <2> QED  BY <2>1 DEF NextToConnect
  <1>5. c \in mapBlockIndex /\ c \in Block \ {Genesis}
    BY <1>2, <1>4, JobFacts, BlockTree DEF NodeInv, IndexClosed
  <1> HIDE DEF c
  <1>6. ChainView(txTx', tip', nTx')
    BY <1>1, <1>3, <1>4, <1>5, BlockBoundary DEF NodeInv, txnVars
  <1> USE DEF diskVars, txnVars, chainVars, poolVars
  <1>7. TypeOK'
    <2>1. nTx' \in 0 .. Len(vtx[tip'])
      BY <1>1, <1>5, TxAssumption
    <2>2. pindexNew' \in mapBlockIndex' /\ pindexNew' # NoBlock
      BY <1>1, <1>2, BlockTree
    <2> QED  BY <1>1, <1>5, <2>1, <2>2
             DEF NodeInv, TypeOK, ChainType, StoreType, PoolType, JobType, NameIndexType
  <1>8. JobOK'
    BY <1>1, <1>4, <1>5 DEF NodeInv, JobOK, Committed, AtFork
  <1>9. ChainView(dbTx', dbBest', Len(vtx[dbBest']))
    BY <1>1 DEF NodeInv
  <1> QED  BY <1>1, <1>6, <1>7, <1>8, <1>9, SameIndex DEF NodeInv

LEMMA ConnectInputsStep == ASSUME NodeInv, ConnectInputs PROVE NodeInv'
  <1> DEFINE t == vtx[tip][nTx + 1]
  <1>1. /\ stage = "connect" /\ nTx < Len(vtx[tip])
        /\ ~IsCoinBase(t) => TxConnects(t)
        /\ nFees' = IF IsCoinBase(t) THEN nFees ELSE nFees + TxFee(t)
        /\ txName' = NameConnected(t, tip, nTx + 1, txTx, txName)
        /\ txTx' = TxConnected(t, tip, nTx + 1, txTx)
        /\ mapNamePending' = IF ErasesPending(t) THEN PendingWithout(t) ELSE mapNamePending
        /\ nTx' = nTx + 1
        /\ UNCHANGED <<diskVars, txNext, chainVars, mapTransactions, mapNextTx, setNewHashes,
                       stage, pindexNew, tip, vResurrect, vDelete, vWorkQueue, faults>>
    BY DEF ConnectInputs
  <1>2. /\ tip \in Block \ {Genesis} /\ nTx \in Nat /\ nTx + 1 \in Nat /\ t \in Tx
        /\ nTx + 1 \in 0 .. Len(vtx[tip])
    BY <1>1, JobFacts DEF NodeInv, JobOK
  <1>3. \A b \in Ancestors[tip] \ {Genesis} : CheckBlock(b)
    BY DEF NodeInv, IndexClosed, TypeOK, JobType
  <1>4. txTx \in TxIndexType /\ NameIndexType(txName) /\ ChainView(txTx, tip, nTx) /\ PoolType
    BY DEF NodeInv, TypeOK, StoreType
  <1>5. \A o \in vin[t] : /\ HasTxIndex(txTx, o[1]) /\ o[2] <= Len(vout[o[1]])
                          /\ o[2] \notin txTx[o[1]].spent
    <2>1. CASE IsCoinBase(t)
      BY <2>1 DEF IsCoinBase
    <2>2. CASE ~IsCoinBase(t)
      BY <1>1, <2>2 DEF TxConnects, InputsOK, InputOK
    <2> QED  BY <2>1, <2>2
  <1>6. ChainView(txTx', tip', nTx')
    BY <1>1, <1>2, <1>3, <1>4, <1>5, ConnectView
  <1>7. isNameTx[t] /\ ~IsCoinBase(t) => DecodeNameTx(t)
    BY <1>1 DEF TxConnects, HookConnectInputs
  <1> HIDE DEF t
  <1>8. txTx' \in TxIndexType /\ NameIndexType(txName')
    BY <1>1, <1>2, <1>4, <1>7, NameConnectedType, ConnectedRecords
  <1>9. mapNamePending' \in [Name -> SUBSET Tx]
    BY <1>1, <1>2, <1>4, PendingWithoutType DEF PoolType
  <1>10. nFees' \in Int
    <2>1. TxFee(t) \in Int
      BY <1>2, Values DEF TxFee
    <2> QED  BY <1>1, <2>1 DEF NodeInv, TypeOK, JobType
  <1> USE DEF diskVars, chainVars
  <1>11. TypeOK'
    BY <1>1, <1>2, <1>8, <1>9, <1>10
       DEF NodeInv, TypeOK, ChainType, StoreType, PoolType, JobType, NameIndexType
  <1>12. JobOK'
    BY <1>1 DEF NodeInv, JobOK, Committed, AtFork
  <1>13. ChainView(dbTx', dbBest', Len(vtx[dbBest']))
    BY <1>1 DEF NodeInv
  <1> QED  BY <1>1, <1>6, <1>11, <1>12, <1>13, SameIndex DEF NodeInv

LEMMA ConnectBlockStep == ASSUME NodeInv, ConnectBlock PROVE NodeInv'
  <1>1. /\ stage = "connect" /\ nTx = Len(vtx[tip]) /\ stage' = "connected"
        /\ txNext' = [txNext EXCEPT ![hashPrevBlock[tip]] = tip]
        /\ vDelete' = vDelete \o vtx[tip]
        /\ UNCHANGED <<diskVars, txTx, txName, chainVars, poolVars, pindexNew, viewVars,
                       vResurrect, vWorkQueue, faults>>
    BY DEF ConnectBlock
  <1> USE DEF diskVars, chainVars, poolVars, viewVars
  <1>2. vDelete' \in Seq(Tx) /\ txNext' \in NextType
    <2>1. tip \in Block /\ vtx[tip] \in Seq(Tx)
      BY JobFacts
    <2>2. vDelete \in Seq(Tx) /\ txNext \in NextType
      BY DEF NodeInv, TypeOK, ChainType, JobType
    <2>3. txNext' \in NextType
      BY <1>1, <2>1, <2>2 DEF NextType
    <2> QED  BY <1>1, <2>1, <2>2, <2>3
  <1>3. TypeOK'
    BY <1>1, <1>2 DEF NodeInv, TypeOK, ChainType, StoreType, PoolType, JobType, NameIndexType
  <1>4. JobOK'
    BY <1>1 DEF NodeInv, JobOK, Committed, AtFork
  <1> QED  BY <1>1, <1>3, <1>4, SameIndex, SameViews DEF NodeInv

(* Before the commit, dropping the transaction goes back to the state of    *)
(* the databases.                                                           *)
LEMMA AbortStep ==
    ASSUME NodeInv, Abort, stage \in {"disconnect", "connect", "connected"},
           mapNamePending' \in [Name -> SUBSET Tx], bnBestInvalidWork' \in Nat, faults' \in Nat
    PROVE  NodeInv'
  <1>1. /\ dbBest = pindexBest /\ pindexBest \in mapBlockIndex
        /\ 0 \in Int /\ Len(vtx[pindexBest]) \in 0 .. Len(vtx[pindexBest])
    BY JobFacts DEF NodeInv, TypeOK, ChainType
  <1> USE DEF Abort, TxnAbort, diskVars
  <1>2. TypeOK'
    BY <1>1 DEF NodeInv, TypeOK, ChainType, StoreType, PoolType, JobType, NameIndexType
  <1>3. JobOK'
    BY <1>1 DEF JobOK, Committed, AtFork
  <1>4. ChainView(dbTx', dbBest', Len(vtx[dbBest'])) /\ ChainView(txTx', tip', nTx')
    BY <1>1 DEF NodeInv
  <1> QED  BY <1>2, <1>3, <1>4, SameIndex DEF NodeInv

LEMMA AbortSteps ==
    ASSUME NodeInv,
           DisconnectFails \/ ConnectInputsFails \/ ConnectBlockFails \/ TxnCommitFails
    PROVE  NodeInv'
  <1>1. /\ PoolType /\ bnBestInvalidWork \in Nat /\ faults \in Nat
        /\ mapNamePending \in [Name -> SUBSET Tx]
    BY DEF NodeInv, TypeOK, ChainType, PoolType
  <1>2. stage \notin {"idle", "orphans"} /\ InvalidChainFound => bnBestInvalidWork' \in Nat
    BY <1>1, JobFacts, BlockTree DEF InvalidChainFound
  <1>3. CASE DisconnectFails
    BY <1>1, <1>2, <1>3, AbortStep DEF DisconnectFails
  <1>4. CASE ConnectInputsFails
    <2>1. vtx[tip][nTx + 1] \in Tx
      BY <1>4, JobFacts DEF ConnectInputsFails
    <2>2. mapNamePending' \in [Name -> SUBSET Tx]
      BY <1>1, <1>4, <2>1, PendingWithoutType DEF ConnectInputsFails
    <2> QED  BY <1>1, <1>2, <1>4, <2>2, AbortStep DEF ConnectInputsFails
  <1>5. CASE ConnectBlockFails
    BY <1>1, <1>2, <1>5, AbortStep DEF ConnectBlockFails
  <1>6. CASE TxnCommitFails
    BY <1>1, <1>2, <1>6, AbortStep DEF TxnCommitFails, ReadyToCommit
  <1> QED  BY <1>3, <1>4, <1>5, <1>6

LEMMA TxnCommitStep == ASSUME NodeInv, TxnCommit PROVE NodeInv'
  <1>1. /\ stage = "connected" /\ tip = pindexNew /\ stage' = "resurrect"
        /\ dbTx' = txTx /\ dbName' = txName /\ dbNext' = txNext /\ dbBest' = pindexNew
        /\ UNCHANGED <<txnVars, mapBlockIndex, mapOrphanBlocks, pindexBest, bnBestInvalidWork,
                       poolVars, pindexNew, viewVars, vResurrect, vDelete, vWorkQueue, faults>>
    BY DEF TxnCommit, ReadyToCommit, WriteDatabases
  <1>2. pindexNew \in mapBlockIndex /\ pnext \in NextType /\ mapBlockIndex \subseteq Block
    BY <1>1, JobFacts DEF NodeInv, TypeOK, ChainType
  <1>3. pnext' \in NextType
    <2> DEFINE vDisconnect == Ancestors[pindexBest] \ Ancestors[pindexNew]
               vConnect    == Ancestors[pindexNew] \ Ancestors[pindexBest]
               next(b) == IF \E c \in vConnect : hashPrevBlock[c] = b
                          THEN CHOOSE c \in vConnect : hashPrevBlock[c] = b
                          ELSE IF \E d \in vDisconnect : hashPrevBlock[d] = b THEN NoBlock
                          ELSE pnext[b]
    <2>1. pnext' = [b \in Block |-> next(b)]
      BY DEF TxnCommit
    <2>2. vConnect \subseteq Block
      BY <1>2, BlockTree
    <2>3. \A b \in Block : next(b) \in Block \cup {NoBlock}
      BY <1>2, <2>2 DEF NextType
    <2> QED  BY <2>1, <2>3 DEF NextType
  <1> USE DEF txnVars, poolVars, viewVars
  <1>4. TypeOK'
    BY <1>1, <1>2, <1>3 DEF NodeInv, TypeOK, ChainType, StoreType, PoolType, JobType, NameIndexType
  <1>5. JobOK'
    BY <1>1 DEF NodeInv, JobOK, Committed, AtFork
  <1>6. ChainView(dbTx', dbBest', Len(vtx[dbBest'])) /\ ChainView(txTx', tip', nTx')
    BY <1>1 DEF NodeInv, JobOK
  <1> QED  BY <1>1, <1>4, <1>5, <1>6, SameIndex DEF NodeInv

(* The steps after the commit. *)
LEMMA AfterCommitSteps ==
    ASSUME NodeInv, ResurrectDone \/ NewBestBlock
    PROVE  NodeInv'
  <1> USE DEF diskVars, txnVars, chainVars, poolVars, viewVars
  <1>1. CASE ResurrectDone
    <2>1. TypeOK'
      BY <1>1 DEF ResurrectDone, NodeInv, TypeOK, ChainType, StoreType, PoolType, JobType
    <2>2. JobOK'
      BY <1>1 DEF ResurrectDone, NodeInv, JobOK, Committed, AtFork
    <2> QED  BY <1>1, <2>1, <2>2, SameIndex, SameViews DEF ResurrectDone, NodeInv
  <1>2. CASE NewBestBlock
    <2>1. /\ stage = "delete" /\ pindexBest' = pindexNew /\ pindexNew' = NoBlock
          /\ stage' = "orphans" /\ vWorkQueue' = Append(vWorkQueue, pindexNew)
          /\ UNCHANGED <<diskVars, txnVars, mapBlockIndex, mapOrphanBlocks, pnext,
                         bnBestInvalidWork, poolVars, viewVars, vResurrect, vDelete, faults>>
      BY <1>2 DEF NewBestBlock
    <2>2. pindexNew \in mapBlockIndex /\ pindexNew \in Block /\ vWorkQueue \in Seq(Block)
      BY <2>1, JobFacts DEF NodeInv, TypeOK, JobType
    <2>3. vWorkQueue' \in Seq(Block) /\ \A i \in DOMAIN vWorkQueue' : vWorkQueue'[i] \in mapBlockIndex
      BY <2>1, <2>2 DEF NodeInv, IndexClosed
    <2>4. TypeOK'
      BY <2>1, <2>2, <2>3 DEF NodeInv, TypeOK, ChainType, StoreType, PoolType, JobType
    <2>5. IndexClosed'
      BY <2>1, <2>3 DEF NodeInv, IndexClosed
    <2>6. JobOK'
      BY <2>1 DEF NodeInv, JobOK, Committed, AtFork
    <2> QED  BY <2>1, <2>4, <2>5, <2>6, SameViews DEF NodeInv
  <1> QED  BY <1>1, <1>2

LEMMA RestartStep == ASSUME NodeInv, Restart PROVE NodeInv'
  <1>1. dbBest \in mapBlockIndex /\ dbBest \in Block /\ Len(vtx[dbBest]) \in 0 .. Len(vtx[dbBest])
    BY JobFacts DEF NodeInv, TypeOK, ChainType
  <1> USE DEF Restart, diskVars
  <1>2. TypeOK'
    <2>1. ChainType' /\ StoreType'
      BY <1>1 DEF NodeInv, TypeOK, ChainType, StoreType, NameIndexType
    <2>2. PoolType' /\ JobType'
      BY <1>1 DEF NodeInv, TypeOK, PoolType, JobType
    <2> QED  BY <2>1, <2>2 DEF TypeOK
  <1>3. IndexClosed'
    BY DEF NodeInv, IndexClosed
  <1>4. JobOK'
    BY DEF JobOK, Committed, AtFork
  <1>5. ChainView(dbTx', dbBest', Len(vtx[dbBest'])) /\ ChainView(txTx', tip', nTx')
    BY DEF NodeInv
  <1> QED  BY <1>2, <1>3, <1>4, <1>5 DEF NodeInv

LEMMA NextInv == ASSUME NodeInv, [Next]_vars PROVE NodeInv'
  <1>1. CASE Work
    BY <1>1, PoolSteps, ProcessBlockSteps, DisconnectInputsStep, DisconnectBlockStep,
       ConnectNextStep, ConnectInputsStep, ConnectBlockStep, AbortSteps, TxnCommitStep,
       AfterCommitSteps DEF Work
  <1>2. CASE Input
    BY <1>2, PoolSteps, ProcessBlockSteps DEF Input
  <1>3. CASE Fault
    BY <1>3, AbortSteps, RestartStep DEF Fault
  <1>4. CASE UNCHANGED vars
    <2>1. PoolType' /\ vResurrect' \in Seq(Tx) /\ vDelete' \in Seq(Tx)
      BY <1>4 DEF vars, poolVars, jobVars, NodeInv, TypeOK, PoolType, JobType
    <2> QED  BY <1>4, <2>1, PoolStep DEF vars, jobVars
  <1> QED  BY <1>1, <1>2, <1>3, <1>4 DEF Next

-----------------------------------------------------------------------------
(* NodeInv holds throughout: through reorganisations, aborted database      *)
(* transactions, failed commits and restarts.                               *)
THEOREM NodeInvariant == Spec => []NodeInv
  <1>1. Init => NodeInv
    BY InitInv
  <1>2. NodeInv /\ [Next]_vars => NodeInv'
    BY NextInv
  <1> QED  BY <1>1, <1>2, PTL DEF Spec

(* TypeOK: every variable of the node keeps its type. *)
THEOREM TypeCorrect == Spec => []TypeOK
  <1>1. NodeInv => TypeOK
    BY DEF NodeInv
  <1> QED  BY <1>1, NodeInvariant, PTL

(* TxIndexIsChain: the transaction index seen by ConnectInputs and          *)
(* DisconnectInputs is exactly the chain up to the current transaction.     *)
THEOREM IndexFollowsChain == Spec => []TxIndexIsChain
  <1>1. NodeInv => TxIndexIsChain
    BY DEF NodeInv, ChainView, TxIndexIsChain
  <1> QED  BY <1>1, NodeInvariant, PTL

(* NoDoubleSpend: no output is spent twice on the chain, whatever           *)
(* sequence of connects, disconnects, aborts and crashes led to it.         *)
THEOREM SpentAtMostOnce == Spec => []NoDoubleSpend
  <1>1. NodeInv => NoDoubleSpend
    BY DEF NodeInv, ChainView, NoDoubleSpend
  <1> QED  BY <1>1, NodeInvariant, PTL

(* SetSpentAssertion: the assert in CTxIndex::SetSpent does not fire when   *)
(* DisconnectInputs releases the inputs of a transaction.                   *)
THEOREM SetSpentNeverAsserts == Spec => []SetSpentAssertion
  <1>1. ASSUME NodeInv PROVE SetSpentAssertion
    <2> SUFFICES ASSUME stage = "disconnect", ~AtFork, nTx > 0
                 PROVE  \A o \in vin[vtx[tip][nTx]] :
                            HasTxIndex(txTx, o[1]) /\ o[2] \in txTx[o[1]].spent
      BY DEF SetSpentAssertion
    <2>1. tip \in Block \ {Genesis} /\ nTx \in Nat \ {0} /\ nTx <= Len(vtx[tip])
      BY <1>1, DisconnectFacts, JobFacts
    <2>2. txTx \in TxIndexType /\ ChainView(txTx, tip, nTx)
      BY <1>1 DEF NodeInv, TypeOK, StoreType
    <2> QED  BY <2>1, <2>2, LastPosition
  <1> QED  BY <1>1, NodeInvariant, PTL

-----------------------------------------------------------------------------
(***************************************************************************)
(* The memory pool's two indices never refer to a transaction that is not  *)
(* in the pool.                                                            *)
(***************************************************************************)

PoolIndices == InPointsValid /\ PendingInPool

(* A name's pending set only loses members. *)
LEMMA PendingWithoutShrinks ==
    ASSUME PoolType, NEW t \in Tx, NEW n \in Name
    PROVE  /\ PendingWithout(t)[n] \subseteq mapNamePending[n]
           /\ isNameTx[t] /\ DecodeNameTx(t) /\ NameOut(t).op # "new" /\ NameOut(t).name = n =>
                 t \notin PendingWithout(t)[n]
  BY DEF PoolType, PendingWithout

LEMMA AddIndices ==
    ASSUME PoolType, PoolIndices, NEW t \in Tx, PoolAdmits(t), AddToMemoryPool(t)
    PROVE  PoolIndices'
  <1>1. InPointsValid'
    BY DEF PoolIndices, InPointsValid, PoolType, AddToMemoryPool
  <1>2. PendingInPool'
    <2> SUFFICES ASSUME NEW n \in Name, NEW u \in mapNamePending'[n]
                 PROVE  /\ u \in mapTransactions'
                        /\ isNameTx[u] /\ DecodeNameTx(u) /\ NameOut(u).op # "new" /\ NameOut(u).name = n
      BY DEF PendingInPool
    <2>1. \/ u \in mapNamePending[n]
          \/ u = t /\ isNameTx[t] /\ DecodeNameTx(t) /\ NameOut(t).op # "new" /\ NameOut(t).name = n
      BY DEF AddToMemoryPool, PoolType, PoolAdmits, CheckTransaction
    <2> QED  BY <2>1 DEF PoolIndices, PendingInPool, AddToMemoryPool
  <1> QED  BY <1>1, <1>2 DEF PoolIndices

LEMMA RemoveIndices ==
    ASSUME PoolType, PoolIndices, NEW t \in Tx, RemoveFromMemoryPool(t)
    PROVE  PoolIndices'
  <1>1. InPointsValid'
    BY DEF PoolIndices, InPointsValid, PoolType, RemoveFromMemoryPool
  <1>2. PendingInPool'
    <2> SUFFICES ASSUME NEW n \in Name, NEW u \in mapNamePending'[n]
                 PROVE  /\ u \in mapTransactions'
                        /\ isNameTx[u] /\ DecodeNameTx(u) /\ NameOut(u).op # "new" /\ NameOut(u).name = n
      BY DEF PendingInPool
    <2>1. u \in mapNamePending[n] /\ (u = t => ~(isNameTx[t] /\ DecodeNameTx(t) /\ NameOut(t).op # "new" /\ NameOut(t).name = n))
      BY PendingWithoutShrinks DEF RemoveFromMemoryPool
    <2>2. u \in mapTransactions /\ isNameTx[u] /\ DecodeNameTx(u) /\ NameOut(u).op # "new" /\ NameOut(u).name = n
      BY <2>1 DEF PoolIndices, PendingInPool
    <2> QED  BY <2>1, <2>2 DEF RemoveFromMemoryPool
  <1> QED  BY <1>1, <1>2 DEF PoolIndices

(* Steps that at most take entries out of mapNamePending. *)
LEMMA ShrinkIndices ==
    ASSUME PoolIndices, UNCHANGED <<mapTransactions, mapNextTx>>,
           \A n \in Name : mapNamePending'[n] \subseteq mapNamePending[n]
    PROVE  PoolIndices'
  BY DEF PoolIndices, InPointsValid, PendingInPool

LEMMA PoolIndicesNext ==
    ASSUME NodeInv, PoolIndices, [Next]_vars
    PROVE  PoolIndices'
  <1>1. /\ PoolType /\ vResurrect \in Seq(Tx) /\ vDelete \in Seq(Tx)
        /\ mapNamePending \in [Name -> SUBSET Tx]
    BY DEF NodeInv, TypeOK, JobType, PoolType
  <1>2. ASSUME NEW t \in Tx, AcceptToMemoryPool(t) PROVE PoolIndices'
    BY <1>1, <1>2, AddIndices DEF AcceptToMemoryPool
  <1>3. ASSUME NEW t \in Tx, deletetransaction(t) PROVE PoolIndices'
    BY <1>1, <1>3, RemoveIndices DEF deletetransaction
  <1>4. CASE UNCHANGED poolVars
    BY <1>4, ShrinkIndices DEF poolVars
  <1>5. CASE ResurrectTx
    <2>1. Head(vResurrect) \in Tx
      BY <1>1, <1>5 DEF ResurrectTx
    <2>2. CASE PoolAdmits(Head(vResurrect))
      BY <1>1, <1>5, <2>1, <2>2, AddIndices DEF ResurrectTx
    <2>3. CASE ~PoolAdmits(Head(vResurrect))
      BY <1>4, <1>5, <2>3 DEF ResurrectTx
    <2> QED  BY <2>2, <2>3
  <1>6. CASE DeleteTx
    <2>1. Head(vDelete) \in Tx
      BY <1>1, <1>6 DEF DeleteTx
    <2> QED  BY <1>1, <1>6, <2>1, RemoveIndices DEF DeleteTx
  <1>7. CASE ConnectInputs \/ ConnectInputsFails
    <2>1. vtx[tip][nTx + 1] \in Tx
      BY <1>7, JobFacts DEF ConnectInputs, ConnectInputsFails
    <2>2. mapNamePending' \in {mapNamePending, PendingWithout(vtx[tip][nTx + 1])}
      BY <1>7 DEF ConnectInputs, ConnectInputsFails
    <2>3. \A n \in Name : mapNamePending'[n] \subseteq mapNamePending[n]
      BY <1>1, <2>1, <2>2, PendingWithoutShrinks
    <2>4. UNCHANGED <<mapTransactions, mapNextTx>>
      BY <1>7 DEF ConnectInputs, ConnectInputsFails, Abort
    <2> QED  BY <2>3, <2>4, ShrinkIndices
  <1>8. CASE DisconnectFails \/ ConnectBlockFails \/ TxnCommitFails
    <2>1. UNCHANGED poolVars
      BY <1>8 DEF DisconnectFails, ConnectBlockFails, TxnCommitFails, Abort, poolVars
    <2> QED  BY <1>4, <2>1
  <1>9. CASE Restart
    BY <1>9 DEF Restart, PoolIndices, InPointsValid, PendingInPool
  <1>10. ASSUME NEW b \in Block,
                \/ ProcessBlock(b) \/ ProcessBlockOrphan(b) \/ ProcessBlockRefused(b)
                \/ ProcessOrphan(b)
         PROVE  PoolIndices'
    <2>1. UNCHANGED poolVars
      BY <1>10 DEF ProcessBlock, ProcessBlockOrphan, ProcessBlockRefused, ProcessOrphan,
                   AcceptBlock, RejectBlock, vars
    <2> QED  BY <1>4, <2>1
  <1>11. CASE \/ NextInQueue \/ ProcessBlockDone \/ DisconnectInputs \/ DisconnectBlock
              \/ ConnectNext \/ ConnectBlock \/ TxnCommit \/ ResurrectDone \/ NewBestBlock
              \/ UNCHANGED vars
    <2>1. UNCHANGED poolVars
      BY <1>11 DEF NextInQueue, ProcessBlockDone, DisconnectInputs, DisconnectBlock,
                   ConnectNext, ConnectBlock, TxnCommit, ResurrectDone, NewBestBlock, vars
    <2> QED  BY <1>4, <2>1
  <1> QED  BY <1>2, <1>3, <1>5, <1>6, <1>7, <1>8, <1>9, <1>10, <1>11
           DEF Next, Work, Input, Fault

LEMMA PoolIndicesInvariant == Spec => []PoolIndices
  <1>1. Init => PoolIndices
    BY DEF Init, PoolIndices, InPointsValid, PendingInPool
  <1>2. NodeInv /\ PoolIndices /\ [Next]_vars => PoolIndices'
    BY PoolIndicesNext
  <1> QED  BY <1>1, <1>2, NodeInvariant, PTL DEF Spec

(* InPointsValid: a CInPoint of mapNextTx never dangles, although           *)
(* RemoveFromMemoryPool erases entries by outpoint and pool transactions    *)
(* come and go with blocks, reorganisations, RPC calls and restarts.        *)
THEOREM InPointsNeverDangle == Spec => []InPointsValid
  <1>1. PoolIndices => InPointsValid
    BY DEF PoolIndices
  <1> QED  BY <1>1, PoolIndicesInvariant, PTL

(* PendingInPool: mapNamePending lists only operations that are in the pool, *)
(* under their own name.                                                     *)
THEOREM PendingAlwaysInPool == Spec => []PendingInPool
  <1>1. PoolIndices => PendingInPool
    BY DEF PoolIndices
  <1> QED  BY <1>1, PoolIndicesInvariant, PTL
-----------------------------------------------------------------------------
(***************************************************************************)
(* The committed databases belong together: the hashNext links, the pnext  *)
(* pointers in memory and the name index follow the chain that             *)
(* hashBestChain names.                                                    *)
(***************************************************************************)

(* The links nx lead along the chain to e, and nowhere else. *)
NextFollows(nx, e) ==
    \A b \in Block :
        IF b \in Ancestors[e] \ {e}
        THEN nx[b] \in Ancestors[e] /\ hashPrevBlock[nx[b]] = b
        ELSE nx[b] = NoBlock

(* The links on disk, in the open transaction and in memory, by stage. *)
LinksOK ==
    /\ NextFollows(dbNext, dbBest) /\ NextFollows(pnext, dbBest)
    /\ stage \in Committed => txNext = dbNext
    /\ stage \in {"disconnect", "connected"} => NextFollows(txNext, tip)
    /\ stage = "connect" => NextFollows(txNext, hashPrevBlock[tip])

(* The predecessor of a block of a chain is on the chain, and not its end. *)
LEMMA PredecessorOnChain ==
    ASSUME NEW e \in Block, NEW c \in Ancestors[e], hashPrevBlock[c] \in Block
    PROVE  /\ c \in Block \ {Genesis}
           /\ hashPrevBlock[c] \in Ancestors[e] \ {e}
           /\ nHeight[c] = nHeight[hashPrevBlock[c]] + 1
  <1>1. c \in Block /\ Ancestors[c] \subseteq Ancestors[e] /\ nHeight \in [Block -> Nat]
    BY BlockTree, ChainOrder
  <1>2. c # Genesis /\ nHeight[c] = nHeight[hashPrevBlock[c]] + 1
    BY <1>1, BlockTree
  <1>3. hashPrevBlock[c] \in Ancestors[c]
    BY <1>1, <1>2, Ancestry, ChainOrder
  <1>4. hashPrevBlock[c] # e
    <2>1. c = e \/ nHeight[c] < nHeight[e]
      <3>1. CASE e = Genesis
        BY <3>1, BlockTree
      <3>2. CASE e # Genesis
        BY <3>2, Ancestry
      <3> QED  BY <3>1, <3>2
    <2> QED  BY <1>1, <1>2, <2>1
  <1> QED  BY <1>1, <1>2, <1>3, <1>4

(* A block has at most one successor on a chain. *)
LEMMA SuccessorUnique ==
    ASSUME NEW e \in Block, NEW c \in Ancestors[e], NEW d \in Ancestors[e],
           hashPrevBlock[c] = hashPrevBlock[d], hashPrevBlock[c] \in Block
    PROVE  c = d
  BY PredecessorOnChain, ChainOrder

(* Two sets of links that follow the same chain are equal. *)
LEMMA FollowsUnique ==
    ASSUME NEW e \in Block, NEW nx \in NextType, NEW ny \in NextType,
           NextFollows(nx, e), NextFollows(ny, e)
    PROVE  nx = ny
  <1>1. ASSUME NEW b \in Block PROVE nx[b] = ny[b]
    BY SuccessorUnique DEF NextFollows
  <1> QED  BY <1>1 DEF NextType

(* WriteBlockIndex at the end of ConnectBlock and of DisconnectBlock. *)
LEMMA FollowsConnect ==
    ASSUME NEW e \in Block \ {Genesis}, NEW nx \in NextType, NextFollows(nx, hashPrevBlock[e])
    PROVE  NextFollows([nx EXCEPT ![hashPrevBlock[e]] = e], e)
  <1> DEFINE p == hashPrevBlock[e]
  <1>1. p \in Block /\ Ancestors[e] = {e} \cup Ancestors[p] /\ e \notin Ancestors[p]
    BY Ancestry
  <1>2. p \in Ancestors[p]
    BY <1>1, ChainOrder
  <1>3. p = hashPrevBlock[e]
    OBVIOUS
  <1> HIDE DEF p
  <1> QED  BY <1>1, <1>2, <1>3 DEF NextFollows, NextType

LEMMA FollowsDisconnect ==
    ASSUME NEW e \in Block \ {Genesis}, NEW nx \in NextType, NextFollows(nx, e)
    PROVE  NextFollows([nx EXCEPT ![hashPrevBlock[e]] = NoBlock], hashPrevBlock[e])
  <1> DEFINE p == hashPrevBlock[e]
             ny == [nx EXCEPT ![p] = NoBlock]
  <1>1. p \in Block /\ Ancestors[e] = {e} \cup Ancestors[p] /\ e \notin Ancestors[p]
    BY Ancestry
  <1>2. p = hashPrevBlock[e] /\ e \in Ancestors[e] /\ p \in Ancestors[p]
    BY <1>1, ChainOrder
  <1> HIDE DEF p
  <1>3. ASSUME NEW b \in Ancestors[p] \ {p}
        PROVE  ny[b] \in Ancestors[p] /\ hashPrevBlock[ny[b]] = b
    <2>1. b \in Block
      BY <1>1, BlockTree
    <2>2. ny[b] = nx[b] /\ nx[b] \in Ancestors[e] /\ hashPrevBlock[nx[b]] = b
      BY <1>1, <2>1 DEF NextFollows, NextType
    <2>3. nx[b] # e
      BY <1>2, <2>2
    <2> QED  BY <1>1, <2>2, <2>3
  <1>4. ASSUME NEW b \in Block, b \notin Ancestors[p] \ {p} PROVE ny[b] = NoBlock
    BY <1>1, <1>4 DEF NextFollows, NextType
  <1> QED  BY <1>3, <1>4 DEF NextFollows, p

(* What the commit's loops over vDisconnect and vConnect make of links. *)
SwitchLinks(nx, p, q) ==
    LET vDisconnect == Ancestors[p] \ Ancestors[q]
        vConnect    == Ancestors[q] \ Ancestors[p]
    IN  [b \in Block |->
           IF \E c \in vConnect : hashPrevBlock[c] = b
           THEN CHOOSE c \in vConnect : hashPrevBlock[c] = b
           ELSE IF \E d \in vDisconnect : hashPrevBlock[d] = b THEN NoBlock
           ELSE nx[b]]

(* Links along one chain become links along another. *)
LEMMA FollowsSwitch ==
    ASSUME NEW p \in Block, NEW q \in Block, NEW nx \in NextType, NextFollows(nx, p)
    PROVE  NextFollows(SwitchLinks(nx, p, q), q)
  <1> DEFINE vDisconnect == Ancestors[p] \ Ancestors[q]
             vConnect    == Ancestors[q] \ Ancestors[p]
             ny == SwitchLinks(nx, p, q)
  <1> USE DEF SwitchLinks
  <1>1. ASSUME NEW b \in Block
        PROVE  IF b \in Ancestors[q] \ {q}
               THEN ny[b] \in Ancestors[q] /\ hashPrevBlock[ny[b]] = b
               ELSE ny[b] = NoBlock
    <2>1. CASE \E c \in vConnect : hashPrevBlock[c] = b
      <3>1. ny[b] \in vConnect /\ hashPrevBlock[ny[b]] = b
        BY <2>1
      <3>2. b \in Ancestors[q] \ {q}
        BY <3>1, PredecessorOnChain
      <3> QED  BY <3>1, <3>2
    <2>2. CASE /\ ~\E c \in vConnect : hashPrevBlock[c] = b
               /\ \E d \in vDisconnect : hashPrevBlock[d] = b
      <3>1. ny[b] = NoBlock
        BY <2>2
      <3>2. PICK d \in vDisconnect : hashPrevBlock[d] = b
        BY <2>2
      <3>3. ASSUME b \in Ancestors[q] \ {q} PROVE FALSE
        <4>1. PICK c \in Ancestors[q] : hashPrevBlock[c] = b
          BY <3>3, ChainOrder
        <4>2. c \in Ancestors[p]
          BY <2>2, <4>1
        <4>3. c = d
          BY <3>2, <4>1, <4>2, SuccessorUnique
        <4> QED  BY <3>2, <4>1, <4>3
      <3> QED  BY <3>1, <3>3
    <2>3. CASE /\ ~\E c \in vConnect : hashPrevBlock[c] = b
               /\ ~\E d \in vDisconnect : hashPrevBlock[d] = b
      <3>1. ny[b] = nx[b]
        BY <2>3
      <3>2. CASE b \in Ancestors[q] \ {q}
        <4>1. PICK c \in Ancestors[q] : hashPrevBlock[c] = b
          BY <3>2, ChainOrder
        <4>2. c \in Ancestors[p]
          BY <2>3, <4>1
        <4>3. b \in Ancestors[p] \ {p}
          BY <4>1, <4>2, PredecessorOnChain
        <4>4. nx[b] \in Ancestors[p] /\ hashPrevBlock[nx[b]] = b
          BY <4>3 DEF NextFollows
        <4> QED  BY <2>3, <3>1, <3>2, <4>4
      <3>3. CASE b \notin Ancestors[q] \ {q}
        <4>1. ASSUME b \in Ancestors[p] \ {p} PROVE FALSE
          <5>1. nx[b] \in Ancestors[p] /\ hashPrevBlock[nx[b]] = b
            BY <4>1 DEF NextFollows
          <5>2. nx[b] \in Ancestors[q]
            BY <2>3, <5>1
          <5> QED  BY <3>3, <5>1, <5>2, PredecessorOnChain
        <4> QED  BY <3>1, <3>3, <4>1 DEF NextFollows
      <3> QED  BY <3>2, <3>3
    <2> QED  BY <2>1, <2>2, <2>3
  <1> HIDE DEF SwitchLinks
  <1> QED  BY <1>1 DEF NextFollows
-----------------------------------------------------------------------------
(* What a step may do to the databases, the open transaction and the       *)
(* position of SetBestChain.                                               *)
QuietStep ==
    /\ UNCHANGED <<diskVars, txnVars, tip, nTx, pnext>>
    /\ \/ stage' = stage
       \/ stage \in Committed /\ stage' \in Committed \cup {"disconnect"}

AbortingStep == Abort /\ stage \in {"disconnect", "connect", "connected"}

LEMMA StepKinds ==
    ASSUME NodeInv, [Next]_vars
    PROVE  \/ QuietStep \/ DisconnectInputs \/ DisconnectBlock \/ ConnectNext
           \/ ConnectInputs \/ ConnectBlock \/ AbortingStep \/ TxnCommit \/ Restart
  <1> USE DEF QuietStep, diskVars, txnVars, chainVars, viewVars, jobVars
  <1>1. ASSUME NEW b \in Block, AcceptBlock(b) \/ RejectBlock(b), stage \in {"idle", "orphans"}
        PROVE  QuietStep
    BY <1>1 DEF AcceptBlock, RejectBlock, IndexBlock, Committed
  <1>2. ASSUME NEW b \in Block, ProcessBlock(b) \/ ProcessOrphan(b) PROVE QuietStep
    BY <1>1, <1>2 DEF ProcessBlock, ProcessOrphan
  <1>3. ASSUME NEW b \in Block, ProcessBlockOrphan(b) \/ ProcessBlockRefused(b) PROVE QuietStep
    BY <1>3 DEF ProcessBlockOrphan, ProcessBlockRefused, vars
  <1>4. ASSUME NEW t \in Tx, AcceptToMemoryPool(t) \/ deletetransaction(t) PROVE QuietStep
    BY <1>4 DEF AcceptToMemoryPool, deletetransaction
  <1>5. CASE NextInQueue \/ ProcessBlockDone \/ ResurrectTx \/ ResurrectDone
             \/ DeleteTx \/ NewBestBlock \/ UNCHANGED vars
    BY <1>5 DEF NextInQueue, ProcessBlockDone, ResurrectTx, ResurrectDone, DeleteTx,
                NewBestBlock, vars, Committed
  <1>6. CASE DisconnectFails \/ ConnectInputsFails \/ ConnectBlockFails \/ TxnCommitFails
    BY <1>6 DEF AbortingStep, DisconnectFails, ConnectInputsFails, ConnectBlockFails,
                TxnCommitFails, ReadyToCommit
  <1> QED  BY <1>2, <1>3, <1>4, <1>5, <1>6 DEF Next, Work, Input, Fault

(* ConnectNext goes one block up the new branch. *)
LEMMA ConnectNextFacts ==
    ASSUME NodeInv, ConnectNext
    PROVE  /\ tip' \in Ancestors[pindexNew] /\ tip' \in Block \ {Genesis}
           /\ hashPrevBlock[tip'] = tip /\ nTx = Len(vtx[tip])
  <1>1. pindexNew \in Block /\ mapBlockIndex \subseteq Block /\ tip \in Block
    BY JobFacts DEF ConnectNext
  <1>2. tip \in Ancestors[pindexNew] /\ tip # pindexNew /\ nTx = Len(vtx[tip])
    BY <1>1, ChainOrder DEF ConnectNext, NodeInv, JobOK, AtFork
  <1>3. \E b \in Ancestors[pindexNew] : hashPrevBlock[b] = tip
    BY <1>1, <1>2, ChainOrder
  <1>4. tip' \in Ancestors[pindexNew] /\ hashPrevBlock[tip'] = tip
    BY <1>3 DEF ConnectNext, NextToConnect
  <1> QED  BY <1>1, <1>2, <1>4, PredecessorOnChain

LEMMA LinksNext ==
    ASSUME NodeInv, LinksOK, [Next]_vars
    PROVE  LinksOK'
  <1>1. /\ dbNext \in NextType /\ pnext \in NextType /\ txNext \in NextType
        /\ dbBest \in Block /\ tip \in Block
    BY JobFacts DEF NodeInv, TypeOK, ChainType
  <1> USE DEF diskVars, txnVars, chainVars, viewVars
  <1>2. CASE QuietStep
    <2>1. stage \in Committed => tip = dbBest
      BY DEF NodeInv, JobOK
    <2> QED  BY <1>2, <2>1 DEF QuietStep, LinksOK, Committed
  <1>3. CASE DisconnectInputs \/ ConnectInputs
    BY <1>3 DEF DisconnectInputs, ConnectInputs, LinksOK, Committed
  <1>4. CASE DisconnectBlock
    <2>1. tip \in Block \ {Genesis} /\ NextFollows(txNext, tip)
      BY <1>4, DisconnectFacts DEF DisconnectBlock, LinksOK
    <2>2. NextFollows(txNext', tip')
      BY <1>1, <1>4, <2>1, FollowsDisconnect DEF DisconnectBlock
    <2> QED  BY <1>4, <2>2 DEF DisconnectBlock, LinksOK, Committed
  <1>5. CASE ConnectNext
    <2>1. hashPrevBlock[tip'] = tip
      BY <1>5, ConnectNextFacts
    <2> QED  BY <1>5, <2>1 DEF ConnectNext, LinksOK, Committed
  <1>6. CASE ConnectBlock
    <2>1. tip \in Block \ {Genesis} /\ NextFollows(txNext, hashPrevBlock[tip])
      BY <1>1, <1>6 DEF ConnectBlock, LinksOK, NodeInv, JobOK
    <2>2. NextFollows(txNext', tip')
      BY <1>1, <1>6, <2>1, FollowsConnect DEF ConnectBlock
    <2> QED  BY <1>6, <2>2 DEF ConnectBlock, LinksOK, Committed
  <1>7. CASE AbortingStep
    BY <1>7 DEF AbortingStep, Abort, TxnAbort, LinksOK, Committed
  <1>8. CASE TxnCommit
    <2>1. pindexNew \in Block /\ pindexBest = dbBest /\ tip = pindexNew
      BY <1>8, JobFacts DEF TxnCommit, ReadyToCommit
    <2>2. NextFollows(pnext, pindexBest)
      BY <2>1 DEF LinksOK
    <2>3. NextFollows(pnext', pindexNew)
      <3>1. pnext' = SwitchLinks(pnext, pindexBest, pindexNew)
        BY <1>8 DEF TxnCommit, SwitchLinks
      <3> QED  BY <1>1, <2>1, <2>2, <3>1, FollowsSwitch
    <2>4. NextFollows(txNext, pindexNew)
      BY <1>8, <2>1 DEF TxnCommit, ReadyToCommit, LinksOK
    <2> QED  BY <1>8, <2>3, <2>4 DEF TxnCommit, WriteDatabases, LinksOK, Committed
  <1>9. CASE Restart
    BY <1>9 DEF Restart, LinksOK, Committed
  <1> QED  BY <1>2, <1>3, <1>4, <1>5, <1>6, <1>7, <1>8, <1>9, StepKinds

LEMMA LinksInvariant == Spec => []LinksOK
  <1>1. ASSUME Init PROVE LinksOK
    <2>1. NextFollows([b \in Block |-> NoBlock], Genesis)
      BY BlockTree DEF NextFollows
    <2> QED  BY <1>1, <2>1 DEF Init, LinksOK, Committed
  <1>2. NodeInv /\ LinksOK /\ [Next]_vars => LinksOK'
    BY LinksNext
  <1> QED  BY <1>1, <1>2, NodeInvariant, PTL DEF Spec

(* CommittedTogether: whatever was aborted, failed or interrupted, the      *)
(* databases on disk belong to one and the same chain, the one that         *)
(* hashBestChain names: its transactions at their positions, its spent      *)
(* outputs, its hashNext links and no others.                               *)
THEOREM DatabasesCommitTogether == Spec => []CommittedTogether
  <1>1. NodeInv /\ LinksOK => CommittedTogether
    BY DEF NodeInv, ChainView, LinksOK, NextFollows, CommittedTogether
  <1> QED  BY <1>1, NodeInvariant, LinksInvariant, PTL

(* MemoryMatchesDisk: when cs_main is free, the tip and the pnext pointers  *)
(* kept up to date in memory are those LoadBlockIndex would read.           *)
THEOREM MemoryAlwaysMatchesDisk == Spec => []MemoryMatchesDisk
  <1>1. ASSUME NodeInv, LinksOK PROVE MemoryMatchesDisk
    <2>1. dbNext \in NextType /\ pnext \in NextType /\ dbBest \in Block
      BY <1>1, JobFacts DEF NodeInv, TypeOK, ChainType
    <2>2. pnext = dbNext
      BY <1>1, <2>1, FollowsUnique DEF LinksOK
    <2> QED  BY <1>1, <2>2 DEF NodeInv, JobOK, Committed, MemoryMatchesDisk
  <1> QED  BY <1>1, NodeInvariant, LinksInvariant, PTL
-----------------------------------------------------------------------------
(* The name index.                                                         *)

(* An entry of a name's history: a name_firstupdate that reveals its own    *)
(* name_new after the entry before it has expired, or a name_update that    *)
(* spends the coin of the entry before it.                                  *)
EntryOK(tv, nv, n, k) ==
    LET r == nv[n][k]
        t == TxAt(r.pos)
        o == NameInput(t)
    IN  /\ t \in Tx /\ tv[t].pos = r.pos /\ r.nHeight = nHeight[r.pos[1]]
        /\ NamePopped(t) /\ NameOut(t).name = n /\ o \in vin[t]
        /\ \/ /\ NameOut(t).op = "firstupdate" /\ Out(o).op = "new"
              /\ Out(o).name = n /\ Out(o).rand = NameOut(t).rand
              /\ k > 1 => ~NameUnexpired(nv[n][k - 1].nHeight, r.nHeight)
           \/ /\ NameOut(t).op = "update" /\ k > 1 /\ Out(o).op \in {"firstupdate", "update"}
              /\ tv[o[1]].pos = nv[n][k - 1].pos

(* The entries of a name are in the order of the chain. *)
HistoryOrdered(nv) ==
    \A n \in DOMAIN nv : \A k, l \in DOMAIN nv[n] :
        k < l => Precedes(nv[n][k].pos, nv[n][l].pos)

NameView(tv, nv) ==
    /\ \A n \in DOMAIN nv : \A k \in DOMAIN nv[n] : EntryOK(tv, nv, n, k)
    /\ HistoryOrdered(nv)

(* ConnectInputs succeeds on transaction n + 1 of block e. *)
Connectable(tv, nv, e, n) ==
    LET t == vtx[e][n + 1]
    IN  /\ n < Len(vtx[e]) /\ ChainView(tv, e, n)
        /\ \A b \in Ancestors[e] \ {Genesis} : CheckBlock(b)
        /\ \A o \in vin[t] : /\ HasTxIndex(tv, o[1]) /\ o[2] <= Len(vout[o[1]])
                             /\ o[2] \notin tv[o[1]].spent
        /\ ~IsCoinBase(t) => HookConnectInputs(t, e, tv, nv, "block", {}, {})

(* What the hook has found when it accepts an operation on a name. *)
LEMMA HookFacts ==
    ASSUME NEW t \in Tx, NEW b, NEW tv, NEW nv, isNameTx[t],
           NameOut(t).op \in {"firstupdate", "update"},
           HookConnectInputs(t, b, tv, nv, "block", {}, {})
    PROVE  /\ NamePopped(t) /\ NameInput(t) \in vin[t] /\ NameInputs(t) = {NameInput(t)}
           /\ Mismatch(t) => ~postLibcoinFork(nHeight[b])
           /\ NameOut(t).op = "firstupdate" =>
                 /\ Out(NameInput(t)).op = "new"
                 /\ LET h == GetNameHeight(nv, NameOut(t).name)
                    IN  ~(h >= 0 /\ NameUnexpired(h, nHeight[b]))
           /\ NameOut(t).op = "update" =>
                 /\ Out(NameInput(t)).op \in {"firstupdate", "update"}
                 /\ CheckTransactionAtRelativeDepth(b, tv[NameInput(t)[1]].pos,
                        GetExpirationDepth(nHeight[b])) >= 0
  <1>1. /\ NamePopped(t)
        /\ \A o1, o2 \in NameInputs(t) : o1 = o2
        /\ \/ NameOut(t).op = "firstupdate" /\ CheckFirstUpdate(t, b, tv, nv, "block", {}, {})
           \/ NameOut(t).op = "update" /\ CheckNameUpdate(t, b, tv, "block")
    BY DEF HookConnectInputs, NamePopped
  <1>2. NameInputs(t) # {} /\ NameInputs(t) \subseteq vin[t]
    BY <1>1 DEF CheckFirstUpdate, CheckNameUpdate, NameInputs
  <1>3. NameInput(t) \in NameInputs(t)
    BY <1>2 DEF NameInput
  <1>4. NameInput(t) \in vin[t] /\ NameInputs(t) = {NameInput(t)}
    BY <1>1, <1>2, <1>3
  <1>5. CASE NameOut(t).op = "firstupdate"
    BY <1>1, <1>4, <1>5 DEF CheckFirstUpdate
  <1>6. CASE NameOut(t).op = "update"
    BY <1>1, <1>4, <1>6 DEF CheckNameUpdate
  <1> QED  BY <1>1, <1>4, <1>5, <1>6

(* An entry of the index is at a position of the chain. *)
LEMMA EntryPosition ==
    ASSUME NEW tv \in TxIndexType, NEW nv, NameIndexType(nv), NEW e \in Block, NEW m,
           ChainView(tv, e, m), NameView(tv, nv), NEW n \in DOMAIN nv, NEW k \in DOMAIN nv[n]
    PROVE  LET pos == nv[n][k].pos
           IN  /\ nv[n][k] \in CNameIndex /\ pos \in Block \X Nat /\ pos = <<pos[1], pos[2]>>
               /\ TxAt(pos) \in IndexedTx(tv) /\ tv[TxAt(pos)].pos = pos
               /\ InChain(pos[1], pos[2], e, m)
               /\ DOMAIN nv[n] = 1 .. Len(nv[n]) /\ Len(nv[n]) \in Nat
  <1> DEFINE pos == nv[n][k].pos
  <1>1. nv[n] \in Seq(CNameIndex)
    BY DEF NameIndexType
  <1>2. nv[n][k] \in CNameIndex /\ pos \in Block \X Nat /\ pos = <<pos[1], pos[2]>>
    <2>1. nv[n][k] \in CNameIndex
      BY <1>1
    <2> QED  BY <2>1 DEF CNameIndex
  <1>3. TxAt(pos) \in Tx /\ tv[TxAt(pos)].pos = pos
    BY DEF NameView, EntryOK
  <1>4. pos # NoPos
    BY <1>2, BlockTree DEF NoPos
  <1>5. TxAt(pos) \in IndexedTx(tv)
    BY <1>3, <1>4 DEF IndexedTx, HasTxIndex
  <1>6. InChain(pos[1], pos[2], e, m)
    BY <1>3, <1>5 DEF IndexedTx, ChainView, IndexIsChain
  <1> QED  BY <1>1, <1>2, <1>3, <1>5, <1>6

(* The k-th entry of n is the same in nw as in nv, and so is the one before. *)
OldEntry(nv, nw, n, k) ==
    /\ k \in Nat \ {0} /\ n \in DOMAIN nv /\ k \in DOMAIN nv[n] /\ nw[n][k] = nv[n][k]
    /\ k > 1 => k - 1 \in DOMAIN nv[n] /\ nw[n][k - 1] = nv[n][k - 1]

(* It is the one added for position pos. *)
NewEntry(nv, nw, n, k, pos) ==
    /\ nw[n][k] = [nHeight |-> nHeight[pos[1]], pos |-> pos]
    /\ k \in Nat \ {0} /\ k = Len(VtxPos(nv, n)) + 1
    /\ k > 1 => /\ n \in DOMAIN nv /\ nv[n] # <<>> /\ k - 1 = Len(nv[n])
                /\ k - 1 \in DOMAIN nv[n] /\ nw[n][k - 1] = nv[n][k - 1]
                /\ nv[n] = VtxPos(nv, n)

(* Appending an entry: every entry is an old one, or the new one. *)
LEMMA ConnectedEntries ==
    ASSUME NEW tv, NEW nv, NameIndexType(nv), NEW t \in Tx, NEW e \in Block, NEW i \in Nat,
           NEW nw, nw = NameConnected(t, e, i, tv, nv),
           NEW n \in DOMAIN nw, NEW k \in DOMAIN nw[n]
    PROVE  \/ OldEntry(nv, nw, n, k)
           \/ /\ WritesName(t, tv, nv) /\ n = NameOut(t).name
              /\ NewEntry(nv, nw, n, k, <<e, i>>)
  <1> USE DEF OldEntry, NewEntry
  <1> DEFINE r  == [nHeight |-> nHeight[e], pos |-> <<e, i>>]
             m  == NameOut(t).name
             s  == VtxPos(nv, m)
  <1>1. CASE ~WritesName(t, tv, nv)
    <2>1. nw = nv
      BY <1>1 DEF NameConnected
    <2>2. nv[n] \in Seq(CNameIndex)
      BY <2>1 DEF NameIndexType
    <2> QED  BY <2>1, <2>2
  <1>2. CASE WritesName(t, tv, nv)
    <2>1. nw = [x \in DOMAIN nv \cup {m} |-> IF x = m THEN Append(s, r) ELSE nv[x]]
      BY <1>2 DEF NameConnected, WriteName, PosOf
    <2>2. s \in Seq(CNameIndex) /\ Len(s) \in Nat
      BY VtxPosType
    <2>3. r \in CNameIndex
      BY BlockTree DEF CNameIndex
    <2>4. CASE n # m
      <3>1. n \in DOMAIN nv /\ nw[n] = nv[n]
        BY <2>1, <2>4
      <3>2. nv[n] \in Seq(CNameIndex)
        BY <3>1 DEF NameIndexType
      <3> QED  BY <3>1, <3>2
    <2>5. CASE n = m
      <3>1. nw[n] = Append(s, r) /\ k \in DOMAIN Append(s, r)
        BY <2>1, <2>5
      <3>2. s = <<>> \/ (n \in DOMAIN nv /\ s = nv[n])
        BY <2>5 DEF VtxPos
      <3> HIDE DEF s, r, m
      <3>3. k \in 1 .. Len(s) + 1
        BY <2>2, <2>3, <3>1
      <3>4. CASE k = Len(s) + 1
        <4>1. nw[n][k] = r
          BY <2>2, <2>3, <3>1, <3>4
        <4>2. k > 1 => k - 1 \in DOMAIN s /\ nw[n][k - 1] = s[k - 1] /\ s # <<>>
          BY <2>2, <2>3, <3>1, <3>4
        <4> QED  BY <1>2, <2>2, <2>5, <3>2, <3>4, <4>1, <4>2 DEF s, r, m
      <3>5. CASE k \in 1 .. Len(s)
        <4>1. k \in DOMAIN s /\ nw[n][k] = s[k] /\ s # <<>>
          BY <2>2, <2>3, <3>1, <3>5
        <4>2. k > 1 => k - 1 \in DOMAIN s /\ nw[n][k - 1] = s[k - 1]
          BY <2>2, <2>3, <3>1, <3>5
        <4> QED  BY <2>2, <3>2, <3>5, <4>1, <4>2
      <3> QED  BY <2>2, <3>3, <3>4, <3>5
    <2> QED  BY <2>4, <2>5
  <1> QED  BY <1>1, <1>2

(* Popping one: every entry is an old one, and the popped one is gone. *)
LEMMA DisconnectedEntries ==
    ASSUME NEW tv, NEW nv, NameIndexType(nv), NEW t \in Tx,
           NEW nw, nw = NameDisconnected(t, tv, nv),
           NEW n \in DOMAIN nw, NEW k \in DOMAIN nw[n]
    PROVE  /\ OldEntry(nv, nw, n, k)
           /\ NamePopped(t) /\ n = NameOut(t).name /\ nv[n][Len(nv[n])].pos = tv[t].pos =>
                 k < Len(nv[n])
  <1> USE DEF OldEntry
  <1> DEFINE m  == NameOut(t).name
             s  == VtxPos(nv, m)
  <1>1. CASE ~(NamePopped(t) /\ CheckNameTxPos(nv, m, tv[t].pos))
    <2>1. nw = nv
      BY <1>1 DEF NameDisconnected
    <2>2. nv[n] \in Seq(CNameIndex)
      BY <2>1 DEF NameIndexType
    <2>3. nv[n] # <<>>
      BY <2>1, <2>2
    <2> QED  BY <1>1, <2>1, <2>2, <2>3 DEF CheckNameTxPos, VtxPos
  <1>2. CASE NamePopped(t) /\ CheckNameTxPos(nv, m, tv[t].pos)
    <2>1. /\ nw = [x \in DOMAIN nv \cup {m} |->
                     IF x = m THEN SubSeq(s, 1, Len(s) - 1) ELSE nv[x]]
      BY <1>2 DEF NameDisconnected, WriteName
    <2>2. s \in Seq(CNameIndex) /\ Len(s) \in Nat /\ s # <<>> /\ Len(s) > 0
      BY <1>2, VtxPosType DEF CheckNameTxPos
    <2>3. m \in DOMAIN nv /\ s = nv[m]
      BY <2>2 DEF VtxPos
    <2>4. CASE n # m
      <3>1. n \in DOMAIN nv /\ nw[n] = nv[n]
        BY <2>1, <2>4
      <3>2. nv[n] \in Seq(CNameIndex)
        BY <3>1 DEF NameIndexType
      <3> QED  BY <2>4, <3>1, <3>2
    <2>5. CASE n = m
      <3>1. nw[n] = SubSeq(s, 1, Len(s) - 1) /\ k \in DOMAIN SubSeq(s, 1, Len(s) - 1)
        BY <2>1, <2>5
      <3> HIDE DEF s
      <3>2. k \in 1 .. Len(s) - 1 /\ nw[n][k] = s[k]
        BY <2>2, <3>1
      <3>3. k > 1 => k - 1 \in DOMAIN s /\ nw[n][k - 1] = s[k - 1]
        BY <2>2, <3>1, <3>2
      <3> QED  BY <2>2, <2>3, <2>5, <3>2, <3>3 DEF s
    <2> QED  BY <2>4, <2>5
  <1> QED  BY <1>1, <1>2

(* ConnectInputs keeps the histories, and adds at most its own entry. *)
LEMMA ConnectNames ==
    ASSUME NEW tv \in TxIndexType, NEW nv, NameIndexType(nv), NEW e \in Block \ {Genesis},
           NEW m \in Nat, Connectable(tv, nv, e, m), NameView(tv, nv)
    PROVE  LET t == vtx[e][m + 1]
           IN  NameView(TxConnected(t, e, m + 1, tv), NameConnected(t, e, m + 1, tv, nv))
  <1> DEFINE t  == vtx[e][m + 1]
             tw == TxConnected(t, e, m + 1, tv)
             nw == NameConnected(t, e, m + 1, tv, nv)
  <1>1. t \in Tx /\ m + 1 \in Nat /\ m < Len(vtx[e]) /\ ChainView(tv, e, m)
    BY TxAssumption DEF Connectable
  <1>2. ~HasTxIndex(tv, t)
    BY <1>1, NextNotIndexed DEF Connectable
  <1>3. \A o \in vin[t] : o[1] \in Tx /\ HasTxIndex(tv, o[1])
    BY <1>1, TxAssumption DEF Connectable
  <1>4. WritesName(t, tv, nv) => HookConnectInputs(t, e, tv, nv, "block", {}, {})
    BY DEF WritesName, Connectable
  <1>5. TxAt(<<e, m + 1>>) = t
    BY DEF TxAt
  <1> HIDE DEF t
  <1>6. tw[t].pos = <<e, m + 1>> /\ \A u \in Tx \ {t} : tw[u].pos = tv[u].pos
    BY <1>1, ConnectedRecords
  <1>7. \A u \in IndexedTx(tv) : u \in Tx \ {t} /\ tw[u].pos = tv[u].pos
    BY <1>2, <1>6 DEF IndexedTx
  <1> HIDE DEF tw
  <1>8. ASSUME NEW n \in DOMAIN nw, NEW k \in DOMAIN nw[n] PROVE EntryOK(tw, nw, n, k)
    <2> DEFINE Old == OldEntry(nv, nw, n, k)
               New == /\ WritesName(t, tv, nv) /\ n = NameOut(t).name
                      /\ NewEntry(nv, nw, n, k, <<e, m + 1>>)
    <2>1. Old \/ New
      BY <1>1, ConnectedEntries
    <2> HIDE DEF nw
    <2>2. CASE Old
      <3> USE <2>2 DEF OldEntry
      <3> DEFINE r == nv[n][k]
                 u == TxAt(r.pos)
                 o == NameInput(u)
      <3>1. u \in IndexedTx(tv) /\ tv[u].pos = r.pos
        BY <1>1, <2>2, EntryPosition
      <3>2. EntryOK(tv, nv, n, k)
        BY <2>2 DEF NameView
      <3>3. o \in vin[u]
        BY <3>2 DEF EntryOK
      <3>4. o[1] \in IndexedTx(tv)
        <4>1. u \in Tx /\ vin[u] \subseteq Tx \X (Nat \ {0}) /\ ChainView(tv, e, m)
          BY <1>1, <3>1, TxAssumption DEF IndexedTx
        <4> QED  BY <3>1, <3>3, <4>1 DEF ChainView, InputsPrecede, IndexedTx
      <3>5. tw[u].pos = tv[u].pos /\ tw[o[1]].pos = tv[o[1]].pos
        BY <1>7, <3>1, <3>4
      <3> QED  BY <2>2, <3>2, <3>5 DEF EntryOK
    <2>3. CASE New
      <3> USE DEF NewEntry
      <3> DEFINE o == NameInput(t)
      <3>1. /\ isNameTx[t] /\ NameOut(t).op \in {"firstupdate", "update"}
            /\ ~Mismatch(t) /\ ~OnTopOfBug(t, tv, nv)
            /\ HookConnectInputs(t, e, tv, nv, "block", {}, {})
        BY <1>4, <2>3 DEF WritesName
      <3>2. /\ NamePopped(t) /\ o \in vin[t]
            /\ NameOut(t).op = "firstupdate" =>
                  /\ Out(o).op = "new"
                  /\ ~(GetNameHeight(nv, n) >= 0 /\ NameUnexpired(GetNameHeight(nv, n), nHeight[e]))
            /\ NameOut(t).op = "update" => Out(o).op \in {"firstupdate", "update"}
        BY <1>1, <2>3, <3>1, HookFacts
      <3>3. /\ nw[n][k].pos = <<e, m + 1>> /\ nw[n][k].nHeight = nHeight[e]
            /\ TxAt(nw[n][k].pos) = t /\ nw[n][k].pos[1] = e
        BY <1>5, <2>3
      <3>4. CASE NameOut(t).op = "firstupdate"
        <4>1. Out(o).name = n /\ Out(o).rand = NameOut(t).rand
          BY <2>3, <3>1, <3>4 DEF Mismatch
        <4>2. ASSUME k > 1
              PROVE  ~NameUnexpired(nw[n][k - 1].nHeight, nHeight[e])
          <5>1. GetNameHeight(nv, n) = nv[n][k - 1].nHeight
            BY <2>3, <4>2 DEF GetNameHeight
          <5>2. nv[n][k - 1].nHeight \in Nat
            <6>1. nv[n][k - 1] \in CNameIndex
              BY <1>1, <2>3, <4>2, EntryPosition
            <6> QED  BY <6>1 DEF CNameIndex
          <5> QED  BY <2>3, <3>2, <3>4, <4>2, <5>1, <5>2
        <4> QED  BY <1>1, <1>6, <2>3, <3>2, <3>3, <3>4, <4>1, <4>2 DEF EntryOK
      <3>5. CASE NameOut(t).op = "update"
        <4>1. CheckNameTxPos(nv, n, tv[o[1]].pos)
          BY <2>3, <3>1, <3>5 DEF OnTopOfBug
        <4>2. VtxPos(nv, n) \in Seq(CNameIndex) /\ VtxPos(nv, n) # <<>>
          BY <4>1, VtxPosType DEF CheckNameTxPos
        <4>3. k > 1
          BY <2>3, <4>2
        <4>4. tv[o[1]].pos = nw[n][k - 1].pos
          BY <2>3, <4>1, <4>3 DEF CheckNameTxPos
        <4>5. tw[o[1]].pos = tv[o[1]].pos
          BY <1>3, <1>7, <3>2 DEF IndexedTx
        <4> QED  BY <1>1, <1>6, <2>3, <3>2, <3>3, <3>5, <4>3, <4>4, <4>5 DEF EntryOK
      <3> QED  BY <3>1, <3>4, <3>5
    <2> QED  BY <2>1, <2>2, <2>3
  <1>9. ASSUME NEW n \in DOMAIN nw, NEW k \in DOMAIN nw[n], NEW l \in DOMAIN nw[n], k < l
        PROVE  Precedes(nw[n][k].pos, nw[n][l].pos)
    <2> DEFINE Old(j) == n \in DOMAIN nv /\ j \in DOMAIN nv[n] /\ nw[n][j] = nv[n][j]
               New(j) == j = Len(VtxPos(nv, n)) + 1 /\ nw[n][j].pos = <<e, m + 1>>
    <2>1. \A j \in DOMAIN nw[n] : j \in Nat /\ (Old(j) \/ New(j))
      BY <1>1, ConnectedEntries DEF OldEntry, NewEntry
    <2> HIDE DEF nw
    <2>2. Old(k)
      <3> SUFFICES ASSUME New(k) PROVE FALSE
        BY <2>1
      <3>1. Len(VtxPos(nv, n)) \in Nat
        BY VtxPosType
      <3>2. CASE New(l)
        BY <1>9, <3>1, <3>2
      <3>3. CASE Old(l)
        <4>1. VtxPos(nv, n) = nv[n] /\ l \in 1 .. Len(nv[n])
          BY <1>1, <3>3, EntryPosition DEF VtxPos
        <4> QED  BY <1>9, <3>1, <4>1
      <3> QED  BY <2>1, <3>2, <3>3
    <2>3. CASE Old(l)
      BY <1>9, <2>2, <2>3 DEF NameView, HistoryOrdered
    <2>4. CASE New(l)
      <3>1. InChain(nv[n][k].pos[1], nv[n][k].pos[2], e, m)
            /\ nv[n][k].pos = <<nv[n][k].pos[1], nv[n][k].pos[2]>>
        BY <1>1, <2>2, EntryPosition
      <3> QED  BY <1>1, <2>2, <2>4, <3>1, NextPosition
    <2> QED  BY <2>1, <2>3, <2>4
  <1> HIDE DEF nw
  <1>10. NameView(tw, nw)
    BY <1>8, <1>9 DEF NameView, HistoryOrdered
  <1> QED  BY <1>10 DEF t, tw, nw

(* The last transaction of the chain has no entry but the last one. *)
LEMMA DisconnectNames ==
    ASSUME NEW tv \in TxIndexType, NEW nv, NameIndexType(nv), NEW e \in Block \ {Genesis},
           NEW m \in Nat \ {0}, m <= Len(vtx[e]), ChainView(tv, e, m), NameView(tv, nv)
    PROVE  LET t == vtx[e][m]
           IN  NameView(TxDisconnected(t, tv), NameDisconnected(t, tv, nv))
  <1> DEFINE t  == vtx[e][m]
             tw == TxDisconnected(t, tv)
             nw == NameDisconnected(t, tv, nv)
  <1>1. t \in Tx
    BY TxAssumption
  <1>2. tv[t].pos = <<e, m>> /\ \A u \in IndexedTx(tv) : \A o \in vin[u] : o[1] # t
    BY LastPosition
  <1> HIDE DEF t
  <1>3. \A u \in Tx \ {t} : tw[u].pos = tv[u].pos
    BY <1>1, DisconnectedRecords
  <1> HIDE DEF tw
  <1>4. ASSUME NEW n \in DOMAIN nw, NEW k \in DOMAIN nw[n]
        PROVE  /\ n \in DOMAIN nv /\ k \in DOMAIN nv[n] /\ nw[n][k] = nv[n][k]
               /\ EntryOK(tw, nw, n, k)
    <2> DEFINE r == nv[n][k]
               u == TxAt(r.pos)
               o == NameInput(u)
               last == nv[n][Len(nv[n])].pos
    <2>1. /\ k \in Nat \ {0} /\ n \in DOMAIN nv /\ k \in DOMAIN nv[n] /\ nw[n][k] = nv[n][k]
          /\ k > 1 => k - 1 \in DOMAIN nv[n] /\ nw[n][k - 1] = nv[n][k - 1]
          /\ NamePopped(t) /\ n = NameOut(t).name /\ last = tv[t].pos => k < Len(nv[n])
      <3>1. /\ OldEntry(nv, nw, n, k)
            /\ NamePopped(t) /\ n = NameOut(t).name /\ nv[n][Len(nv[n])].pos = tv[t].pos =>
                  k < Len(nv[n])
        BY <1>1, DisconnectedEntries
      <3> HIDE DEF nw
      <3> QED  BY <3>1 DEF OldEntry
    <2> HIDE DEF nw
    <2>2. EntryOK(tv, nv, n, k)
      BY <2>1 DEF NameView
    <2>3. /\ u \in IndexedTx(tv) /\ tv[u].pos = r.pos /\ o \in vin[u]
          /\ NamePopped(u) /\ NameOut(u).name = n
      BY <2>1, <2>2, EntryPosition DEF EntryOK
    <2>4. u # t
      <3> SUFFICES ASSUME u = t PROVE FALSE
        OBVIOUS
      <3>1. r.pos = <<e, m>> /\ NamePopped(t) /\ NameOut(t).name = n
        BY <1>2, <2>3
      <3>2. Len(nv[n]) \in DOMAIN nv[n] /\ k <= Len(nv[n]) /\ Len(nv[n]) \in Nat
        BY <2>1, EntryPosition
      <3>3. k < Len(nv[n])
        BY <1>2, <2>1, <3>1, <3>2
      <3>4. Precedes(<<e, m>>, last)
        BY <2>1, <3>1, <3>2, <3>3 DEF NameView, HistoryOrdered
      <3>5. InChain(last[1], last[2], e, m)
        BY <2>1, <3>2, EntryPosition
      <3>6. /\ nHeight[e] < nHeight[last[1]] \/ (e = last[1] /\ m < last[2])
        BY <3>4 DEF Precedes
      <3>7. last[1] \in Block /\ last[2] \in Nat
        BY <2>1, <3>2, EntryPosition
      <3>8. last[1] # e => nHeight[last[1]] < nHeight[e]
        BY <3>5, Ancestry DEF InChain
      <3>9. nHeight[e] \in Nat /\ nHeight[last[1]] \in Nat
        BY <3>7, BlockTree
      <3>10. last[1] = e => last[2] <= m
        BY <3>5 DEF InChain
      <3> HIDE DEF last
      <3> QED  BY <3>6, <3>7, <3>8, <3>9, <3>10
    <2>5. o[1] \in Tx \ {t} /\ u \in Tx \ {t}
      <3>1. u \in Tx /\ vin[u] \subseteq Tx \X (Nat \ {0})
        BY <2>3, TxAssumption DEF IndexedTx
      <3> QED  BY <1>2, <2>3, <2>4, <3>1
    <2>6. tw[u].pos = tv[u].pos /\ tw[o[1]].pos = tv[o[1]].pos
      BY <1>3, <2>5
    <2>7. EntryOK(tw, nw, n, k)
      BY <2>1, <2>2, <2>6 DEF EntryOK
    <2> QED  BY <2>1, <2>7
  <1> HIDE DEF nw
  <1>5. HistoryOrdered(nw)
    BY <1>4 DEF NameView, HistoryOrdered
  <1>6. NameView(tw, nw)
    BY <1>4, <1>5 DEF NameView
  <1> QED  BY <1>6 DEF t, tw, nw

-----------------------------------------------------------------------------
NameIndexOK == NameView(txTx, txName) /\ NameView(dbTx, dbName)

(* ConnectInputs and DisconnectInputs, as the lemmas above speak of them. *)
LEMMA ConnectInputsFacts ==
    ASSUME NodeInv, ConnectInputs
    PROVE  /\ tip \in Block \ {Genesis} /\ nTx \in Nat /\ Connectable(txTx, txName, tip, nTx)
           /\ txTx' = TxConnected(vtx[tip][nTx + 1], tip, nTx + 1, txTx)
           /\ txName' = NameConnected(vtx[tip][nTx + 1], tip, nTx + 1, txTx, txName)
           /\ UNCHANGED <<dbTx, dbName>>
  <1> DEFINE t == vtx[tip][nTx + 1]
  <1>1. /\ stage = "connect" /\ nTx < Len(vtx[tip])
        /\ ~IsCoinBase(t) => TxConnects(t)
    BY DEF ConnectInputs
  <1>2. tip \in Block \ {Genesis} /\ nTx \in Nat
    BY <1>1, JobFacts DEF NodeInv, JobOK
  <1>3. \A b \in Ancestors[tip] \ {Genesis} : CheckBlock(b)
    BY DEF NodeInv, IndexClosed, TypeOK, JobType
  <1>4. ~IsCoinBase(t) => HookConnectInputs(t, tip, txTx, txName, "block", {}, {})
    BY <1>1 DEF TxConnects
  <1>5. \A o \in vin[t] : /\ HasTxIndex(txTx, o[1]) /\ o[2] <= Len(vout[o[1]])
                          /\ o[2] \notin txTx[o[1]].spent
    BY <1>1 DEF IsCoinBase, TxConnects, InputsOK, InputOK
  <1> QED  BY <1>1, <1>2, <1>3, <1>4, <1>5 DEF Connectable, NodeInv, ConnectInputs, diskVars

LEMMA DisconnectInputsFacts ==
    ASSUME NodeInv, DisconnectInputs
    PROVE  /\ tip \in Block \ {Genesis} /\ nTx \in Nat \ {0} /\ nTx <= Len(vtx[tip])
           /\ ChainView(txTx, tip, nTx)
           /\ txTx' = TxDisconnected(vtx[tip][nTx], txTx)
           /\ txName' = NameDisconnected(vtx[tip][nTx], txTx, txName)
           /\ UNCHANGED <<dbTx, dbName>>
  <1>1. stage = "disconnect" /\ ~AtFork /\ nTx > 0
    BY DEF DisconnectInputs
  <1> QED  BY <1>1, JobFacts, DisconnectFacts DEF NodeInv, DisconnectInputs, diskVars

(* Every other step leaves the two views alone, or makes them equal. *)
LEMMA ViewSteps ==
    ASSUME NodeInv, [Next]_vars
    PROVE  \/ ConnectInputs \/ DisconnectInputs
           \/ UNCHANGED <<txTx, txName, dbTx, dbName>>
           \/ txTx' = dbTx /\ txName' = dbName /\ UNCHANGED <<dbTx, dbName>>
           \/ dbTx' = txTx /\ dbName' = txName /\ UNCHANGED <<txTx, txName>>
  BY StepKinds DEF QuietStep, DisconnectBlock, ConnectNext, ConnectBlock, AbortingStep, Abort,
                   TxnAbort, TxnCommit, WriteDatabases, Restart, diskVars, txnVars

LEMMA NameIndexNext ==
    ASSUME NodeInv, NameIndexOK, [Next]_vars
    PROVE  NameIndexOK'
  <1>1. txTx \in TxIndexType /\ NameIndexType(txName)
    BY DEF NodeInv, TypeOK, StoreType
  <1>2. CASE ConnectInputs
    <2>1. NameView(txTx', txName')
      BY <1>1, <1>2, ConnectInputsFacts, ConnectNames DEF NameIndexOK
    <2> QED  BY <1>2, <2>1, ConnectInputsFacts DEF NameIndexOK
  <1>3. CASE DisconnectInputs
    <2>1. NameView(txTx', txName')
      BY <1>1, <1>3, DisconnectInputsFacts, DisconnectNames DEF NameIndexOK
    <2> QED  BY <1>3, <2>1, DisconnectInputsFacts DEF NameIndexOK
  <1> QED  BY <1>2, <1>3, ViewSteps DEF NameIndexOK

LEMMA NamesInvariant == Spec => []NameIndexOK
  <1>1. ASSUME Init PROVE NameIndexOK
    BY <1>1 DEF Init, NameIndexOK, NameView, HistoryOrdered
  <1>2. NodeInv /\ NameIndexOK /\ [Next]_vars => NameIndexOK'
    BY NameIndexNext
  <1> QED  BY <1>1, <1>2, NodeInvariant, PTL DEF Spec

(* CustodyChain: in every state, inside a database transaction too, every   *)
(* entry of the name index is a name_firstupdate that reveals its own       *)
(* name_new or a name_update that spends the coin of the entry before it.   *)
(* Mismatching transactions may have been connected; none is in the index.  *)
THEOREM HistoriesAreCustodyChains == Spec => []CustodyChain
  <1>1. ASSUME NameIndexOK PROVE CustodyChain
    <2>1. ASSUME NEW n \in DOMAIN txName, NEW k \in DOMAIN txName[n]
          PROVE  LET pos == txName[n][k].pos
                     t   == vtx[pos[1]][pos[2]]
                 IN  /\ txTx[t].pos = pos /\ txName[n][k].nHeight = nHeight[pos[1]]
                     /\ NameOut(t).name = n
                     /\ \/ /\ NameOut(t).op = "firstupdate" /\ Out(NameInput(t)).op = "new"
                           /\ Out(NameInput(t)).name = n
                           /\ Out(NameInput(t)).rand = NameOut(t).rand
                        \/ /\ NameOut(t).op = "update" /\ k > 1
                           /\ txTx[NameInput(t)[1]].pos = txName[n][k - 1].pos
      <3>1. EntryOK(txTx, txName, n, k)
        BY <1>1 DEF NameIndexOK, NameView
      <3> QED  BY <3>1 DEF EntryOK, TxAt
    <2> QED  BY <2>1 DEF CustodyChain
  <1> QED  BY <1>1, NamesInvariant, PTL

-----------------------------------------------------------------------------
(* Coins and entries.  Where NoNameBug holds, the workarounds are never     *)
(* used: every operation on a name that is connected gets its entry.        *)

EntryAt(nv, n, pos) == n \in DOMAIN nv /\ \E k \in DOMAIN nv[n] : nv[n][k].pos = pos

HasEntry(tv, nv, t) == EntryAt(nv, NameOut(t).name, tv[t].pos)

Registered(tv, nv) == \A t \in IndexedTx(tv) : NamePopped(t) => HasEntry(tv, nv, t)

(* The coin of a name is spent only by a name_update of the same name. *)
CoinsMatched(tv) ==
    \A w \in IndexedTx(tv) : \A o \in vin[w] :
        Out(o).op \in {"firstupdate", "update"} =>
            /\ NamePopped(w) /\ NameOut(w).op = "update"
            /\ NameInput(w) = o /\ NameOut(w).name = Out(o).name

CoinsOK(tv, nv) == Registered(tv, nv) /\ CoinsMatched(tv)

(* A name that has expired stays expired as the chain grows. *)
LEMMA StaysExpired ==
    ASSUME NEW p \in Nat, NEW h \in Nat, NEW g \in Nat, h <= g, ~NameUnexpired(p, h)
    PROVE  ~NameUnexpired(p, g)
  BY RulesAssumption DEF NameUnexpired, GetExpirationDepth

(* The one name output of a well-formed name transaction. *)
LEMMA TheNameOutput ==
    ASSUME NEW u \in Tx, DecodeNameTx(u), NEW j \in NameOutputs(u)
    PROVE  j = NameCoin(u) /\ vout[u][j] = NameOut(u)
  <1>1. PICK i \in DOMAIN vout[u] : NameOutputs(u) = {i}
    BY DEF DecodeNameTx
  <1>2. j = i /\ (CHOOSE x \in DOMAIN vout[u] : x \in NameOutputs(u)) = i
    BY <1>1
  <1> QED  BY <1>2 DEF NameCoin, NameOut

(* A position holds one transaction. *)
LEMMA PositionUnique ==
    ASSUME NEW tv, NEW e, NEW m, ChainView(tv, e, m),
           NEW u \in IndexedTx(tv), NEW w \in IndexedTx(tv), tv[u].pos = tv[w].pos
    PROVE  u = w
  BY DEF ChainView, IndexIsChain, IndexedTx

(* The heights of entries do not exceed that of the chain's end. *)
LEMMA HeightOnChain ==
    ASSUME NEW e \in Block, NEW a \in Ancestors[e]
    PROVE  nHeight[a] \in Nat /\ nHeight[e] \in Nat /\ nHeight[a] <= nHeight[e]
  <1>1. a \in Block /\ nHeight[a] \in Nat /\ nHeight[e] \in Nat
    BY BlockTree
  <1>2. CASE e = Genesis
    BY <1>1, <1>2, BlockTree
  <1>3. CASE e # Genesis
    BY <1>1, <1>3, Ancestry
  <1> QED  BY <1>1, <1>2, <1>3

(* The coin of an entry that is not the last one is spent, or expired. *)
LEMMA SupersededCoin ==
    ASSUME NEW tv \in TxIndexType, NEW nv, NameIndexType(nv), NEW e \in Block, NEW m,
           ChainView(tv, e, m), NameView(tv, nv),
           NEW n \in DOMAIN nv, NEW k \in DOMAIN nv[n], k # Len(nv[n])
    PROVE  LET u == TxAt(nv[n][k].pos)
           IN  \/ NameCoin(u) \in tv[u].spent
               \/ ~NameUnexpired(nHeight[tv[u].pos[1]], nHeight[e])
  <1> DEFINE u == TxAt(nv[n][k].pos)
             l == k + 1
             x == TxAt(nv[n][l].pos)
             o == NameInput(x)
  <1>1. l \in DOMAIN nv[n] /\ l > 1 /\ l - 1 = k
    BY EntryPosition
  <1>2. /\ u \in IndexedTx(tv) /\ tv[u].pos = nv[n][k].pos /\ nv[n][k] \in CNameIndex
        /\ EntryOK(tv, nv, n, k)
    BY EntryPosition DEF NameView
  <1>3. /\ x \in IndexedTx(tv) /\ tv[x].pos = nv[n][l].pos /\ nv[n][l] \in CNameIndex
        /\ nv[n][l].pos[1] \in Ancestors[e] /\ EntryOK(tv, nv, n, l)
    BY <1>1, EntryPosition DEF NameView, InChain
  <1>4. nv[n][k].nHeight = nHeight[tv[u].pos[1]] /\ NamePopped(u)
    BY <1>2 DEF EntryOK
  <1>5. /\ o \in vin[x] /\ nv[n][l].nHeight = nHeight[nv[n][l].pos[1]]
        /\ \/ ~NameUnexpired(nv[n][k].nHeight, nv[n][l].nHeight)
           \/ tv[o[1]].pos = nv[n][k].pos /\ Out(o).op \in {"firstupdate", "update"}
    BY <1>1, <1>3 DEF EntryOK
  <1>6. CASE ~NameUnexpired(nv[n][k].nHeight, nv[n][l].nHeight)
    <2>1. nv[n][k].nHeight \in Nat /\ nv[n][l].nHeight \in Nat
      BY <1>2, <1>3 DEF CNameIndex
    <2>2. nv[n][l].nHeight <= nHeight[e] /\ nHeight[e] \in Nat
      BY <1>3, <1>5, HeightOnChain
    <2> QED  BY <1>4, <1>6, <2>1, <2>2, StaysExpired
  <1>7. CASE tv[o[1]].pos = nv[n][k].pos /\ Out(o).op \in {"firstupdate", "update"}
    <2>1. x \in Tx /\ u \in Tx /\ o \in Tx \X (Nat \ {0}) /\ o = <<o[1], o[2]>>
      BY <1>2, <1>3, <1>5, TxAssumption DEF IndexedTx
    <2>2. o[1] \in IndexedTx(tv) /\ o[2] \in 1 .. Len(vout[o[1]])
      BY <1>3, <1>5, <2>1 DEF ChainView, InputsPrecede, IndexedTx
    <2>3. o[1] = u
      BY <1>2, <1>7, <2>2, PositionUnique
    <2>4. o[2] \in NameOutputs(u)
      <3>1. vout[u] \in Seq(TxOut)
        BY <2>1, TxAssumption
      <3> QED  BY <1>7, <2>2, <2>3, <3>1 DEF NameOutputs, NameOps, Out
    <2>5. o[2] = NameCoin(u)
      BY <1>4, <2>1, <2>4, TheNameOutput DEF NamePopped
    <2>6. o[2] \in tv[u].spent
      BY <1>3, <1>5, <2>1, <2>2, <2>3 DEF ChainView, OutputsSpentOnce
    <2> QED  BY <2>5, <2>6
  <1> QED  BY <1>5, <1>6, <1>7

(* Without mismatching transactions, the second workaround (an update on    *)
(* top of a transaction that is not in the name index) is never taken.      *)
LEMMA NoBugWrites ==
    ASSUME NoNameBug, NEW tv \in TxIndexType, NEW nv, NameIndexType(nv),
           NEW e \in Block \ {Genesis}, NEW m \in Nat, Connectable(tv, nv, e, m),
           NameView(tv, nv), Registered(tv, nv), NamePopped(vtx[e][m + 1])
    PROVE  WritesName(vtx[e][m + 1], tv, nv) /\ ~IsCoinBase(vtx[e][m + 1])
  <1> DEFINE t == vtx[e][m + 1]
             o == NameInput(t)
             u == o[1]
             n == NameOut(t).name
  <1>1. t \in Tx /\ m + 1 \in DOMAIN vtx[e] /\ ChainView(tv, e, m)
    BY TxAssumption DEF Connectable
  <1>2. /\ ~IsCoinBase(t)
        /\ ~postLibcoinFork(nHeight[e]) =>
              ~Mismatch(t) /\ (NameOut(t).op = "update" => NamePopped(u))
    <2>1. WithoutBug(t, e)
      BY <1>1 DEF NoNameBug
    <2> QED  BY <2>1 DEF WithoutBug
  <1>3. /\ HookConnectInputs(t, e, tv, nv, "block", {}, {})
        /\ isNameTx[t] /\ NameOut(t).op \in {"firstupdate", "update"}
    BY <1>2 DEF Connectable, NamePopped
  <1>4. \A p \in vin[t] : /\ HasTxIndex(tv, p[1]) /\ p[2] <= Len(vout[p[1]])
                          /\ p[2] \notin tv[p[1]].spent
    BY DEF Connectable
  <1> HIDE DEF t
  <1>5. /\ o \in vin[t] /\ ~Mismatch(t)
        /\ NameOut(t).op = "update" =>
              /\ Out(o).op \in {"firstupdate", "update"}
              /\ CheckTransactionAtRelativeDepth(e, tv[u].pos, GetExpirationDepth(nHeight[e])) >= 0
    BY <1>1, <1>2, <1>3, HookFacts
  <1>6. ~OnTopOfBug(t, tv, nv)
    <2>1. CASE postLibcoinFork(nHeight[e])
      BY <1>3, <1>5, <2>1 DEF HookConnectInputs
    <2>2. CASE NameOut(t).op # "update"
      BY <2>2 DEF OnTopOfBug
    <2>3. CASE ~postLibcoinFork(nHeight[e]) /\ NameOut(t).op = "update"
      <3>1. u \in IndexedTx(tv) /\ u \in Tx /\ NamePopped(u) /\ o = <<u, o[2]>> /\ o[2] \in Nat \ {0}
        BY <1>1, <1>2, <1>4, <1>5, <2>3, TxAssumption DEF IndexedTx
      <3>2. vout[u] \in Seq(TxOut) /\ o[2] \in DOMAIN vout[u]
        <4>1. vout[u] \in Seq(TxOut)
          BY <3>1, TxAssumption
        <4> QED  BY <1>4, <1>5, <3>1, <4>1
      <3>3. o[2] = NameCoin(u) /\ Out(o) = NameOut(u)
        <4>1. o[2] \in NameOutputs(u)
          BY <1>5, <2>3, <3>2 DEF NameOutputs, NameOps, Out
        <4> QED  BY <3>1, <4>1, TheNameOutput DEF NamePopped, Out
      <3>4. NameOut(u).name = n
        BY <1>5, <2>3, <3>3 DEF Mismatch
      <3>5. PICK k \in DOMAIN nv[n] : n \in DOMAIN nv /\ nv[n][k].pos = tv[u].pos
        BY <3>1, <3>4 DEF Registered, HasEntry, EntryAt
      <3>6. TxAt(nv[n][k].pos) = u
        <4>1. /\ TxAt(nv[n][k].pos) \in IndexedTx(tv)
              /\ tv[TxAt(nv[n][k].pos)].pos = nv[n][k].pos
          BY <1>1, <3>5, EntryPosition
        <4> QED  BY <1>1, <3>1, <3>5, <4>1, PositionUnique
      <3>7. NameUnexpired(nHeight[tv[u].pos[1]], nHeight[e])
        <4>1. nHeight[e] - nHeight[tv[u].pos[1]] < GetExpirationDepth(nHeight[e])
          BY <1>5, <2>3 DEF CheckTransactionAtRelativeDepth
        <4> QED  BY <4>1 DEF NameUnexpired
      <3>8. k = Len(nv[n])
        <4>1. NameCoin(u) \notin tv[u].spent
          BY <1>4, <1>5, <3>3
        <4> QED  BY <1>1, <3>5, <3>6, <3>7, <4>1, SupersededCoin
      <3>9. VtxPos(nv, n) = nv[n] /\ nv[n] # <<>>
        BY <3>5 DEF VtxPos
      <3> QED  BY <3>5, <3>8, <3>9 DEF OnTopOfBug, CheckNameTxPos
    <2> QED  BY <2>1, <2>2, <2>3
  <1> QED  BY <1>2, <1>3, <1>5, <1>6 DEF WritesName, t

(* The entries that ConnectInputs and DisconnectInputs keep. *)
KeepsEntries(nv, nw) ==
    \A n \in DOMAIN nv : \A k \in DOMAIN nv[n] :
        n \in DOMAIN nw /\ k \in DOMAIN nw[n] /\ nw[n][k] = nv[n][k]

LEMMA ConnectedKeeps ==
    ASSUME NEW tv, NEW nv, NameIndexType(nv), NEW t \in Tx, NEW e \in Block, NEW i \in Nat,
           NEW nw, nw = NameConnected(t, e, i, tv, nv)
    PROVE  /\ KeepsEntries(nv, nw)
           /\ WritesName(t, tv, nv) => EntryAt(nw, NameOut(t).name, <<e, i>>)
  <1> USE DEF KeepsEntries, EntryAt
  <1> DEFINE r  == [nHeight |-> nHeight[e], pos |-> <<e, i>>]
             m  == NameOut(t).name
             s  == VtxPos(nv, m)
  <1>1. CASE ~WritesName(t, tv, nv)
    BY <1>1 DEF NameConnected
  <1>2. CASE WritesName(t, tv, nv)
    <2>1. nw = [x \in DOMAIN nv \cup {m} |-> IF x = m THEN Append(s, r) ELSE nv[x]]
      BY <1>2 DEF NameConnected, WriteName, PosOf
    <2>2. s \in Seq(CNameIndex) /\ r \in CNameIndex
      BY VtxPosType, BlockTree DEF CNameIndex
    <2>3. r.pos = <<e, i>>
      OBVIOUS
    <2>4. m \in DOMAIN nv => s = nv[m]
      BY DEF VtxPos
    <2> HIDE DEF s, r, m
    <2>5. /\ Len(s) + 1 \in DOMAIN Append(s, r) /\ Append(s, r)[Len(s) + 1] = r
          /\ \A k \in DOMAIN s : k \in DOMAIN Append(s, r) /\ Append(s, r)[k] = s[k]
      BY <2>2
    <2>6. m \in DOMAIN nw /\ nw[m] = Append(s, r)
      BY <2>1
    <2>7. \A n \in DOMAIN nv : n # m => n \in DOMAIN nw /\ nw[n] = nv[n]
      BY <2>1
    <2> QED  BY <2>3, <2>4, <2>5, <2>6, <2>7 DEF m
  <1> QED  BY <1>1, <1>2

LEMMA DisconnectedKeeps ==
    ASSUME NEW tv, NEW nv, NameIndexType(nv), NEW t \in Tx,
           NEW nw, nw = NameDisconnected(t, tv, nv)
    PROVE  \A n \in DOMAIN nv : \A k \in DOMAIN nv[n] : nv[n][k].pos # tv[t].pos =>
               n \in DOMAIN nw /\ k \in DOMAIN nw[n] /\ nw[n][k] = nv[n][k]
  <1> DEFINE m  == NameOut(t).name
             s  == VtxPos(nv, m)
  <1>1. CASE ~(NamePopped(t) /\ CheckNameTxPos(nv, m, tv[t].pos))
    BY <1>1 DEF NameDisconnected
  <1>2. CASE NamePopped(t) /\ CheckNameTxPos(nv, m, tv[t].pos)
    <2>1. nw = [x \in DOMAIN nv \cup {m} |->
                  IF x = m THEN SubSeq(s, 1, Len(s) - 1) ELSE nv[x]]
      BY <1>2 DEF NameDisconnected, WriteName
    <2>2. s \in Seq(CNameIndex) /\ s # <<>> /\ s[Len(s)].pos = tv[t].pos
      BY <1>2, VtxPosType DEF CheckNameTxPos
    <2>3. m \in DOMAIN nv /\ s = nv[m]
      BY <2>2 DEF VtxPos
    <2> HIDE DEF s, m
    <2>4. \A k \in DOMAIN s : k # Len(s) =>
             k \in DOMAIN SubSeq(s, 1, Len(s) - 1) /\ SubSeq(s, 1, Len(s) - 1)[k] = s[k]
      BY <2>2
    <2>5. m \in DOMAIN nw /\ nw[m] = SubSeq(s, 1, Len(s) - 1)
      BY <2>1
    <2>6. \A n \in DOMAIN nv : n # m => n \in DOMAIN nw /\ nw[n] = nv[n]
      BY <2>1
    <2> QED  BY <2>2, <2>3, <2>4, <2>5, <2>6
  <1> QED  BY <1>1, <1>2

LEMMA ConnectCoins ==
    ASSUME NoNameBug, NEW tv \in TxIndexType, NEW nv, NameIndexType(nv),
           NEW e \in Block \ {Genesis}, NEW m \in Nat, Connectable(tv, nv, e, m),
           NameView(tv, nv), CoinsOK(tv, nv)
    PROVE  LET t == vtx[e][m + 1]
           IN  CoinsOK(TxConnected(t, e, m + 1, tv), NameConnected(t, e, m + 1, tv, nv))
  <1> DEFINE t  == vtx[e][m + 1]
             tw == TxConnected(t, e, m + 1, tv)
             nw == NameConnected(t, e, m + 1, tv, nv)
  <1>1. t \in Tx /\ m + 1 \in Nat /\ ChainView(tv, e, m)
    BY TxAssumption DEF Connectable
  <1>2. NamePopped(t) => WritesName(t, tv, nv) /\ ~IsCoinBase(t)
    BY NoBugWrites DEF CoinsOK
  <1>3. ~IsCoinBase(t) => HookConnectInputs(t, e, tv, nv, "block", {}, {})
    BY DEF Connectable
  <1> HIDE DEF t
  <1>4. /\ tw[t].pos = <<e, m + 1>> /\ \A u \in Tx \ {t} : tw[u].pos = tv[u].pos
        /\ \A u \in Tx : HasTxIndex(tw, u) <=> u = t \/ HasTxIndex(tv, u)
    BY <1>1, ConnectedRecords
  <1>5. /\ KeepsEntries(nv, nw)
        /\ WritesName(t, tv, nv) => EntryAt(nw, NameOut(t).name, <<e, m + 1>>)
    BY <1>1, ConnectedKeeps
  <1> HIDE DEF tw, nw
  <1>6. Registered(tw, nw)
    <2> SUFFICES ASSUME NEW u \in IndexedTx(tw), NamePopped(u) PROVE HasEntry(tw, nw, u)
      BY DEF Registered
    <2>1. CASE u = t
      BY <1>2, <1>4, <1>5, <2>1 DEF HasEntry, EntryAt
    <2>2. CASE u # t
      <3>1. u \in IndexedTx(tv) /\ tw[u].pos = tv[u].pos
        BY <1>4, <2>2 DEF IndexedTx
      <3>2. HasEntry(tv, nv, u)
        BY <3>1 DEF CoinsOK, Registered
      <3> QED  BY <1>5, <3>1, <3>2 DEF HasEntry, EntryAt, KeepsEntries
    <2> QED  BY <2>1, <2>2
  <1>7. CoinsMatched(tw)
    <2> SUFFICES ASSUME NEW w \in IndexedTx(tw), NEW o \in vin[w],
                        Out(o).op \in {"firstupdate", "update"}
                 PROVE  /\ NamePopped(w) /\ NameOut(w).op = "update"
                        /\ NameInput(w) = o /\ NameOut(w).name = Out(o).name
      BY DEF CoinsMatched
    <2>1. CASE w # t
      BY <1>4, <2>1 DEF IndexedTx, CoinsOK, CoinsMatched
    <2>2. CASE w = t
      <3>1. HookConnectInputs(t, e, tv, nv, "block", {}, {}) /\ o \in NameInputs(t)
        BY <1>3, <2>2 DEF IsCoinBase, NameInputs, NameOps
      <3>2. isNameTx[t] /\ NameOut(t).op \in {"firstupdate", "update"}
        BY <3>1 DEF HookConnectInputs, CheckNameNew
      <3>3. /\ NamePopped(t) /\ NameInputs(t) = {NameInput(t)}
            /\ NameOut(t).op = "firstupdate" => Out(NameInput(t)).op = "new"
        BY <1>1, <3>1, <3>2, HookFacts
      <3>4. NameInput(t) = o /\ NameOut(t).op = "update"
        BY <3>1, <3>2, <3>3
      <3>5. ~Mismatch(t)
        BY <1>2, <3>3 DEF WritesName
      <3> QED  BY <2>2, <3>3, <3>4, <3>5 DEF Mismatch
    <2> QED  BY <2>1, <2>2
  <1>8. CoinsOK(tw, nw)
    BY <1>6, <1>7 DEF CoinsOK
  <1> QED  BY <1>8 DEF t, tw, nw

LEMMA DisconnectCoins ==
    ASSUME NEW tv \in TxIndexType, NEW nv, NameIndexType(nv), NEW e \in Block \ {Genesis},
           NEW m \in Nat \ {0}, m <= Len(vtx[e]), ChainView(tv, e, m), CoinsOK(tv, nv)
    PROVE  LET t == vtx[e][m]
           IN  CoinsOK(TxDisconnected(t, tv), NameDisconnected(t, tv, nv))
  <1> DEFINE t  == vtx[e][m]
             tw == TxDisconnected(t, tv)
             nw == NameDisconnected(t, tv, nv)
  <1>1. t \in Tx
    BY TxAssumption
  <1>2. t \in IndexedTx(tv)
    BY <1>1, LastPosition DEF IndexedTx
  <1> HIDE DEF t
  <1>3. /\ \A u \in Tx \ {t} : tw[u].pos = tv[u].pos
        /\ \A u \in Tx : HasTxIndex(tw, u) <=> u # t /\ HasTxIndex(tv, u)
    BY <1>1, DisconnectedRecords
  <1>4. \A n \in DOMAIN nv : \A k \in DOMAIN nv[n] : nv[n][k].pos # tv[t].pos =>
            n \in DOMAIN nw /\ k \in DOMAIN nw[n] /\ nw[n][k] = nv[n][k]
    BY <1>1, DisconnectedKeeps
  <1> HIDE DEF tw, nw
  <1>5. \A u \in IndexedTx(tw) : u \in IndexedTx(tv) /\ u # t /\ tw[u].pos = tv[u].pos
    BY <1>3 DEF IndexedTx
  <1>6. Registered(tw, nw)
    <2> SUFFICES ASSUME NEW u \in IndexedTx(tw), NamePopped(u) PROVE HasEntry(tw, nw, u)
      BY DEF Registered
    <2>1. HasEntry(tv, nv, u)
      BY <1>5 DEF CoinsOK, Registered
    <2>2. tv[u].pos # tv[t].pos
      BY <1>2, <1>5, PositionUnique
    <2> QED  BY <1>4, <1>5, <2>1, <2>2 DEF HasEntry, EntryAt
  <1>7. CoinsMatched(tw)
    BY <1>5 DEF CoinsOK, CoinsMatched
  <1>8. CoinsOK(tw, nw)
    BY <1>6, <1>7 DEF CoinsOK
  <1> QED  BY <1>8 DEF t, tw, nw

BothCoinsOK == CoinsOK(txTx, txName) /\ CoinsOK(dbTx, dbName)

LEMMA CoinsNext ==
    ASSUME NoNameBug, NodeInv, NameIndexOK, BothCoinsOK, [Next]_vars
    PROVE  BothCoinsOK'
  <1>1. txTx \in TxIndexType /\ NameIndexType(txName)
    BY DEF NodeInv, TypeOK, StoreType
  <1>2. CASE ConnectInputs
    <2>1. CoinsOK(txTx', txName')
      BY <1>1, <1>2, ConnectInputsFacts, ConnectCoins DEF NameIndexOK, BothCoinsOK
    <2> QED  BY <1>2, <2>1, ConnectInputsFacts DEF BothCoinsOK
  <1>3. CASE DisconnectInputs
    <2>1. CoinsOK(txTx', txName')
      BY <1>1, <1>3, DisconnectInputsFacts, DisconnectCoins DEF BothCoinsOK
    <2> QED  BY <1>3, <2>1, DisconnectInputsFacts DEF BothCoinsOK
  <1> QED  BY <1>2, <1>3, ViewSteps DEF BothCoinsOK

LEMMA CoinsInvariant == NoNameBug => (Spec => []BothCoinsOK)
  <1> SUFFICES ASSUME NoNameBug PROVE Spec => []BothCoinsOK
    OBVIOUS
  <1>1. ASSUME Init PROVE BothCoinsOK
    <2>1. IndexedTx(txTx) = {} /\ IndexedTx(dbTx) = {}
      BY <1>1 DEF Init, IndexedTx, HasTxIndex, NoIndex
    <2> QED  BY <2>1 DEF BothCoinsOK, CoinsOK, Registered, CoinsMatched
  <1>2. NodeInv /\ NameIndexOK /\ BothCoinsOK /\ [Next]_vars => BothCoinsOK'
    BY CoinsNext
  <1> QED  BY <1>1, <1>2, NodeInvariant, NamesInvariant, PTL DEF Spec

(* ReorgCanUndo: every transaction that was connected can be disconnected   *)
(* again, its name is found in the name index and its inputs in the         *)
(* transaction index, unless the blocks hold transactions that only the     *)
(* bug workarounds let through.                                             *)
THEOREM EveryBlockCanBeUndone == NoNameBug => (Spec => []ReorgCanUndo)
  <1> SUFFICES ASSUME NoNameBug PROVE Spec => []ReorgCanUndo
    OBVIOUS
  <1>1. ASSUME NodeInv, BothCoinsOK PROVE ReorgCanUndo
    <2> SUFFICES ASSUME stage = "disconnect", ~AtFork, nTx > 0
                 PROVE  CanDisconnect(vtx[tip][nTx], txTx, txName)
      BY DEF ReorgCanUndo
    <2> DEFINE t == vtx[tip][nTx]
    <2>1. /\ tip \in Block \ {Genesis} /\ CheckBlock(tip) /\ nTx \in Nat \ {0}
          /\ nTx <= Len(vtx[tip]) /\ vtx[tip] \in Seq(Tx)
      BY <1>1, DisconnectFacts, JobFacts
    <2>2. txTx \in TxIndexType /\ ChainView(txTx, tip, nTx)
      BY <1>1 DEF NodeInv, TypeOK, StoreType
    <2>3. t \in Tx /\ HasTxIndex(txTx, t) /\ nTx \in DOMAIN vtx[tip]
      BY <2>1, <2>2, LastPosition
    <2>4. isNameTx[t] => DecodeNameTx(t)
      BY <2>1, <2>3 DEF CheckBlock, CheckTransaction
    <2>5. NamePopped(t) => NameOut(t).name \in DOMAIN txName
      BY <1>1, <2>3 DEF BothCoinsOK, CoinsOK, Registered, HasEntry, EntryAt, IndexedTx
    <2>6. \A o \in vin[t] : HasTxIndex(txTx, o[1]) /\ o[2] <= Len(vout[o[1]])
      <3>1. \A o \in vin[t] : HasTxIndex(txTx, o[1]) /\ o[2] \in 1 .. Len(vout[o[1]])
        BY <2>2, <2>3 DEF ChainView, InputsPrecede, IndexedTx
      <3>2. \A o \in vin[t] : vout[o[1]] \in Seq(TxOut)
        BY <2>3, TxAssumption
      <3> QED  BY <3>1, <3>2
    <2> QED  BY <2>3, <2>4, <2>5, <2>6 DEF CanDisconnect
  <1> QED  BY <1>1, NodeInvariant, CoinsInvariant, PTL

(* OneLiveCoin: of the unspent coins of a name only that of the last entry  *)
(* of its history can be unexpired, and that one is unspent: at every point *)
(* of every reorganisation a name has exactly one holder.                   *)
THEOREM OneHolderPerName == NoNameBug => (Spec => []OneLiveCoin)
  <1> SUFFICES ASSUME NoNameBug PROVE Spec => []OneLiveCoin
    OBVIOUS
  <1>1. ASSUME NodeInv, NameIndexOK, BothCoinsOK, NEW n \in DOMAIN txName
        PROVE  LET vtxPos == txName[n]
               IN  /\ \A t \in UnspentNameCoins(n) :
                         \/ vtxPos # <<>> /\ txTx[t].pos = Last(vtxPos).pos
                         \/ ~NameUnexpired(nHeight[txTx[t].pos[1]], nHeight[tip])
                   /\ vtxPos # <<>> =>
                         \E t \in UnspentNameCoins(n) : txTx[t].pos = Last(vtxPos).pos
    <2> DEFINE s == txName[n]
    <2>1. /\ txTx \in TxIndexType /\ NameIndexType(txName) /\ tip \in Block
          /\ ChainView(txTx, tip, nTx) /\ NameView(txTx, txName) /\ s \in Seq(CNameIndex)
      BY <1>1, JobFacts DEF NodeInv, TypeOK, StoreType, NameIndexOK, NameIndexType
    <2>2. Registered(txTx, txName) /\ CoinsMatched(txTx)
      BY <1>1 DEF BothCoinsOK, CoinsOK
    <2>3. ASSUME NEW t \in UnspentNameCoins(n)
          PROVE  \/ s # <<>> /\ txTx[t].pos = Last(s).pos
                 \/ ~NameUnexpired(nHeight[txTx[t].pos[1]], nHeight[tip])
      <3>1. /\ t \in IndexedTx(txTx) /\ t \in Tx /\ isNameTx[t] /\ NameOut(t).name = n
            /\ NameOut(t).op \in {"firstupdate", "update"} /\ NameCoin(t) \notin txTx[t].spent
        BY DEF UnspentNameCoins, IndexedTx
      <3>2. DecodeNameTx(t)
        <4>1. PICK b, i : /\ b \in Ancestors[tip] \ {Genesis} /\ i \in 1 .. Len(vtx[b])
                          /\ vtx[b][i] = t
          BY <2>1, <3>1 DEF ChainView, IndexIsChain, IndexedTx, InChain
        <4>2. b \in Block /\ CheckBlock(b)
          BY <1>1, <2>1, <4>1, BlockTree DEF NodeInv, IndexClosed, TypeOK, JobType
        <4>3. vtx[b] \in Seq(Tx)
          BY <4>2, TxAssumption
        <4> QED  BY <3>1, <4>1, <4>2, <4>3 DEF CheckBlock, CheckTransaction
      <3>3. PICK k \in DOMAIN s : s[k].pos = txTx[t].pos
        BY <2>2, <3>1, <3>2 DEF Registered, HasEntry, EntryAt, NamePopped
      <3>4. TxAt(s[k].pos) = t
        <4>1. TxAt(s[k].pos) \in IndexedTx(txTx) /\ txTx[TxAt(s[k].pos)].pos = s[k].pos
          BY <2>1, <3>3, EntryPosition
        <4> QED  BY <2>1, <3>1, <3>3, <4>1, PositionUnique
      <3>5. CASE k = Len(s)
        BY <3>3, <3>5 DEF Last
      <3>6. CASE k # Len(s)
        BY <2>1, <3>1, <3>3, <3>4, <3>6, SupersededCoin
      <3> QED  BY <3>5, <3>6
    <2>4. ASSUME s # <<>>
          PROVE  \E t \in UnspentNameCoins(n) : txTx[t].pos = Last(s).pos
      <3> DEFINE l == Len(s)
                 t == TxAt(s[l].pos)
                 o == <<t, NameCoin(t)>>
      <3>1. l \in DOMAIN s /\ Last(s) = s[l] /\ DOMAIN s = 1 .. l /\ l \in Nat
        BY <2>1, <2>4 DEF Last
      <3>2. /\ t \in IndexedTx(txTx) /\ txTx[t].pos = s[l].pos /\ s[l].pos \in Block \X Nat
            /\ EntryOK(txTx, txName, n, l)
        BY <2>1, <3>1, EntryPosition DEF NameView
      <3>3. t \in Tx /\ NamePopped(t) /\ NameOut(t).name = n
        BY <3>2 DEF EntryOK
      <3>4. NameCoin(t) \in DOMAIN vout[t] /\ Out(o) = NameOut(t)
        <4>1. PICK j \in DOMAIN vout[t] : NameOutputs(t) = {j}
          BY <3>3 DEF NamePopped, DecodeNameTx
        <4> QED  BY <3>3, <4>1, TheNameOutput DEF NamePopped, Out
      <3>5. NameCoin(t) \notin txTx[t].spent
        <4> SUFFICES ASSUME NameCoin(t) \in txTx[t].spent PROVE FALSE
          OBVIOUS
        <4>1. NameCoin(t) \in 1 .. Len(vout[t])
          <5>1. vout[t] \in Seq(TxOut)
            BY <3>3, TxAssumption
          <5> QED  BY <3>4, <5>1
        <4>2. PICK w \in IndexedTx(txTx) : o \in vin[w]
          BY <2>1, <3>2, <4>1 DEF ChainView, OutputsSpentOnce
        <4>3. Out(o).op \in {"firstupdate", "update"}
          BY <3>3, <3>4 DEF NamePopped
        <4>4. /\ NamePopped(w) /\ NameOut(w).op = "update"
              /\ NameInput(w) = o /\ NameOut(w).name = n
          BY <2>2, <3>3, <3>4, <4>2, <4>3 DEF CoinsMatched
        <4>5. PICK k \in DOMAIN s : s[k].pos = txTx[w].pos
          BY <2>2, <4>2, <4>4 DEF Registered, HasEntry, EntryAt
        <4>6. TxAt(s[k].pos) = w
          <5>1. TxAt(s[k].pos) \in IndexedTx(txTx) /\ txTx[TxAt(s[k].pos)].pos = s[k].pos
            BY <2>1, <4>5, EntryPosition
          <5> QED  BY <2>1, <4>2, <4>5, <5>1, PositionUnique
        <4>7. k > 1 /\ txTx[NameInput(w)[1]].pos = s[k - 1].pos
          BY <2>1, <4>4, <4>5, <4>6 DEF NameView, EntryOK
        <4>8. s[k - 1].pos = s[l].pos
          BY <3>2, <4>4, <4>7
        <4>9. k - 1 \in DOMAIN s /\ k - 1 < l
          BY <3>1, <4>5, <4>7
        <4>10. Precedes(s[l].pos, s[l].pos)
          BY <2>1, <3>1, <4>8, <4>9 DEF NameView, HistoryOrdered
        <4>11. nHeight[s[l].pos[1]] \in Nat /\ s[l].pos[2] \in Nat
          BY <3>2, BlockTree
        <4> QED  BY <4>10, <4>11 DEF Precedes
      <3>6. t \in UnspentNameCoins(n)
        BY <3>2, <3>3, <3>5 DEF UnspentNameCoins, NamePopped
      <3> QED  BY <3>1, <3>2, <3>6
    <2> QED  BY <2>3, <2>4
  <1>2. NodeInv /\ NameIndexOK /\ BothCoinsOK => OneLiveCoin
    BY <1>1 DEF OneLiveCoin
  <1> QED  BY <1>2, NodeInvariant, NamesInvariant, CoinsInvariant, PTL
-----------------------------------------------------------------------------
(***************************************************************************)
(* The memory pool and the block chain have nothing in common.             *)
(***************************************************************************)

(* What a queue holds. *)
LEMMA QueueFacts ==
    ASSUME NEW s \in Seq(Tx), NEW u \in Seq(Tx)
    PROVE  /\ ToSet(s \o u) = ToSet(s) \cup ToSet(u)
           /\ s # <<>> => ToSet(s) = {Head(s)} \cup ToSet(Tail(s))
  <1>1. ToSet(s \o u) = ToSet(s) \cup ToSet(u)
    <2>1. /\ DOMAIN (s \o u) = 1 .. (Len(s) + Len(u))
          /\ \A i \in 1 .. Len(s) : (s \o u)[i] = s[i]
          /\ \A i \in 1 .. Len(u) : (s \o u)[Len(s) + i] = u[i]
      OBVIOUS
    <2>2. ASSUME NEW x \in ToSet(s) \cup ToSet(u) PROVE x \in ToSet(s \o u)
      <3>1. CASE x \in ToSet(s)
        <4>1. PICK i \in 1 .. Len(s) : x = s[i]
          BY <3>1 DEF ToSet
        <4> QED  BY <2>1, <4>1 DEF ToSet
      <3>2. CASE x \in ToSet(u)
        <4>1. PICK i \in 1 .. Len(u) : x = u[i]
          BY <3>2 DEF ToSet
        <4>2. Len(s) + i \in DOMAIN (s \o u)
          BY <2>1
        <4> QED  BY <2>1, <4>1, <4>2 DEF ToSet
      <3> QED  BY <2>2, <3>1, <3>2
    <2>3. ASSUME NEW x \in ToSet(s \o u) PROVE x \in ToSet(s) \cup ToSet(u)
      <3>1. PICK i \in 1 .. (Len(s) + Len(u)) : x = (s \o u)[i]
        BY <2>1, <2>3 DEF ToSet
      <3>2. CASE i <= Len(s)
        BY <2>1, <3>1, <3>2 DEF ToSet
      <3>3. CASE i > Len(s)
        <4>1. i - Len(s) \in 1 .. Len(u) /\ Len(s) + (i - Len(s)) = i
          BY <3>1, <3>3
        <4>2. x = u[i - Len(s)]
          BY <2>1, <3>1, <4>1
        <4> QED  BY <4>1, <4>2 DEF ToSet
      <3> QED  BY <3>1, <3>2, <3>3
    <2> QED  BY <2>2, <2>3
  <1>2. ASSUME s # <<>> PROVE ToSet(s) = {Head(s)} \cup ToSet(Tail(s))
    <2>1. /\ Len(s) \in Nat \ {0} /\ Head(s) = s[1]
          /\ DOMAIN Tail(s) = 1 .. (Len(s) - 1)
          /\ \A i \in 1 .. (Len(s) - 1) : Tail(s)[i] = s[i + 1]
      BY <1>2
    <2>2. ASSUME NEW i \in 1 .. Len(s) PROVE i = 1 \/ i - 1 \in 1 .. (Len(s) - 1)
      BY <2>1
    <2>3. ASSUME NEW x \in ToSet(s) PROVE x \in {Head(s)} \cup ToSet(Tail(s))
      <3>1. PICK i \in 1 .. Len(s) : x = s[i]
        BY <2>3 DEF ToSet
      <3>2. CASE i # 1
        <4>1. i - 1 \in DOMAIN Tail(s) /\ Tail(s)[i - 1] = x
          BY <2>1, <2>2, <3>1, <3>2
        <4> QED  BY <4>1 DEF ToSet
      <3> QED  BY <2>1, <3>1, <3>2
    <2>4. ASSUME NEW x \in {Head(s)} \cup ToSet(Tail(s)) PROVE x \in ToSet(s)
      <3>1. CASE x \in ToSet(Tail(s))
        <4>1. PICK i \in 1 .. (Len(s) - 1) : x = Tail(s)[i]
          BY <2>1, <3>1 DEF ToSet
        <4>2. i + 1 \in 1 .. Len(s) /\ x = s[i + 1]
          BY <2>1, <4>1
        <4> QED  BY <4>2 DEF ToSet
      <3> QED  BY <2>1, <2>4, <3>1 DEF ToSet
    <2> QED  BY <2>3, <2>4
  <1> QED  BY <1>1, <1>2

(* What is on the chain, of the transactions of S, is queued for deletion   *)
(* from the pool.                                                           *)
DeletedLater(S) == \A t \in S : HasTxIndex(dbTx, t) => t \in ToSet(vDelete)

(* The two queues of a reorganisation. *)
FromOldBranch(t) == HasTxIndex(dbTx, t) /\ dbTx[t].pos[1] \notin Ancestors[pindexNew]

NewBranchQueued ==
    \A b \in Ancestors[tip] \ Ancestors[dbBest] :
        b # tip \/ stage = "connected" => ToSet(vtx[b]) \subseteq ToSet(vDelete)

PoolOutside ==
    /\ stage \notin {"resurrect", "delete"} => \A t \in mapTransactions : ~HasTxIndex(dbTx, t)
    /\ stage \in {"resurrect", "delete"} => DeletedLater(mapTransactions)
    /\ stage = "resurrect" => DeletedLater(ToSet(vResurrect))
    /\ stage \in {"idle", "orphans", "delete"} => vResurrect = <<>>
    /\ stage \in {"disconnect", "connect", "connected"} =>
          \A t \in ToSet(vResurrect) : FromOldBranch(t)
    /\ stage \in {"connect", "connected"} => NewBranchQueued

(* A transaction of a block of the committed chain is indexed there. *)
LEMMA CommittedTx ==
    ASSUME NodeInv, NEW b \in Ancestors[dbBest] \ {Genesis}, NEW t \in ToSet(vtx[b])
    PROVE  t \in Tx /\ HasTxIndex(dbTx, t) /\ dbTx[t].pos[1] = b
  <1>1. dbBest \in Block /\ b \in Block
    BY BlockTree DEF NodeInv, TypeOK, ChainType
  <1>2. vtx[b] \in Seq(Tx) /\ Len(vtx[b]) \in Nat
    BY <1>1, TxAssumption
  <1>3. PICK i \in 1 .. Len(vtx[b]) : vtx[b][i] = t
    BY <1>2 DEF ToSet
  <1>4. InChain(b, i, dbBest, Len(vtx[dbBest]))
    BY <1>2, <1>3 DEF InChain
  <1>5. dbTx[t].pos = <<b, i>>
    BY <1>1, <1>3, <1>4 DEF NodeInv, ChainView, IndexIsChain, PosOf
  <1>6. <<b, i>> # NoPos /\ t \in Tx
    BY <1>1, <1>2, <1>3, PositionNotNull
  <1> QED  BY <1>5, <1>6 DEF HasTxIndex

(* A transaction of the view is in a block of its chain. *)
LEMMA ViewedTx ==
    ASSUME NodeInv, NEW t \in Tx, HasTxIndex(txTx, t)
    PROVE  \E b \in Ancestors[tip] \ {Genesis} : b \in Block /\ t \in ToSet(vtx[b])
  <1> DEFINE b == txTx[t].pos[1]
             i == txTx[t].pos[2]
  <1>1. InChain(b, i, tip, nTx) /\ vtx[b][i] = t
    BY DEF NodeInv, ChainView, IndexIsChain
  <1>2. b \in Ancestors[tip] \ {Genesis} /\ i \in 1 .. Len(vtx[b])
    BY <1>1 DEF InChain
  <1>3. b \in Block
    BY <1>2, JobFacts, BlockTree
  <1>4. vtx[b] \in Seq(Tx)
    BY <1>3, TxAssumption
  <1> HIDE DEF b, i
  <1> QED  BY <1>1, <1>2, <1>3, <1>4 DEF ToSet

LEMMA PoolOutsideNext ==
    ASSUME NodeInv, PoolOutside, [Next]_vars
    PROVE  PoolOutside'
  <1>1. /\ vResurrect \in Seq(Tx) /\ vDelete \in Seq(Tx) /\ tip \in Block /\ dbBest \in Block
        /\ mapTransactions \subseteq Tx
    BY JobFacts DEF NodeInv, TypeOK, JobType, ChainType, PoolType
  <1>2. ToSet(<<>>) = {}
    BY DEF ToSet
  <1> USE DEF diskVars, txnVars, chainVars, viewVars, jobVars
  <1>3. ASSUME NEW b \in Block, AcceptBlock(b) \/ RejectBlock(b), stage \in {"idle", "orphans"}
        PROVE  PoolOutside'
    <2>1. /\ stage' \in {"orphans", "disconnect"} /\ UNCHANGED <<mapTransactions, dbTx, vResurrect>>
      BY <1>3 DEF AcceptBlock, RejectBlock, IndexBlock, poolVars
    <2>2. vResurrect' = <<>> /\ \A t \in mapTransactions' : ~HasTxIndex(dbTx', t)
      BY <1>3, <2>1 DEF PoolOutside
    <2> QED  BY <1>2, <2>1, <2>2 DEF PoolOutside
  <1>4. ASSUME NEW b \in Block,
               \/ ProcessBlock(b) \/ ProcessOrphan(b)
               \/ ProcessBlockOrphan(b) \/ ProcessBlockRefused(b)
        PROVE  PoolOutside'
    <2>1. CASE ProcessBlock(b) \/ ProcessOrphan(b)
      BY <1>3, <2>1 DEF ProcessBlock, ProcessOrphan
    <2>2. CASE ProcessBlockOrphan(b) \/ ProcessBlockRefused(b)
      <3>1. UNCHANGED <<stage, pindexNew, tip, dbTx, dbBest, mapTransactions, vResurrect, vDelete>>
        BY <2>2 DEF ProcessBlockOrphan, ProcessBlockRefused, vars, poolVars
      <3> QED  BY <3>1 DEF PoolOutside, DeletedLater, FromOldBranch, NewBranchQueued
    <2> QED  BY <1>4, <2>1, <2>2
  <1>5. ASSUME NEW t \in Tx, AcceptToMemoryPool(t) \/ deletetransaction(t) PROVE PoolOutside'
    <2>1. /\ stage = "idle" /\ UNCHANGED <<stage, dbTx, vResurrect>>
          /\ \/ mapTransactions' = mapTransactions \cup {t} /\ ~HasTxIndex(dbTx, t)
             \/ mapTransactions' = mapTransactions \ {t}
      BY <1>5 DEF AcceptToMemoryPool, deletetransaction, AddToMemoryPool, RemoveFromMemoryPool,
                  CheckInputs
    <2> QED  BY <2>1 DEF PoolOutside
  <1>6. CASE NextInQueue \/ ProcessBlockDone
    <2>1. /\ stage = "orphans" /\ stage' \in {"orphans", "idle"}
          /\ UNCHANGED <<dbTx, mapTransactions, vResurrect>>
      BY <1>6 DEF NextInQueue, ProcessBlockDone, poolVars
    <2> QED  BY <2>1 DEF PoolOutside
  <1>7. CASE DisconnectInputs
    <2>1. stage = "disconnect" /\ UNCHANGED <<stage, pindexNew, dbTx, mapTransactions, vResurrect>>
      BY <1>7 DEF DisconnectInputs, poolVars
    <2> QED  BY <2>1 DEF PoolOutside, FromOldBranch
  <1>8. CASE DisconnectBlock
    <2>1. /\ stage = "disconnect" /\ ~AtFork
          /\ UNCHANGED <<stage, pindexNew, dbTx, mapTransactions>>
          /\ vResurrect' = vResurrect \o Tail(vtx[tip])
      BY <1>8 DEF DisconnectBlock, poolVars
    <2>2. tip \in Ancestors[dbBest] \ {Genesis} /\ tip \notin Ancestors[pindexNew]
      BY <2>1, DisconnectFacts, JobFacts DEF NodeInv, JobOK, AtFork
    <2>3. vtx[tip] \in Seq(Tx) /\ vtx[tip] # <<>>
      BY <1>1, <2>1, DisconnectFacts, TxAssumption DEF CheckBlock
    <2>4. Tail(vtx[tip]) \in Seq(Tx)
      BY <2>3
    <2>5. /\ ToSet(vResurrect') = ToSet(vResurrect) \cup ToSet(Tail(vtx[tip]))
          /\ ToSet(Tail(vtx[tip])) \subseteq ToSet(vtx[tip])
      BY <1>1, <2>1, <2>3, <2>4, QueueFacts
    <2>6. \A t \in ToSet(vtx[tip]) : FromOldBranch(t)
      BY <2>2, CommittedTx DEF FromOldBranch
    <2>7. \A t \in ToSet(vResurrect') : FromOldBranch(t)
      BY <2>1, <2>5, <2>6 DEF PoolOutside
    <2> QED  BY <2>1, <2>7 DEF PoolOutside, FromOldBranch
  <1>9. CASE ConnectNext
    <2>1. /\ stage' = "connect"
          /\ UNCHANGED <<pindexNew, dbTx, dbBest, mapTransactions, vResurrect, vDelete>>
          /\ stage = "disconnect" \/ stage = "connected"
      BY <1>9 DEF ConnectNext, poolVars
    <2>2. Ancestors[tip'] = {tip'} \cup Ancestors[tip]
      BY <1>9, ConnectNextFacts, BlockTree
    <2>3. stage = "disconnect" => Ancestors[tip] \subseteq Ancestors[dbBest]
      BY <1>1, ChainOrder DEF NodeInv, JobOK
    <2>4. NewBranchQueued'
      BY <2>1, <2>2, <2>3 DEF PoolOutside, NewBranchQueued
    <2> QED  BY <2>1, <2>4 DEF PoolOutside, FromOldBranch
  <1>10. CASE ConnectInputs
    <2>1. /\ stage = "connect"
          /\ UNCHANGED <<stage, tip, pindexNew, dbTx, dbBest, mapTransactions, vResurrect, vDelete>>
      BY <1>10 DEF ConnectInputs
    <2> QED  BY <2>1 DEF PoolOutside, FromOldBranch, NewBranchQueued
  <1>11. CASE ConnectBlock
    <2>1. /\ stage = "connect" /\ stage' = "connected" /\ vDelete' = vDelete \o vtx[tip]
          /\ UNCHANGED <<tip, pindexNew, dbTx, dbBest, mapTransactions, vResurrect>>
      BY <1>11 DEF ConnectBlock, poolVars
    <2>2. vtx[tip] \in Seq(Tx)
      BY <1>1, TxAssumption
    <2>3. ToSet(vDelete') = ToSet(vDelete) \cup ToSet(vtx[tip])
      BY <1>1, <2>1, <2>2, QueueFacts
    <2>4. NewBranchQueued'
      BY <2>1, <2>3 DEF PoolOutside, NewBranchQueued
    <2> QED  BY <2>1, <2>4 DEF PoolOutside, FromOldBranch
  <1>12. CASE AbortingStep
    <2>1. /\ stage \in {"disconnect", "connect", "connected"} /\ stage' = "orphans"
          /\ vResurrect' = <<>> /\ UNCHANGED <<dbTx, mapTransactions>>
      BY <1>12 DEF AbortingStep, Abort
    <2> QED  BY <2>1 DEF PoolOutside
  <1>13. CASE TxnCommit
    <2>1. /\ stage = "connected" /\ tip = pindexNew /\ stage' = "resurrect" /\ dbTx' = txTx
          /\ UNCHANGED <<mapTransactions, vResurrect, vDelete>>
      BY <1>13 DEF TxnCommit, ReadyToCommit, WriteDatabases, poolVars
    <2>2. ASSUME NEW t \in Tx, HasTxIndex(txTx, t), t \notin ToSet(vDelete)
          PROVE  HasTxIndex(dbTx, t) /\ dbTx[t].pos[1] \in Ancestors[pindexNew]
      <3>1. PICK b \in Ancestors[tip] \ {Genesis} : b \in Block /\ t \in ToSet(vtx[b])
        BY <2>2, ViewedTx
      <3>2. b \in Ancestors[dbBest]
        BY <2>1, <2>2, <3>1 DEF PoolOutside, NewBranchQueued
      <3> QED  BY <2>1, <3>1, <3>2, CommittedTx
    <2>3. ToSet(vResurrect) \subseteq Tx
      BY <1>1 DEF ToSet
    <2>4. DeletedLater(mapTransactions)' /\ DeletedLater(ToSet(vResurrect))'
      BY <1>1, <2>1, <2>2, <2>3 DEF PoolOutside, DeletedLater, FromOldBranch, HasTxIndex
    <2> QED  BY <2>1, <2>4 DEF PoolOutside
  <1>14. CASE ResurrectTx
    <2>1. /\ stage = "resurrect" /\ vResurrect # <<>> /\ vResurrect' = Tail(vResurrect)
          /\ UNCHANGED <<stage, dbTx, vDelete>>
          /\ mapTransactions' \subseteq mapTransactions \cup {Head(vResurrect)}
      BY <1>14 DEF ResurrectTx, AddToMemoryPool, poolVars
    <2>2. ToSet(vResurrect) = {Head(vResurrect)} \cup ToSet(vResurrect')
      BY <1>1, <2>1, QueueFacts
    <2>3. DeletedLater(mapTransactions)' /\ DeletedLater(ToSet(vResurrect))'
      BY <2>1, <2>2 DEF PoolOutside, DeletedLater
    <2> QED  BY <2>1, <2>3 DEF PoolOutside
  <1>15. CASE ResurrectDone
    <2>1. /\ stage = "resurrect" /\ stage' = "delete" /\ vResurrect' = <<>>
          /\ UNCHANGED <<dbTx, vDelete, mapTransactions>>
      BY <1>15 DEF ResurrectDone, poolVars
    <2> QED  BY <2>1 DEF PoolOutside, DeletedLater
  <1>16. CASE DeleteTx
    <2>1. /\ stage = "delete" /\ vDelete # <<>> /\ vDelete' = Tail(vDelete)
          /\ UNCHANGED <<stage, dbTx, vResurrect>>
          /\ mapTransactions' = mapTransactions \ {Head(vDelete)}
      BY <1>16 DEF DeleteTx, RemoveFromMemoryPool
    <2>2. ToSet(vDelete) = {Head(vDelete)} \cup ToSet(vDelete')
      BY <1>1, <2>1, QueueFacts
    <2>3. DeletedLater(mapTransactions)'
      BY <2>1, <2>2 DEF PoolOutside, DeletedLater
    <2> QED  BY <2>1, <2>3 DEF PoolOutside
  <1>17. CASE NewBestBlock
    <2>1. /\ stage = "delete" /\ vDelete = <<>> /\ stage' = "orphans"
          /\ UNCHANGED <<dbTx, mapTransactions, vResurrect>>
      BY <1>17 DEF NewBestBlock, poolVars
    <2> QED  BY <1>2, <2>1 DEF PoolOutside, DeletedLater
  <1>18. CASE Restart
    BY <1>18 DEF Restart, PoolOutside
  <1>19. CASE UNCHANGED vars
    <2>1. UNCHANGED <<stage, pindexNew, tip, dbTx, dbBest, mapTransactions, vResurrect, vDelete>>
      BY <1>19 DEF vars, poolVars
    <2> QED  BY <2>1 DEF PoolOutside, DeletedLater, FromOldBranch, NewBranchQueued
  <1>20. CASE DisconnectFails \/ ConnectInputsFails \/ ConnectBlockFails \/ TxnCommitFails
    BY <1>12, <1>20 DEF AbortingStep, DisconnectFails, ConnectInputsFails, ConnectBlockFails,
                        TxnCommitFails, ReadyToCommit
  <1>21. CASE Work
    BY <1>4, <1>6, <1>7, <1>8, <1>9, <1>10, <1>11, <1>13, <1>14, <1>15, <1>16, <1>17,
       <1>20, <1>21 DEF Work
  <1>22. CASE Input
    BY <1>4, <1>5, <1>22 DEF Input
  <1> QED  BY <1>18, <1>19, <1>20, <1>21, <1>22 DEF Next, Fault

LEMMA PoolOutsideInvariant == Spec => []PoolOutside
  <1>1. Init => PoolOutside
    BY DEF Init, PoolOutside
  <1>2. NodeInv /\ PoolOutside /\ [Next]_vars => PoolOutside'
    BY PoolOutsideNext
  <1> QED  BY <1>1, <1>2, NodeInvariant, PTL DEF Spec

(* Whenever cs_main is free, no transaction of the block chain is left in   *)
(* the memory pool: what Reorganize puts back from the old branch without   *)
(* looking at its inputs, and what it forgets, is put right by the list of  *)
(* transactions it deletes, for all trees, failures and restarts.           *)
THEOREM PoolHoldsNothingConfirmed ==
    Spec => [](stage = "idle" => \A t \in mapTransactions : ~HasTxIndex(dbTx, t))
  <1>1. PoolOutside => (stage = "idle" => \A t \in mapTransactions : ~HasTxIndex(dbTx, t))
    BY DEF PoolOutside
  <1> QED  BY <1>1, PoolOutsideInvariant, PTL

-----------------------------------------------------------------------------
(* Only outputs of indexed transactions are marked as spent. *)
SpentWithin(tv) ==
    \A t \in Tx : \A k \in tv[t].spent : HasTxIndex(tv, t) /\ k \in 1 .. Len(vout[t])

LEMMA SpentWithinInvariant == Spec => [](SpentWithin(txTx) /\ SpentWithin(dbTx))
  <1>1. Init => SpentWithin(txTx) /\ SpentWithin(dbTx)
    BY DEF Init, NoIndex, SpentWithin
  <1>2. ASSUME NodeInv, SpentWithin(txTx), SpentWithin(dbTx), [Next]_vars
        PROVE  SpentWithin(txTx)' /\ SpentWithin(dbTx)'
    <2>1. txTx \in TxIndexType
      BY <1>2 DEF NodeInv, TypeOK, StoreType
    <2>2. CASE ConnectInputs
      <3> DEFINE t == vtx[tip][nTx + 1]
                 tw == TxConnected(t, tip, nTx + 1, txTx)
      <3>1. txTx' = tw /\ dbTx' = dbTx /\ tip \in Block /\ nTx \in Nat
        BY <1>2, <2>2, ConnectInputsFacts
      <3>2. t \in Tx /\ \A o \in vin[t] : HasTxIndex(txTx, o[1]) /\ o[2] <= Len(vout[o[1]])
        <4>1. nTx < Len(vtx[tip]) /\ vtx[tip] \in Seq(Tx)
          BY <2>2, <3>1, TxAssumption DEF ConnectInputs
        <4>2. t \in Tx
          BY <3>1, <4>1
        <4> QED  BY <1>2, <2>2, <4>2, ConnectInputsFacts DEF Connectable
      <3>3. \A o \in vin[t] : o[2] \in Nat \ {0} /\ Len(vout[o[1]]) \in Nat
        BY <3>2, TxAssumption
      <3>4. nTx + 1 \in Nat
        BY <3>1
      <3> HIDE DEF t
      <3>5. /\ tw[t].spent = {} /\ tw[t].pos = <<tip, nTx + 1>>
            /\ \A u \in Tx \ {t} :
                  /\ tw[u].pos = txTx[u].pos
                  /\ \A k : k \in tw[u].spent <=> k \in txTx[u].spent \/ <<u, k>> \in vin[t]
        BY <2>1, <3>1, <3>2, <3>4, ConnectedRecords
      <3> HIDE DEF tw
      <3>6. ASSUME NEW u \in Tx, NEW k \in tw[u].spent
            PROVE  HasTxIndex(tw, u) /\ k \in 1 .. Len(vout[u])
        <4>1. u # t
          BY <3>5
        <4>2. CASE k \in txTx[u].spent
          BY <1>2, <3>5, <4>1, <4>2 DEF SpentWithin, HasTxIndex
        <4>3. CASE <<u, k>> \in vin[t]
          <5>1. HasTxIndex(txTx, u) /\ k <= Len(vout[u]) /\ k \in Nat \ {0} /\ Len(vout[u]) \in Nat
            BY <3>2, <3>3, <4>3
          <5> QED  BY <3>5, <4>1, <5>1 DEF HasTxIndex
        <4> QED  BY <3>5, <4>1, <4>2, <4>3
      <3> QED  BY <1>2, <3>1, <3>6 DEF SpentWithin
    <2>3. CASE DisconnectInputs
      <3> DEFINE t == vtx[tip][nTx]
                 tw == TxDisconnected(t, txTx)
      <3>1. txTx' = tw /\ dbTx' = dbTx
        BY <1>2, <2>3, DisconnectInputsFacts
      <3>2. ASSUME NEW u \in Tx, NEW k \in tw[u].spent
            PROVE  u # t /\ tw[u].pos = txTx[u].pos /\ k \in txTx[u].spent
        <4>1. txTx[u] \in [pos : (Block \cup {NoBlock}) \X Nat, spent : SUBSET Nat]
          BY <2>1, IndexRecord
        <4> HIDE DEF t
        <4> QED  BY <3>2, <4>1 DEF TxDisconnected
      <3> HIDE DEF tw, t
      <3> QED  BY <1>2, <3>1, <3>2 DEF SpentWithin, HasTxIndex
    <2> QED  BY <1>2, <2>2, <2>3, ViewSteps DEF SpentWithin
  <1> QED  BY <1>1, <1>2, NodeInvariant, PTL DEF Spec
=============================================================================
