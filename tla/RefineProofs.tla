---------------------------- MODULE RefineProofs ----------------------------
(***************************************************************************)
(* The node implements the abstract ledger: what ConnectInputs accepts one *)
(* transaction at a time, from two indices, is what LedgerRules says of    *)
(* whole chains, and only a commit of SetBestChain changes the ledger.     *)
(***************************************************************************)
EXTENDS NodeProofs, NodeRefine

(* The fees of a block are added up one transaction at a time. *)
LEMMA FeesAreSums ==
    \A b \in Block \ {Genesis} :
        /\ FeesUpTo(b, 0) = 0 /\ FeesUpTo(b, 1) = 0
        /\ \A i \in 2 .. Len(vtx[b]) :
              /\ FeesUpTo(b, i) =
                   FeesUpTo(b, i - 1) + GetValueIn(vtx[b][i]) - GetValueOut(vtx[b][i])
              /\ FeesUpTo(b, i - 1) \in Int
  <1> TAKE b \in Block \ {Genesis}
  <1> DEFINE Fee(i) == GetValueIn(vtx[b][i]) - GetValueOut(vtx[b][i])
             f(n) == [i \in 2 .. n |-> Fee(i)]
  <1>1. \A n : FeesUpTo(b, n) = SumFunctionOnSet(f(n), 2 .. n)
    BY DEF FeesUpTo, SumFunction
  <1>2. vtx[b] \in Seq(Tx)
    BY TxAssumption
  <1>3. ASSUME NEW i \in 2 .. Len(vtx[b])
        PROVE  Fee(i) \in Int /\ GetValueIn(vtx[b][i]) \in Nat /\ GetValueOut(vtx[b][i]) \in Nat
    <2>1. vtx[b][i] \in Tx
      BY <1>2
    <2> QED  BY <2>1, Values
  <1>4. ASSUME NEW n \in 0 .. 1 PROVE FeesUpTo(b, n) = 0
    <2>1. 2 .. n = {}
      OBVIOUS
    <2>2. IsFiniteSet({}) /\ IntOn(f(n), {})
      BY FS_EmptySet DEF IntOn
    <2>3. SumFunctionOnSet(f(n), {}) = 0
      <3> HIDE DEF f
      <3> QED  BY <2>2, SumUnfolds
    <2> QED  BY <1>1, <2>1, <2>3
  <1>5. ASSUME NEW i \in 2 .. Len(vtx[b])
        PROVE  /\ FeesUpTo(b, i) = FeesUpTo(b, i - 1) + GetValueIn(vtx[b][i]) - GetValueOut(vtx[b][i])
               /\ FeesUpTo(b, i - 1) \in Int
    <2> DEFINE S == 2 .. i - 1
               g == f(i)
               k == f(i - 1)
    <2>1. i \in Nat /\ i - 1 \in Nat /\ Len(vtx[b]) \in Nat
      BY <1>2
    <2>2. IsFiniteSet(S)
      BY <2>1, FS_Interval
    <2>3. 2 .. i = S \cup {i} /\ i \notin S
      BY <2>1
    <2>4. \A j \in S : j \in 2 .. Len(vtx[b]) /\ j \in 2 .. i
      BY <2>1
    <2>5. (\A j \in S : k[j] = g[j]) /\ g[i] = Fee(i) /\ g[i] \in Int
      BY <1>3, <2>4
    <2>6. IntOn(k, S) /\ IntOn(g, S)
      BY <1>3, <2>4 DEF IntOn
    <2>7. FeesUpTo(b, i) = SumFunctionOnSet(g, S \cup {i}) /\ FeesUpTo(b, i - 1) = SumFunctionOnSet(k, S)
      BY <1>1, <2>3
    <2> HIDE DEF S, g, k, Fee
    <2>8. SumFunctionOnSet(g, S \cup {i}) = SumFunctionOnSet(g, S) + g[i]
      BY <2>2, <2>3, <2>5, <2>6, SumAdd
    <2>9. SumFunctionOnSet(k, S) = SumFunctionOnSet(g, S)
      BY <2>2, <2>5, <2>6, SumCongruence
    <2>10. SumFunctionOnSet(g, S) \in Int
      BY <2>2, <2>6, SumUnfolds
    <2> DEFINE a == SumFunctionOnSet(g, S)
    <2>11. a \in Int /\ FeesUpTo(b, i) = a + Fee(i) /\ FeesUpTo(b, i - 1) = a
      BY <2>5, <2>7, <2>8, <2>9, <2>10
    <2> HIDE DEF a
    <2> QED  BY <1>3, <2>11 DEF Fee
  <1> QED  BY <1>4, <1>5

(* The positions of a chain. *)
LEMMA PositionsOf ==
    ASSUME NEW e \in Block, NEW q
    PROVE  q \in Positions(e) <=>
              /\ q = <<q[1], q[2]>> /\ q[1] \in Ancestors[e] \ {Genesis}
              /\ q[2] \in 1 .. Len(vtx[q[1]])
  <1>1. \A a \in Ancestors[e] : a \in Block /\ DOMAIN vtx[a] = 1 .. Len(vtx[a])
    <2> TAKE a \in Ancestors[e]
    <2>1. a \in Block
      BY BlockTree
    <2>2. vtx[a] \in Seq(Tx)
      BY <2>1, TxAssumption
    <2> QED  BY <2>1, <2>2
  <1>2. ASSUME q \in Positions(e)
        PROVE  \E a \in Ancestors[e] \ {Genesis} : q \in {a} \X DOMAIN vtx[a]
    BY <1>2 DEF Positions
  <1>3. ASSUME NEW a \in Ancestors[e] \ {Genesis}, q \in {a} \X DOMAIN vtx[a]
        PROVE  q \in Positions(e)
    BY <1>3 DEF Positions
  <1>4. ASSUME q \in Positions(e)
        PROVE  /\ q = <<q[1], q[2]>> /\ q[1] \in Ancestors[e] \ {Genesis}
               /\ q[2] \in 1 .. Len(vtx[q[1]])
    BY <1>1, <1>2, <1>4
  <1>5. ASSUME /\ q = <<q[1], q[2]>> /\ q[1] \in Ancestors[e] \ {Genesis}
               /\ q[2] \in 1 .. Len(vtx[q[1]])
        PROVE  q \in Positions(e)
    <2>1. q \in {q[1]} \X DOMAIN vtx[q[1]]
      BY <1>1, <1>5
    <2> QED  BY <1>3, <1>5, <2>1
  <1> QED  BY <1>4, <1>5

(* The positions before transaction m + 1 of block e are those of the chain *)
(* up to transaction m.                                                     *)
LEMMA EarlierPositions ==
    ASSUME NEW e \in Block \ {Genesis}, NEW m \in Nat, NEW q
    PROVE  q \in Earlier(<<e, m + 1>>) <=>
              q = <<q[1], q[2]>> /\ InChain(q[1], q[2], e, m)
  <1>1. q \in Earlier(<<e, m + 1>>) <=>
           /\ q \in Positions(e)
           /\ nHeight[q[1]] < nHeight[e] \/ (q[1] = e /\ q[2] < m + 1)
    BY DEF Earlier, Before
  <1>2. ASSUME q[1] \in Ancestors[e]
        PROVE  /\ nHeight[q[1]] \in Nat /\ nHeight[e] \in Nat
               /\ q[1] # e <=> nHeight[q[1]] < nHeight[e]
    BY <1>2, Ancestry, HeightOnChain
  <1>3. q[2] \in 1 .. Len(vtx[q[1]]) => q[2] \in Int
    OBVIOUS
  <1> QED  BY <1>1, <1>2, <1>3, PositionsOf DEF InChain

(* The index holds the transactions at those positions, and no others. *)
LEMMA IndexedPositions ==
    ASSUME NEW tv, NEW e \in Block, NEW m, ChainView(tv, e, m)
    PROVE  /\ \A q : q = <<q[1], q[2]>> /\ InChain(q[1], q[2], e, m) =>
                 TxAt(q) \in IndexedTx(tv) /\ tv[TxAt(q)].pos = q
           /\ \A u \in IndexedTx(tv) :
                 TxAt(tv[u].pos) = u /\ InChain(tv[u].pos[1], tv[u].pos[2], e, m)
  <1>1. ASSUME NEW q, q = <<q[1], q[2]>>, InChain(q[1], q[2], e, m)
        PROVE  TxAt(q) \in IndexedTx(tv) /\ tv[TxAt(q)].pos = q
    <2>1. q[1] \in Block /\ q[2] \in 1 .. Len(vtx[q[1]]) /\ q[1] # NoBlock
      BY <1>1, BlockTree DEF InChain
    <2>2. TxAt(q) \in Tx
      BY <2>1, TxAssumption DEF TxAt
    <2>3. tv[TxAt(q)].pos = q
      BY <1>1, <2>1 DEF ChainView, IndexIsChain, PosOf, TxAt
    <2>4. q # NoPos
      BY <1>1, <2>1 DEF NoPos
    <2> QED  BY <2>2, <2>3, <2>4 DEF IndexedTx, HasTxIndex
  <1>2. \A u \in IndexedTx(tv) :
           TxAt(tv[u].pos) = u /\ InChain(tv[u].pos[1], tv[u].pos[2], e, m)
    BY DEF ChainView, IndexIsChain, IndexedTx, TxAt
  <1> QED  BY <1>1, <1>2

LEMMA EarlierIndexed ==
    ASSUME NEW tv \in TxIndexType, NEW e \in Block \ {Genesis}, NEW m \in Nat,
           ChainView(tv, e, m)
    PROVE  /\ \A q \in Earlier(<<e, m + 1>>) :
                 /\ TxAt(q) \in IndexedTx(tv) /\ tv[TxAt(q)].pos = q
                 /\ q[1] \in Ancestors[e]
           /\ \A u \in IndexedTx(tv) :
                 tv[u].pos \in Earlier(<<e, m + 1>>) /\ TxAt(tv[u].pos) = u
  <1>1. ASSUME NEW u \in IndexedTx(tv) PROVE tv[u].pos = <<tv[u].pos[1], tv[u].pos[2]>>
    BY IndexRecord DEF IndexedTx
  <1>2. \A u \in IndexedTx(tv) :
           tv[u].pos \in Earlier(<<e, m + 1>>) /\ TxAt(tv[u].pos) = u
    BY <1>1, IndexedPositions, EarlierPositions
  <1>3. ASSUME NEW q \in Earlier(<<e, m + 1>>)
        PROVE  TxAt(q) \in IndexedTx(tv) /\ tv[TxAt(q)].pos = q /\ q[1] \in Ancestors[e]
    <2>1. q = <<q[1], q[2]>> /\ InChain(q[1], q[2], e, m)
      BY EarlierPositions
    <2>2. TxAt(q) \in IndexedTx(tv) /\ tv[TxAt(q)].pos = q
      BY <2>1, IndexedPositions
    <2>3. q[1] \in Ancestors[e]
      BY <2>1 DEF InChain
    <2> QED  BY <2>2, <2>3
  <1> QED  BY <1>2, <1>3
-----------------------------------------------------------------------------
(* Validation of one transaction                                           *)

(* The walk of CheckTransactionAtRelativeDepth, as an age. *)
LEMMA DepthIsAge ==
    ASSUME NEW e \in Block, NEW i, NEW q, q[1] \in Ancestors[e], NEW d \in Int
    PROVE  LET age == Age(q, <<e, i>>)
           IN  /\ age \in Nat
               /\ CheckTransactionAtRelativeDepth(e, q, d) = -1 => age >= d
               /\ CheckTransactionAtRelativeDepth(e, q, d) >= 0 => age < d
  <1>1. nHeight[q[1]] \in Nat /\ nHeight[e] \in Nat /\ nHeight[q[1]] <= nHeight[e]
    BY HeightOnChain
  <1>2. Age(q, <<e, i>>) = nHeight[e] - nHeight[q[1]]
    BY DEF Age
  <1> QED  BY <1>1, <1>2 DEF CheckTransactionAtRelativeDepth

(* Every connected transaction finds its inputs, and nobody spent them. *)
LEMMA FindsInputs ==
    ASSUME NEW tv \in TxIndexType, NEW e \in Block \ {Genesis}, NEW m \in Nat,
           ChainView(tv, e, m), m < Len(vtx[e]),
           InputsOK(vtx[e][m + 1], e, tv, "block", {})
    PROVE  InputsAvailable(<<e, m + 1>>)
  <1> DEFINE p == <<e, m + 1>>
             t == vtx[e][m + 1]
  <1>1. TxAt(p) = t /\ t \in Tx /\ COINBASE_MATURITY \in Nat
    BY TxAssumption DEF TxAt
  <1>2. ASSUME NEW o \in vin[t]
        PROVE  /\ o[1] \in IndexedTx(tv) /\ o = <<o[1], o[2]>> /\ o[2] \in Nat \ {0}
               /\ o[2] <= Len(vout[o[1]]) /\ o[2] \notin tv[o[1]].spent
               /\ o[2] \in 1 .. Len(vout[o[1]])
               /\ IsCoinBase(o[1]) =>
                     CheckTransactionAtRelativeDepth(e, tv[o[1]].pos, COINBASE_MATURITY) = -1
    <2>1. InputOK(o, e, tv, "block", {})
      BY DEF InputsOK
    <2>2. o[1] \in Tx /\ o = <<o[1], o[2]>> /\ o[2] \in Nat \ {0}
      BY <1>1, TxAssumption
    <2>3. vout[o[1]] \in Seq(TxOut)
      BY <2>2, TxAssumption
    <2>4. /\ HasTxIndex(tv, o[1]) /\ o[2] <= Len(vout[o[1]]) /\ o[2] \notin tv[o[1]].spent
          /\ IsCoinBase(o[1]) =>
                CheckTransactionAtRelativeDepth(e, tv[o[1]].pos, COINBASE_MATURITY) = -1
      BY <2>1 DEF InputOK
    <2>5. o[2] \in 1 .. Len(vout[o[1]])
      BY <2>2, <2>3, <2>4
    <2> QED  BY <2>2, <2>4, <2>5 DEF IndexedTx
  <1> HIDE DEF t
  <1>3. ASSUME NEW o \in vin[t]
        PROVE  \E q \in Earlier(p) :
                  /\ TxAt(q) = o[1] /\ o[2] <= Len(vout[o[1]])
                  /\ IsCoinBase(o[1]) => Age(q, p) >= COINBASE_MATURITY
    <2> DEFINE q == tv[o[1]].pos
    <2>1. q \in Earlier(p) /\ TxAt(q) = o[1] /\ q[1] \in Ancestors[e]
      BY <1>2, EarlierIndexed
    <2>2. IsCoinBase(o[1]) => Age(q, p) >= COINBASE_MATURITY
      BY <1>1, <1>2, <2>1, DepthIsAge
    <2> QED  BY <1>2, <2>1, <2>2
  <1>4. ASSUME NEW o \in vin[t], NEW q \in Earlier(p) PROVE o \notin vin[TxAt(q)]
    <2>1. TxAt(q) \in IndexedTx(tv)
      BY EarlierIndexed
    <2> QED  BY <1>2, <2>1 DEF ChainView, OutputsSpentOnce
  <1> QED  BY <1>1, <1>3, <1>4 DEF InputsAvailable

(* The last of some positions that are in order. *)
LEMMA LastInOrder ==
    ASSUME NEW P, NEW l \in P, \A q \in P : q[1] \in Block /\ q[2] \in Nat,
           \A q \in P : q = l \/ Before(q, l)
    PROVE  LastOf(P) = l
  <1>1. ASSUME NEW q \in P, \A r \in P : r = q \/ Before(r, q) PROVE q = l
    <2>1. q = l \/ (Before(q, l) /\ Before(l, q))
      BY <1>1
    <2>2. nHeight[q[1]] \in Nat /\ nHeight[l[1]] \in Nat /\ q[2] \in Nat /\ l[2] \in Nat
      BY BlockTree
    <2> QED  BY <2>1, <2>2 DEF Before
  <1> QED  BY <1>1 DEF LastOf

(* The index lists the operations on a name, in their order. *)
LEMMA EntriesAreOps ==
    ASSUME NEW tv \in TxIndexType, NEW nv, NameIndexType(nv), NEW e \in Block, NEW m,
           ChainView(tv, e, m), NameView(tv, nv), Registered(tv, nv), NEW n,
           NEW P, \A q \in P : TxAt(q) \in IndexedTx(tv) /\ tv[TxAt(q)].pos = q,
           \A u \in IndexedTx(tv) : tv[u].pos \in P /\ TxAt(tv[u].pos) = u
    PROVE  /\ \A q : q \in OpsOn(n, P) <=> \E k \in DOMAIN VtxPos(nv, n) : VtxPos(nv, n)[k].pos = q
           /\ \A k \in DOMAIN VtxPos(nv, n) :
                 VtxPos(nv, n)[k] \in CNameIndex
                 /\ VtxPos(nv, n)[k].nHeight = nHeight[VtxPos(nv, n)[k].pos[1]]
           /\ \A k, l \in DOMAIN VtxPos(nv, n) :
                 k < l => Before(VtxPos(nv, n)[k].pos, VtxPos(nv, n)[l].pos)
  <1> DEFINE s == VtxPos(nv, n)
  <1>1. ASSUME NEW k \in DOMAIN s
        PROVE  /\ n \in DOMAIN nv /\ s = nv[n] /\ s[k] \in CNameIndex
               /\ s[k].nHeight = nHeight[s[k].pos[1]]
               /\ TxAt(s[k].pos) \in IndexedTx(tv) /\ tv[TxAt(s[k].pos)].pos = s[k].pos
               /\ NamePopped(TxAt(s[k].pos)) /\ NameOut(TxAt(s[k].pos)).name = n
    <2>1. n \in DOMAIN nv /\ s = nv[n]
      BY DEF VtxPos
    <2>2. EntryOK(tv, nv, n, k)
      BY <2>1 DEF NameView
    <2> QED  BY <2>1, <2>2, EntryPosition DEF EntryOK
  <1>2. ASSUME NEW k \in DOMAIN s PROVE s[k].pos \in OpsOn(n, P)
    BY <1>1 DEF OpsOn, NameOpOn, NamePopped
  <1>3. ASSUME NEW q \in OpsOn(n, P) PROVE \E k \in DOMAIN s : s[k].pos = q
    <2>1. /\ TxAt(q) \in IndexedTx(tv) /\ tv[TxAt(q)].pos = q
          /\ NamePopped(TxAt(q)) /\ NameOut(TxAt(q)).name = n
      BY DEF OpsOn, NameOpOn, NamePopped
    <2> QED  BY <2>1 DEF Registered, HasEntry, EntryAt, VtxPos
  <1>4. \A k, l \in DOMAIN s : k < l => Before(s[k].pos, s[l].pos)
    BY <1>1 DEF NameView, HistoryOrdered, Before, Precedes
  <1> QED  BY <1>1, <1>2, <1>3, <1>4

(* The last entry of a name is its last operation before transaction m + 1. *)
LEMMA LastEntry ==
    ASSUME NEW tv \in TxIndexType, NEW nv, NameIndexType(nv), NEW e \in Block \ {Genesis},
           NEW m \in Nat, ChainView(tv, e, m), NameView(tv, nv), Registered(tv, nv), NEW n
    PROVE  LET s   == VtxPos(nv, n)
               ops == OpsOn(n, Earlier(<<e, m + 1>>))
           IN  /\ ops = {} <=> s = <<>>
               /\ s # <<>> =>
                     /\ LastOf(ops) = s[Len(s)].pos /\ LastOf(ops)[1] \in Ancestors[e]
                     /\ GetNameHeight(nv, n) = nHeight[LastOf(ops)[1]]
  <1> DEFINE s   == VtxPos(nv, n)
             E   == Earlier(<<e, m + 1>>)
             ops == OpsOn(n, E)
  <1>1. /\ \A q \in E : TxAt(q) \in IndexedTx(tv) /\ tv[TxAt(q)].pos = q /\ q[1] \in Ancestors[e]
        /\ \A u \in IndexedTx(tv) : tv[u].pos \in E /\ TxAt(tv[u].pos) = u
    BY EarlierIndexed
  <1>2. s \in Seq(CNameIndex)
    BY VtxPosType
  <1> HIDE DEF E
  <1>3. /\ \A q : q \in ops <=> \E k \in DOMAIN s : s[k].pos = q
        /\ \A k \in DOMAIN s : s[k] \in CNameIndex /\ s[k].nHeight = nHeight[s[k].pos[1]]
        /\ \A k, l \in DOMAIN s : k < l => Before(s[k].pos, s[l].pos)
    BY <1>1, EntriesAreOps
  <1>4. GetNameHeight(nv, n) = IF s = <<>> THEN -1 ELSE s[Len(s)].nHeight
    BY DEF GetNameHeight
  <1>5. ops \subseteq E
    BY DEF OpsOn
  <1> HIDE DEF s, ops
  <1>6. s = <<>> => ops = {}
    BY <1>3
  <1>7. ASSUME s # <<>>
        PROVE  /\ ops # {} /\ LastOf(ops) = s[Len(s)].pos /\ LastOf(ops)[1] \in Ancestors[e]
               /\ GetNameHeight(nv, n) = nHeight[LastOf(ops)[1]]
    <2> DEFINE l == s[Len(s)].pos
    <2>1. Len(s) \in DOMAIN s /\ DOMAIN s = 1 .. Len(s) /\ Len(s) \in Nat
      BY <1>2, <1>7
    <2>2. l \in ops
      BY <1>3, <2>1
    <2>3. \A q \in ops : q[1] \in Block /\ q[2] \in Nat
      <3> TAKE q \in ops
      <3>1. PICK k \in DOMAIN s : s[k].pos = q
        BY <1>3
      <3>2. s[k] \in CNameIndex
        BY <1>3
      <3> QED  BY <3>1, <3>2 DEF CNameIndex
    <2>4. \A q \in ops : q = l \/ Before(q, l)
      <3> TAKE q \in ops
      <3>1. PICK k \in DOMAIN s : s[k].pos = q
        BY <1>3
      <3>2. k = Len(s) \/ k < Len(s)
        BY <2>1
      <3> QED  BY <1>3, <2>1, <3>1, <3>2
    <2>5. LastOf(ops) = l
      BY <2>2, <2>3, <2>4, LastInOrder
    <2> QED  BY <1>1, <1>3, <1>4, <1>5, <1>7, <2>1, <2>2, <2>5
  <1> QED  BY <1>6, <1>7 DEF s, ops, E

(* What ConnectBlock has found when it connects a transaction other than    *)
(* the coinbase is that the transaction is valid on its chain.              *)
LEMMA ConnectsValid ==
    ASSUME ModernRules, NEW tv \in TxIndexType, NEW nv, NameIndexType(nv),
           NEW e \in Block \ {Genesis}, NEW m \in Nat, m < Len(vtx[e]),
           ChainView(tv, e, m), NameView(tv, nv), Registered(tv, nv),
           InputsOK(vtx[e][m + 1], e, tv, "block", {}),
           HookConnectInputs(vtx[e][m + 1], e, tv, nv, "block", {}, {}),
           TxFee(vtx[e][m + 1]) >= 0
    PROVE  ValidTx(<<e, m + 1>>)
  <1> DEFINE p == <<e, m + 1>>
             t == vtx[e][m + 1]
             o == NameInput(t)
             n == NameOut(t).name
             s == VtxPos(nv, n)
             ops == OpsOn(n, Earlier(p))
             h == nHeight[e]
  <1>1. /\ TxAt(p) = t /\ t \in Tx /\ p[1] = e /\ h \in Nat
        /\ postLibcoinFork(h) /\ doStrictChecks(h)
    BY TxAssumption, BlockTree DEF TxAt, ModernRules
  <1>2. InputsAvailable(p)
    BY FindsInputs
  <1>3. GetValueIn(t) >= GetValueOut(t)
    BY <1>1, Values DEF TxFee
  <1>4. /\ ops = {} <=> s = <<>>
        /\ s # <<>> => /\ LastOf(ops) = s[Len(s)].pos /\ LastOf(ops)[1] \in Ancestors[e]
                       /\ GetNameHeight(nv, n) = nHeight[LastOf(ops)[1]]
    BY LastEntry
  <1>5. /\ HookConnectInputs(t, e, tv, nv, "block", {}, {})
        /\ InputsOK(t, e, tv, "block", {})
    OBVIOUS
  <1> HIDE DEF t
  <1>6. NameCoinsSpent(t) = NameInputs(t)
    BY DEF NameCoinsSpent, NameInputs
  <1>7. CASE ~isNameTx[t]
    <2>1. NameOutputs(t) = {} /\ NameCoinsSpent(t) = {}
      BY <1>1, <1>5, <1>6, <1>7 DEF HookConnectInputs
    <2> QED  BY <1>1, <1>2, <1>3, <1>7, <2>1 DEF ValidTx
  <1>8. CASE isNameTx[t]
    <2>1. /\ NameOut(t).nValue >= MIN_AMOUNT
          /\ \/ NameOut(t).op = "new" /\ CheckNameNew(t)
             \/ /\ NameOut(t).op = "firstupdate"
                /\ CheckFirstUpdate(t, e, tv, nv, "block", {}, {})
             \/ NameOut(t).op = "update" /\ CheckNameUpdate(t, e, tv, "block")
          /\ ~Mismatch(t) => ~OnTopOfBug(t, tv, nv)
      BY <1>1, <1>5, <1>8 DEF HookConnectInputs
    <2>2. ASSUME NameOut(t).op \in {"firstupdate", "update"}
          PROVE  /\ o \in vin[t] /\ NameCoinsSpent(t) = {o} /\ ~Mismatch(t)
                 /\ o[1] \in IndexedTx(tv) /\ tv[o[1]].pos[1] \in Ancestors[e]
                 /\ TxAt(tv[o[1]].pos) = o[1]
      <3>1. o \in vin[t] /\ NameInputs(t) = {o} /\ ~Mismatch(t)
        BY <1>1, <1>5, <1>8, <2>2, HookFacts
      <3>2. o[1] \in IndexedTx(tv)
        <4>1. o[1] \in Tx
          BY <1>1, <3>1, TxAssumption
        <4> QED  BY <1>5, <3>1, <4>1 DEF InputsOK, InputOK, IndexedTx
      <3> QED  BY <1>6, <3>1, <3>2, EarlierIndexed
    <2>3. CASE NameOut(t).op = "new"
      BY <1>1, <1>2, <1>3, <1>6, <1>8, <2>1, <2>3 DEF ValidTx, CheckNameNew
    <2>4. CASE NameOut(t).op = "firstupdate"
      <3>1. /\ GetNameNetFee(t) >= GetNetworkFee(h) /\ Out(o).op = "new"
            /\ LET g == GetNameHeight(nv, n) IN ~(g >= 0 /\ NameUnexpired(g, h))
            /\ CheckTransactionAtRelativeDepth(e, tv[o[1]].pos, MIN_FIRSTUPDATE_DEPTH) = -1
        BY <2>1, <2>4 DEF CheckFirstUpdate
      <3>2. Out(o).name = n /\ Out(o).rand = NameOut(t).rand
        BY <2>2, <2>4 DEF Mismatch
      <3>3. ASSUME ops # {} PROVE Age(LastOf(ops), p) >= GetExpirationDepth(h)
        <4>1. GetNameHeight(nv, n) = nHeight[LastOf(ops)[1]] /\ LastOf(ops)[1] \in Ancestors[e]
          BY <1>4, <3>3
        <4>2. nHeight[LastOf(ops)[1]] \in Nat
          BY <4>1, HeightOnChain
        <4>3. ~NameUnexpired(nHeight[LastOf(ops)[1]], h)
          BY <3>1, <4>1, <4>2
        <4>4. GetExpirationDepth(h) \in Int
          BY <1>1, RulesAssumption DEF GetExpirationDepth
        <4> HIDE DEF ops
        <4> QED  BY <1>1, <4>2, <4>3, <4>4 DEF NameUnexpired, Age
      <3>4. ASSUME NEW q \in Earlier(p), TxAt(q) = o[1]
            PROVE  Age(q, p) >= MIN_FIRSTUPDATE_DEPTH
        <4>1. q = tv[o[1]].pos
          BY <3>4, EarlierIndexed
        <4>2. MIN_FIRSTUPDATE_DEPTH \in Int
          BY TxAssumption
        <4> QED  BY <2>2, <2>4, <3>1, <4>1, <4>2, DepthIsAge
      <3>5. OpensName(p)
        BY <1>1, <2>2, <2>4, <3>1, <3>2, <3>3, <3>4 DEF OpensName
      <3> QED  BY <1>1, <1>2, <1>3, <1>8, <2>1, <2>4, <3>5 DEF ValidTx
    <2>5. CASE NameOut(t).op = "update"
      <3>1. CheckTransactionAtRelativeDepth(e, tv[o[1]].pos, GetExpirationDepth(h)) >= 0
        BY <2>1, <2>5 DEF CheckNameUpdate
      <3>2. s # <<>> /\ s[Len(s)].pos = tv[o[1]].pos
        BY <2>1, <2>2, <2>5 DEF OnTopOfBug, CheckNameTxPos
      <3>3. ops # {} /\ LastOf(ops) = tv[o[1]].pos
        BY <1>4, <3>2
      <3>4. Out(o).name = n
        BY <2>2, <2>5 DEF Mismatch
      <3>5. GetExpirationDepth(h) \in Int
        BY <1>1, RulesAssumption DEF GetExpirationDepth
      <3>6. Age(LastOf(ops), p) < GetExpirationDepth(h)
        BY <2>2, <2>5, <3>1, <3>3, <3>5, DepthIsAge
      <3>7. KeepsName(p)
        BY <1>1, <2>2, <2>5, <3>3, <3>4, <3>6 DEF KeepsName
      <3> QED  BY <1>1, <1>2, <1>3, <1>8, <2>1, <2>5, <3>7 DEF ValidTx
    <2> QED  BY <2>1, <2>3, <2>4, <2>5
  <1> QED  BY <1>7, <1>8
-----------------------------------------------------------------------------
(* The indices as the ledger of the whole chain                            *)

(* The images under an injection of 1 .. i. *)
LEMMA ImageCardinality ==
    ASSUME NEW f, NEW i \in Nat, \A k, l \in 1 .. i : f[k] = f[l] => k = l
    PROVE  Cardinality({f[k] : k \in 1 .. i}) = i
  <1> DEFINE S == {f[k] : k \in 1 .. i}
             g == [k \in 1 .. i |-> f[k]]
  <1>1. g \in Bijection(1 .. i, S)
    BY DEF Bijection, Injection, Surjection, IsInjective
  <1>2. IsFiniteSet(1 .. i) /\ Cardinality(1 .. i) = i
    BY FS_Interval
  <1>3. ExistsBijection(1 .. i, S)
    BY <1>1 DEF ExistsBijection
  <1> QED  BY <1>2, <1>3, FS_Bijection

(* An ordered list of the positions P is P in order. *)
LEMMA ListInOrder ==
    ASSUME NEW P, NEW N \in Nat, NEW f, DOMAIN f = 1 .. N, f = [k \in 1 .. N |-> f[k]],
           \A q : q \in P <=> \E k \in 1 .. N : f[k] = q,
           \A q \in P : q[1] \in Block /\ q[2] \in Nat,
           \A k, l \in 1 .. N : k < l => Before(f[k], f[l])
    PROVE  f = InOrder(P)
  <1>1. ASSUME NEW q \in P, NEW r \in P PROVE ~(Before(q, r) /\ Before(r, q))
    <2>1. nHeight[q[1]] \in Nat /\ nHeight[r[1]] \in Nat /\ q[2] \in Nat /\ r[2] \in Nat
      BY BlockTree
    <2> QED  BY <2>1 DEF Before
  <1>2. \A k \in 1 .. N : f[k] \in P
    OBVIOUS
  <1>3. ASSUME NEW k \in 1 .. N, NEW l \in 1 .. N PROVE Before(f[k], f[l]) <=> k < l
    <2>1. k < l \/ k = l \/ l < k
      OBVIOUS
    <2>2. ~Before(f[k], f[k])
      BY <1>1, <1>2
    <2> QED  BY <1>1, <1>2, <2>1, <2>2
  <1>4. \A k, l \in 1 .. N : f[k] = f[l] => k = l
    BY <1>3
  <1>5. Cardinality(P) = N
    <2>1. P = {f[k] : k \in 1 .. N}
      OBVIOUS
    <2> QED  BY <1>4, <2>1, ImageCardinality
  <1>6. ASSUME NEW l \in 1 .. N PROVE Cardinality({q \in P : Before(q, f[l])}) = l - 1
    <2>1. {q \in P : Before(q, f[l])} = {f[k] : k \in 1 .. l - 1}
      <3>1. ASSUME NEW q \in P, Before(q, f[l]) PROVE q \in {f[k] : k \in 1 .. l - 1}
        <4>1. PICK k \in 1 .. N : f[k] = q
          OBVIOUS
        <4>2. k < l
          BY <1>3, <3>1, <4>1
        <4>3. k \in 1 .. l - 1
          BY <4>2
        <4> QED  BY <4>1, <4>3
      <3>2. ASSUME NEW k \in 1 .. l - 1 PROVE f[k] \in P /\ Before(f[k], f[l])
        BY <1>2
      <3> QED  BY <3>1, <3>2
    <2> DEFINE i == l - 1
    <2>2. i \in Nat /\ \A k, j \in 1 .. i : f[k] = f[j] => k = j
      BY <1>4
    <2>3. {q \in P : Before(q, f[l])} = {f[k] : k \in 1 .. i}
      BY <2>1
    <2> HIDE DEF i
    <2>4. Cardinality({f[k] : k \in 1 .. i}) = i
      BY <2>2, ImageCardinality, ZenonT(40)
    <2> QED  BY <2>3, <2>4 DEF i
  <1>7. ASSUME NEW i \in 1 .. N
        PROVE  f[i] = CHOOSE p \in P : Cardinality({q \in P : Before(q, p)}) = i - 1
    <2>1. ASSUME NEW p \in P, Cardinality({q \in P : Before(q, p)}) = i - 1 PROVE p = f[i]
      <3>1. PICK l \in 1 .. N : f[l] = p
        OBVIOUS
      <3>2. l - 1 = i - 1
        BY <1>6, <2>1, <3>1
      <3> QED  BY <3>1, <3>2
    <2> QED  BY <1>2, <1>6, <2>1
  <1> QED  BY <1>5, <1>7 DEF InOrder

(* The positions of a whole chain. *)
LEMMA WholeChain ==
    ASSUME NEW tv \in TxIndexType, NEW e \in Block, ChainView(tv, e, Len(vtx[e]))
    PROVE  /\ \A q \in Positions(e) : TxAt(q) \in IndexedTx(tv) /\ tv[TxAt(q)].pos = q
           /\ \A u \in IndexedTx(tv) : tv[u].pos \in Positions(e) /\ TxAt(tv[u].pos) = u
  <1>1. ASSUME NEW u \in IndexedTx(tv) PROVE tv[u].pos = <<tv[u].pos[1], tv[u].pos[2]>>
    BY IndexRecord DEF IndexedTx
  <1>2. \A u \in IndexedTx(tv) : tv[u].pos \in Positions(e) /\ TxAt(tv[u].pos) = u
    BY <1>1, IndexedPositions, PositionsOf DEF InChain
  <1>3. ASSUME NEW q \in Positions(e)
        PROVE  TxAt(q) \in IndexedTx(tv) /\ tv[TxAt(q)].pos = q
    <2>1. /\ q = <<q[1], q[2]>> /\ q[1] \in Ancestors[e] \ {Genesis}
          /\ q[2] \in 1 .. Len(vtx[q[1]])
      BY PositionsOf
    <2>2. InChain(q[1], q[2], e, Len(vtx[e]))
      BY <2>1 DEF InChain
    <2> QED  BY <2>1, <2>2, IndexedPositions
  <1> QED  BY <1>2, <1>3

(* The spent flags of the index are the unspent outputs of the chain. *)
LEMMA UnspentIsChain ==
    ASSUME NEW tv \in TxIndexType, NEW e \in Block, ChainView(tv, e, Len(vtx[e]))
    PROVE  {o \in OutPoint : HasTxIndex(tv, o[1]) /\ o[2] \notin tv[o[1]].spent
                             /\ o[2] <= Len(vout[o[1]])} = UnspentOf[e]
  <1>1. /\ \A q \in Positions(e) : TxAt(q) \in IndexedTx(tv) /\ tv[TxAt(q)].pos = q
        /\ \A u \in IndexedTx(tv) : tv[u].pos \in Positions(e) /\ TxAt(tv[u].pos) = u
    BY WholeChain
  <1>2. ASSUME NEW o \in OutPoint
        PROVE  HasTxIndex(tv, o[1]) /\ o[2] \notin tv[o[1]].spent /\ o[2] <= Len(vout[o[1]])
               <=> /\ \E p \in Positions(e) : TxAt(p) = o[1] /\ o[2] <= Len(vout[o[1]])
                   /\ \A p \in Positions(e) : o \notin vin[TxAt(p)]
    <2>1. o[1] \in Tx /\ o = <<o[1], o[2]>> /\ o[2] \in Nat \ {0}
      <3>1. PICK t \in Tx : o \in vin[t]
        BY DEF OutPoint
      <3> QED  BY <3>1, TxAssumption
    <2>2. vout[o[1]] \in Seq(TxOut)
      BY <2>1, TxAssumption
    <2>3. HasTxIndex(tv, o[1]) <=> \E p \in Positions(e) : TxAt(p) = o[1]
      BY <1>1, <2>1 DEF IndexedTx
    <2>4. ASSUME HasTxIndex(tv, o[1]), o[2] <= Len(vout[o[1]])
          PROVE  o[2] \in tv[o[1]].spent <=> \E p \in Positions(e) : o \in vin[TxAt(p)]
      <3>1. o[2] \in 1 .. Len(vout[o[1]]) /\ o[1] \in IndexedTx(tv)
        BY <2>1, <2>2, <2>4 DEF IndexedTx
      <3>2. o[2] \in tv[o[1]].spent <=> \E u \in IndexedTx(tv) : o \in vin[u]
        BY <2>1, <3>1 DEF ChainView, OutputsSpentOnce
      <3> QED  BY <1>1, <3>2
    <2> QED  BY <2>3, <2>4
  <1> QED  BY <1>2 DEF UnspentOf

(* The name index is the registry of the chain. *)
LEMMA NamesAreChain ==
    ASSUME NEW tv \in TxIndexType, NEW nv, NameIndexType(nv), NEW e \in Block,
           ChainView(tv, e, Len(vtx[e])), NameView(tv, nv), Registered(tv, nv)
    PROVE  [n \in Name |-> LET vtxPos == VtxPos(nv, n)
                           IN  [i \in DOMAIN vtxPos |-> vtxPos[i].pos]] = RegistryOf[e]
  <1>1. ASSUME NEW n \in Name
        PROVE  [i \in DOMAIN VtxPos(nv, n) |-> VtxPos(nv, n)[i].pos]
                  = InOrder(OpsOn(n, Positions(e)))
    <2> DEFINE s   == VtxPos(nv, n)
               f   == [i \in DOMAIN s |-> s[i].pos]
               P   == Positions(e)
               ops == OpsOn(n, P)
    <2>1. /\ \A q \in P : TxAt(q) \in IndexedTx(tv) /\ tv[TxAt(q)].pos = q
          /\ \A u \in IndexedTx(tv) : tv[u].pos \in P /\ TxAt(tv[u].pos) = u
      BY WholeChain
    <2>2. s \in Seq(CNameIndex)
      BY VtxPosType
    <2> DEFINE m == Len(vtx[e])
    <2>3. ChainView(tv, e, m)
      OBVIOUS
    <2> HIDE DEF P, m
    <2>4. /\ \A q : q \in ops <=> \E k \in DOMAIN s : s[k].pos = q
          /\ \A k \in DOMAIN s : s[k] \in CNameIndex /\ s[k].nHeight = nHeight[s[k].pos[1]]
          /\ \A k, l \in DOMAIN s : k < l => Before(s[k].pos, s[l].pos)
      BY <2>1, <2>3, EntriesAreOps, ZenonT(40)
    <2> HIDE DEF s, ops
    <2>5. DOMAIN s = 1 .. Len(s) /\ Len(s) \in Nat
      BY <2>2
    <2>6. \A q \in ops : q[1] \in Block /\ q[2] \in Nat
      <3> TAKE q \in ops
      <3>1. PICK k \in DOMAIN s : s[k].pos = q /\ s[k] \in CNameIndex
        BY <2>4
      <3> QED  BY <3>1 DEF CNameIndex
    <2>7. DOMAIN f = 1 .. Len(s) /\ f = [k \in 1 .. Len(s) |-> f[k]]
      BY <2>5
    <2>8. /\ \A q : q \in ops <=> \E k \in 1 .. Len(s) : f[k] = q
          /\ \A k, l \in 1 .. Len(s) : k < l => Before(f[k], f[l])
      BY <2>4, <2>5
    <2> HIDE DEF f
    <2>9. f = InOrder(ops)
      BY <2>5, <2>6, <2>7, <2>8, ListInOrder
    <2> QED  BY <2>9 DEF f, s, ops, P
  <1>2. RegistryOf[e] = [n \in Name |-> InOrder(OpsOn(n, Positions(e)))]
    BY DEF RegistryOf
  <1> QED  BY <1>1, <1>2
-----------------------------------------------------------------------------
(* The invariant                                                           *)

(* What makes the commit of SetBestChain a step of the ledger: every block   *)
(* connected so far is valid where it stands, the fees counted are those of  *)
(* its transactions, and the chain worked for has more work.                 *)
BlocksValid ==
    /\ ValidChain(dbBest)
    /\ mapBlockIndex \ {Genesis} \subseteq HeaderOK
    /\ stage \in {"disconnect", "connect", "connected"} => HasMoreWork(pindexNew)
    /\ stage = "connect" =>
          /\ ValidChain(hashPrevBlock[tip])
          /\ \A i \in 2 .. nTx : ValidTx(<<tip, i>>)
          /\ nFees = FeesUpTo(tip, nTx)
    /\ stage = "connected" => ValidChain(tip)

Working == {"disconnect", "connect", "connected"}

(* A chain is valid when its last block is, and the chain before it. *)
LEMMA ExtendsValid ==
    ASSUME NEW e \in Block \ {Genesis}, ValidChain(hashPrevBlock[e]), ValidBlock(e)
    PROVE  ValidChain(e)
  BY Ancestry DEF ValidChain

LEMMA PartOfValid ==
    ASSUME NEW e \in Block, NEW a \in Ancestors[e], ValidChain(e)
    PROVE  ValidChain(a)
  BY ChainOrder DEF ValidChain

(* AcceptBlock lets only blocks with a good header into the index, and      *)
(* SetBestChain is called only for a block with more work.                  *)
LEMMA IndexSteps ==
    ASSUME NodeInv, mapBlockIndex \ {Genesis} \subseteq HeaderOK,
           stage \in Working => HasMoreWork(pindexNew), [Next]_vars
    PROVE  /\ mapBlockIndex' \ {Genesis} \subseteq HeaderOK
           /\ stage' \in Working => HasMoreWork(pindexNew)'
  <1> USE DEF Working, HasMoreWork, diskVars, txnVars, chainVars, viewVars, jobVars, poolVars
  <1> DEFINE Goal == /\ mapBlockIndex' \ {Genesis} \subseteq HeaderOK
                     /\ stage' \in Working => HasMoreWork(pindexNew)'
             Still == /\ UNCHANGED <<mapBlockIndex, pindexBest, pindexNew>>
                      /\ stage' \in Working => stage \in Working
             Stops == UNCHANGED mapBlockIndex /\ stage' \notin Working
  <1>1. Still \/ Stops => Goal
    OBVIOUS
  <1>2. ASSUME NEW b \in Block, AcceptBlock(b) PROVE Goal
    BY <1>2 DEF AcceptBlock, IndexBlock
  <1>3. ASSUME NEW b \in Block, RejectBlock(b) PROVE Stops
    BY <1>3 DEF RejectBlock
  <1>4. ASSUME NEW b \in Block, ProcessBlock(b) \/ ProcessOrphan(b) PROVE Goal
    BY <1>1, <1>2, <1>3, <1>4 DEF ProcessBlock, ProcessOrphan
  <1>5. ASSUME NEW b \in Block, ProcessBlockOrphan(b) \/ ProcessBlockRefused(b) PROVE Still
    BY <1>5 DEF ProcessBlockOrphan, ProcessBlockRefused, vars
  <1>6. ASSUME NEW t \in Tx, AcceptToMemoryPool(t) \/ deletetransaction(t) PROVE Still
    BY <1>6 DEF AcceptToMemoryPool, deletetransaction
  <1>7. CASE NextInQueue \/ ProcessBlockDone \/ ResurrectTx \/ ResurrectDone
             \/ DeleteTx \/ UNCHANGED vars
    <2>1. Still
      BY <1>7 DEF NextInQueue, ProcessBlockDone, ResurrectTx, ResurrectDone, DeleteTx, vars
    <2> QED  BY <1>1, <2>1
  <1>8. CASE NewBestBlock \/ TxnCommit \/ Restart
    BY <1>1, <1>8 DEF NewBestBlock, TxnCommit, Restart
  <1>9. CASE DisconnectFails \/ ConnectInputsFails \/ ConnectBlockFails \/ TxnCommitFails
    BY <1>1, <1>9 DEF DisconnectFails, ConnectInputsFails, ConnectBlockFails, TxnCommitFails,
                      Abort
  <1>10. CASE DisconnectInputs \/ DisconnectBlock \/ ConnectNext \/ ConnectInputs \/ ConnectBlock
    <2>1. Still
      BY <1>10 DEF DisconnectInputs, DisconnectBlock, ConnectNext, ConnectInputs, ConnectBlock
    <2> QED  BY <1>1, <2>1
  <1> HIDE DEF Still, Stops
  <1> QED  BY <1>1, <1>4, <1>5, <1>6, <1>7, <1>8, <1>9, <1>10 DEF Next, Work, Input, Fault

(* nFees and the part of a block that is connected change together. *)
LEMMA FeesSteps ==
    ASSUME NodeInv, [Next]_vars, stage = "connect", stage' = "connect"
    PROVE  ConnectInputs \/ UNCHANGED <<tip, nTx, nFees>>
  <1> USE DEF diskVars, txnVars, chainVars, viewVars, jobVars
  <1>1. ASSUME NEW b \in Block, ProcessBlock(b) \/ ProcessOrphan(b) PROVE FALSE
    BY <1>1 DEF ProcessBlock, ProcessOrphan
  <1>2. ASSUME NEW b \in Block, ProcessBlockOrphan(b) \/ ProcessBlockRefused(b) PROVE FALSE
    BY <1>2 DEF ProcessBlockOrphan, ProcessBlockRefused
  <1>3. ASSUME NEW t \in Tx, AcceptToMemoryPool(t) \/ deletetransaction(t) PROVE FALSE
    BY <1>3 DEF AcceptToMemoryPool, deletetransaction
  <1>4. ~(NextInQueue \/ ProcessBlockDone \/ ResurrectTx \/ ResurrectDone \/ DeleteTx
          \/ NewBestBlock \/ TxnCommit \/ Restart \/ DisconnectInputs \/ DisconnectBlock
          \/ ConnectNext \/ ConnectBlock)
    BY DEF NextInQueue, ProcessBlockDone, ResurrectTx, ResurrectDone, DeleteTx, NewBestBlock,
           TxnCommit, Restart, DisconnectInputs, DisconnectBlock, ConnectNext, ConnectBlock
  <1>5. ~(DisconnectFails \/ ConnectInputsFails \/ ConnectBlockFails \/ TxnCommitFails)
    BY DEF DisconnectFails, ConnectInputsFails, ConnectBlockFails, TxnCommitFails, Abort
  <1>6. CASE UNCHANGED vars
    BY <1>6 DEF vars
  <1> QED  BY <1>1, <1>2, <1>3, <1>4, <1>5, <1>6 DEF Next, Work, Input, Fault

LEMMA ConnectNextValid ==
    ASSUME NodeInv, BlocksValid, ConnectNext
    PROVE  /\ ValidChain(hashPrevBlock[tip']) /\ nFees' = FeesUpTo(tip', nTx') /\ nTx' = 0
  <1>1. tip' \in Block \ {Genesis} /\ hashPrevBlock[tip'] = tip
    BY ConnectNextFacts
  <1>2. nTx' = 0 /\ nFees' = 0
    BY DEF ConnectNext
  <1>3. ValidChain(tip)
    <2>1. CASE stage = "connected"
      BY <2>1 DEF BlocksValid
    <2>2. CASE stage = "disconnect" /\ AtFork
      <3>1. tip \in Ancestors[dbBest] /\ dbBest \in Block
        BY <2>2, JobFacts DEF NodeInv, JobOK
      <3> QED  BY <3>1, PartOfValid DEF BlocksValid
    <2> QED  BY <2>1, <2>2 DEF ConnectNext
  <1> QED  BY <1>1, <1>2, <1>3, FeesAreSums

LEMMA ConnectInputsValid ==
    ASSUME ModernRules, NodeInv, NameIndexOK, BothCoinsOK, BlocksValid, ConnectInputs
    PROVE  /\ \A i \in 2 .. nTx + 1 : ValidTx(<<tip, i>>)
           /\ nFees' = FeesUpTo(tip, nTx + 1)
  <1> DEFINE t == vtx[tip][nTx + 1]
  <1>1. /\ stage = "connect" /\ tip \in Block \ {Genesis} /\ nTx \in Nat /\ nTx < Len(vtx[tip])
        /\ CheckBlock(tip) /\ vtx[tip] \in Seq(Tx) /\ nTx + 1 \in DOMAIN vtx[tip] /\ t \in Tx
    <2>1. stage = "connect" /\ nTx < Len(vtx[tip]) /\ tip \in Block \ {Genesis} /\ nTx \in Nat
      BY ConnectInputsFacts DEF ConnectInputs
    <2>2. CheckBlock(tip)
      BY <2>1 DEF NodeInv, IndexClosed, TypeOK, JobType
    <2>3. vtx[tip] \in Seq(Tx)
      BY <2>1, TxAssumption
    <2> QED  BY <2>1, <2>2, <2>3
  <1>2. /\ \A i \in 2 .. nTx : ValidTx(<<tip, i>>)
        /\ nFees = FeesUpTo(tip, nTx)
    BY <1>1 DEF BlocksValid
  <1>3. IsCoinBase(t) <=> nTx = 0
    BY <1>1 DEF CheckBlock
  <1>4. /\ ~IsCoinBase(t) => TxConnects(t) /\ TxFee(t) >= 0
        /\ nFees' = IF IsCoinBase(t) THEN nFees ELSE nFees + TxFee(t)
    BY DEF ConnectInputs
  <1>5. CASE nTx = 0
    BY <1>1, <1>2, <1>3, <1>4, <1>5, FeesAreSums
  <1>6. CASE nTx # 0
    <2>1. /\ txTx \in TxIndexType /\ NameIndexType(txName) /\ ChainView(txTx, tip, nTx)
          /\ NameView(txTx, txName) /\ Registered(txTx, txName)
      BY DEF NodeInv, TypeOK, StoreType, NameIndexOK, BothCoinsOK, CoinsOK
    <2>2. /\ InputsOK(t, tip, txTx, "block", {})
          /\ HookConnectInputs(t, tip, txTx, txName, "block", {}, {})
          /\ TxFee(t) >= 0 /\ nFees' = nFees + TxFee(t)
      BY <1>3, <1>4, <1>6 DEF TxConnects
    <2>3. ValidTx(<<tip, nTx + 1>>)
      BY <1>1, <2>1, <2>2, ConnectsValid
    <2>4. \A i \in 2 .. nTx + 1 : i = nTx + 1 \/ i \in 2 .. nTx
      BY <1>1
    <2>5. FeesUpTo(tip, nTx + 1) = FeesUpTo(tip, nTx) + TxFee(t)
      <3>1. nTx + 1 \in 2 .. Len(vtx[tip]) /\ (nTx + 1) - 1 = nTx
        BY <1>1, <1>6
      <3>2. FeesUpTo(tip, nTx + 1) = FeesUpTo(tip, nTx) + GetValueIn(t) - GetValueOut(t)
        BY <1>1, <3>1, FeesAreSums
      <3>3. GetValueIn(t) \in Nat /\ GetValueOut(t) \in Nat /\ nFees \in Int
        BY <1>1, Values DEF NodeInv, TypeOK, JobType
      <3> HIDE DEF t
      <3> QED  BY <1>2, <3>2, <3>3 DEF TxFee
    <2> QED  BY <1>2, <2>2, <2>3, <2>4, <2>5
  <1> QED  BY <1>5, <1>6

LEMMA ConnectBlockValid ==
    ASSUME NodeInv, BlocksValid, ConnectBlock
    PROVE  ValidChain(tip)
  <1>1. stage = "connect" /\ nTx = Len(vtx[tip]) /\ CoinbaseOK
    BY DEF ConnectBlock
  <1>2. tip \in Block \ {Genesis} /\ CheckBlock(tip) /\ tip \in HeaderOK
    BY <1>1, JobFacts DEF NodeInv, JobOK, IndexClosed, TypeOK, JobType, BlocksValid
  <1>3. /\ ValidChain(hashPrevBlock[tip]) /\ nFees = BlockFees(tip)
        /\ \A i \in 2 .. Len(vtx[tip]) : ValidTx(<<tip, i>>)
    BY <1>1 DEF BlocksValid, BlockFees
  <1>4. ValidBlock(tip)
    BY <1>1, <1>2, <1>3 DEF ValidBlock, CoinbaseOK
  <1> QED  BY <1>2, <1>3, <1>4, ExtendsValid

LEMMA BlocksNext ==
    ASSUME ModernRules, NodeInv, NameIndexOK, BothCoinsOK, BlocksValid, [Next]_vars
    PROVE  BlocksValid'
  <1> DEFINE Connecting ==
               /\ ValidChain(hashPrevBlock[tip])
               /\ \A i \in 2 .. nTx : ValidTx(<<tip, i>>)
               /\ nFees = FeesUpTo(tip, nTx)
  <1>1. /\ mapBlockIndex' \ {Genesis} \subseteq HeaderOK
        /\ stage' \in Working => HasMoreWork(pindexNew)'
    BY IndexSteps DEF BlocksValid, Working
  <1>2. SUFFICES /\ ValidChain(dbBest')
                 /\ stage' = "connect" => Connecting'
                 /\ stage' = "connected" => ValidChain(tip')
    BY <1>1 DEF BlocksValid, Working
  <1> USE DEF diskVars, txnVars, chainVars, viewVars
  <1>3. ValidChain(dbBest) /\ (stage = "connect" => Connecting)
        /\ (stage = "connected" => ValidChain(tip))
    BY DEF BlocksValid
  <1>4. CASE ConnectInputs
    <2>1. /\ \A i \in 2 .. nTx + 1 : ValidTx(<<tip, i>>)
          /\ nFees' = FeesUpTo(tip, nTx + 1)
      BY <1>4, ConnectInputsValid
    <2>2. /\ UNCHANGED <<tip, dbBest, stage>> /\ nTx' = nTx + 1 /\ stage = "connect"
      BY <1>4 DEF ConnectInputs
    <2> QED  BY <1>3, <2>1, <2>2
  <1>5. CASE QuietStep
    <2>1. UNCHANGED <<tip, nTx, dbBest>> /\ (stage' \in {"connect", "connected"} => stage' = stage)
      BY <1>5 DEF QuietStep, Committed
    <2>2. stage' = "connect" => UNCHANGED nFees \/ ConnectInputs
      BY <2>1, FeesSteps
    <2> QED  BY <1>3, <1>4, <2>1, <2>2
  <1>6. CASE DisconnectInputs \/ DisconnectBlock
    BY <1>3, <1>6 DEF DisconnectInputs, DisconnectBlock
  <1>7. CASE ConnectNext
    <2>1. /\ ValidChain(hashPrevBlock[tip']) /\ nFees' = FeesUpTo(tip', nTx') /\ nTx' = 0
      BY <1>7, ConnectNextValid
    <2>2. stage' = "connect" /\ dbBest' = dbBest
      BY <1>7 DEF ConnectNext
    <2> QED  BY <1>3, <2>1, <2>2
  <1>8. CASE ConnectBlock
    <2>1. stage' = "connected" /\ UNCHANGED <<dbBest, tip>>
      BY <1>8 DEF ConnectBlock
    <2> QED  BY <1>3, <1>8, <2>1, ConnectBlockValid
  <1>9. CASE AbortingStep \/ Restart
    BY <1>3, <1>9 DEF AbortingStep, Abort, Restart
  <1>10. CASE TxnCommit
    BY <1>3, <1>10 DEF TxnCommit, ReadyToCommit
  <1> QED  BY <1>4, <1>5, <1>6, <1>7, <1>8, <1>9, <1>10, StepKinds

LEMMA BlocksInvariant == NoNameBug /\ ModernRules => (Spec => []BlocksValid)
  <1> SUFFICES ASSUME NoNameBug, ModernRules PROVE Spec => []BlocksValid
    OBVIOUS
  <1>1. ASSUME Init PROVE BlocksValid
    <2>1. ValidChain(Genesis)
      BY BlockTree DEF ValidChain
    <2> QED  BY <1>1, <2>1 DEF Init, BlocksValid
  <1>2. NodeInv /\ NameIndexOK /\ BothCoinsOK /\ BlocksValid /\ [Next]_vars => BlocksValid'
    BY BlocksNext
  <1> QED  BY <1>1, <1>2, NodeInvariant, NamesInvariant, CoinsInvariant, PTL DEF Spec
-----------------------------------------------------------------------------
(* The refinement                                                          *)

(* The committed databases are the ledger of the committed chain. *)
LedgerState ==
    /\ {o \in OutPoint : HasTxIndex(dbTx, o[1]) /\ o[2] \notin dbTx[o[1]].spent
                         /\ o[2] <= Len(vout[o[1]])} = UnspentOf[dbBest]
    /\ [n \in Name |-> LET vtxPos == VtxPos(dbName, n)
                       IN  [i \in DOMAIN vtxPos |-> vtxPos[i].pos]] = RegistryOf[dbBest]

LEMMA DatabasesAreLedger ==
    ASSUME NodeInv, NameIndexOK, BothCoinsOK
    PROVE  LedgerState
  <1>1. dbBest \in Block
    BY JobFacts DEF NodeInv, TypeOK, ChainType
  <1>2. /\ dbTx \in TxIndexType /\ NameIndexType(dbName)
        /\ ChainView(dbTx, dbBest, Len(vtx[dbBest]))
        /\ NameView(dbTx, dbName) /\ Registered(dbTx, dbName)
    BY DEF NodeInv, TypeOK, StoreType, NameIndexOK, BothCoinsOK, CoinsOK
  <1>3. {o \in OutPoint : HasTxIndex(dbTx, o[1]) /\ o[2] \notin dbTx[o[1]].spent
                          /\ o[2] <= Len(vout[o[1]])} = UnspentOf[dbBest]
    BY <1>1, <1>2, UnspentIsChain
  <1>4. [n \in Name |-> LET vtxPos == VtxPos(dbName, n)
                        IN  [i \in DOMAIN vtxPos |-> vtxPos[i].pos]] = RegistryOf[dbBest]
    BY <1>1, <1>2, NamesAreChain
  <1> QED  BY <1>3, <1>4 DEF LedgerState

(* Only the commit of SetBestChain changes the committed databases. *)
LEMMA DiskSteps ==
    ASSUME NodeInv, [Next]_vars
    PROVE  TxnCommit \/ UNCHANGED <<dbTx, dbName, dbBest>>
  BY StepKinds DEF QuietStep, DisconnectInputs, DisconnectBlock, ConnectNext, ConnectInputs,
                   ConnectBlock, AbortingStep, Abort, Restart, diskVars

(* ImplementsLedger: for every tree of blocks after the two forks, with any  *)
(* number of branches, crashes and failed commits, the committed state of    *)
(* the node goes from one valid chain to another with more work, and the     *)
(* spent flags and name histories on disk are exactly those that the chain   *)
(* as a whole gives.                                                         *)
THEOREM NodeImplementsLedger == NoNameBug /\ ModernRules => (Spec => ImplementsLedger)
  <1> SUFFICES ASSUME NoNameBug, ModernRules PROVE Spec => ImplementsLedger
    OBVIOUS
  <1>1. ASSUME Init, LedgerState PROVE Ledger!Init
    <2>1. dbBest = Genesis
      BY <1>1 DEF Init
    <2> QED  BY <1>1, <2>1 DEF LedgerState, Ledger!Init
  <1>2. ASSUME NodeInv, BlocksValid, LedgerState', TxnCommit PROVE Ledger!Next
    <2>1. /\ dbBest' = pindexNew /\ tip = pindexNew /\ stage = "connected"
          /\ pindexNew \in Block /\ pindexBest = dbBest
      BY <1>2, JobFacts DEF TxnCommit, ReadyToCommit
    <2>2. bnChainWork[pindexNew] > bnChainWork[dbBest] /\ pindexNew \in ValidChains
      BY <1>2, <2>1 DEF BlocksValid, HasMoreWork, ValidChains
    <2>3. PICK b \in Block : b = pindexNew
      BY <2>1
    <2>4. Ledger!Adopt(b)
      BY <1>2, <2>1, <2>2, <2>3 DEF LedgerState, Ledger!Adopt
    <2> QED  BY <2>4 DEF Ledger!Next
  <1>3. ASSUME NodeInv, BlocksValid, LedgerState', [Next]_vars PROVE [Ledger!Next]_Ledger!vars
    <2>1. ASSUME UNCHANGED <<dbTx, dbName, dbBest>> PROVE UNCHANGED Ledger!vars
      BY <2>1 DEF Ledger!vars, HasTxIndex, VtxPos
    <2> QED  BY <1>2, <1>3, <2>1, DiskSteps
  <1>4. NodeInv /\ NameIndexOK /\ BothCoinsOK => LedgerState
    BY DatabasesAreLedger
  <1> QED  BY <1>1, <1>3, <1>4, NodeInvariant, NamesInvariant, CoinsInvariant, BlocksInvariant,
              PTL DEF Spec, ImplementsLedger, Ledger!Spec
-----------------------------------------------------------------------------
(* Validation rejects nothing that is valid                                *)

LEMMA AgeIsDepth ==
    ASSUME NEW e \in Block, NEW i, NEW q, q[1] \in Ancestors[e], NEW d \in Int
    PROVE  LET depth == CheckTransactionAtRelativeDepth(e, q, d)
           IN  /\ Age(q, <<e, i>>) >= d => depth = -1
               /\ Age(q, <<e, i>>) < d => depth >= 0
  <1>1. nHeight[q[1]] \in Nat /\ nHeight[e] \in Nat /\ nHeight[q[1]] <= nHeight[e]
    BY HeightOnChain
  <1>2. Age(q, <<e, i>>) = nHeight[e] - nHeight[q[1]]
    BY DEF Age
  <1> QED  BY <1>1, <1>2 DEF CheckTransactionAtRelativeDepth

LEMMA InputsFound ==
    ASSUME NEW tv \in TxIndexType, NEW e \in Block \ {Genesis}, NEW m \in Nat,
           ChainView(tv, e, m), m < Len(vtx[e]), InputsAvailable(<<e, m + 1>>)
    PROVE  InputsOK(vtx[e][m + 1], e, tv, "block", {})
  <1> DEFINE p == <<e, m + 1>>
             t == vtx[e][m + 1]
  <1>1. TxAt(p) = t /\ t \in Tx /\ COINBASE_MATURITY \in Nat
    BY TxAssumption DEF TxAt
  <1>2. ASSUME NEW o \in vin[t] PROVE InputOK(o, e, tv, "block", {})
    <2>1. o[1] \in Tx /\ o = <<o[1], o[2]>> /\ o[2] \in Nat \ {0}
      BY <1>1, TxAssumption
    <2>2. vout[o[1]] \in Seq(TxOut)
      BY <2>1, TxAssumption
    <2>3. PICK q \in Earlier(p) :
             /\ TxAt(q) = o[1] /\ o[2] <= Len(vout[o[1]])
             /\ IsCoinBase(o[1]) => Age(q, p) >= COINBASE_MATURITY
      BY <1>1 DEF InputsAvailable
    <2>4. o[1] \in IndexedTx(tv) /\ tv[o[1]].pos = q /\ q[1] \in Ancestors[e]
      BY <2>3, EarlierIndexed
    <2>5. o[2] \notin tv[o[1]].spent
      <3> SUFFICES ASSUME o[2] \in tv[o[1]].spent PROVE FALSE
        OBVIOUS
      <3>1. o[2] \in 1 .. Len(vout[o[1]])
        BY <2>1, <2>2, <2>3
      <3>2. PICK u \in IndexedTx(tv) : o \in vin[u]
        BY <2>1, <2>4, <3>1 DEF ChainView, OutputsSpentOnce
      <3>3. tv[u].pos \in Earlier(p) /\ TxAt(tv[u].pos) = u
        BY EarlierIndexed
      <3> QED  BY <1>1, <3>2, <3>3 DEF InputsAvailable
    <2>6. IsCoinBase(o[1]) =>
             CheckTransactionAtRelativeDepth(e, tv[o[1]].pos, COINBASE_MATURITY) = -1
      BY <1>1, <2>3, <2>4, AgeIsDepth
    <2> QED  BY <2>3, <2>4, <2>5, <2>6 DEF InputOK, IndexedTx
  <1> QED  BY <1>2 DEF InputsOK

(* ConnectInputs accepts a transaction that is valid on its chain. *)
LEMMA ValidConnects ==
    ASSUME ModernRules, NEW tv \in TxIndexType, NEW nv, NameIndexType(nv),
           NEW e \in Block \ {Genesis}, NEW m \in Nat, m < Len(vtx[e]),
           ChainView(tv, e, m), NameView(tv, nv), Registered(tv, nv),
           CheckTransaction(vtx[e][m + 1]), ValidTx(<<e, m + 1>>)
    PROVE  /\ InputsOK(vtx[e][m + 1], e, tv, "block", {})
           /\ HookConnectInputs(vtx[e][m + 1], e, tv, nv, "block", {}, {})
           /\ TxFee(vtx[e][m + 1]) >= 0
  <1> DEFINE p == <<e, m + 1>>
             t == vtx[e][m + 1]
             n == NameOut(t).name
             s == VtxPos(nv, n)
             ops == OpsOn(n, Earlier(p))
             h == nHeight[e]
             i == NameInput(t)
  <1>1. /\ TxAt(p) = t /\ t \in Tx /\ p[1] = e /\ h \in Nat
        /\ postLibcoinFork(h) /\ doStrictChecks(h)
    BY TxAssumption, BlockTree DEF TxAt, ModernRules
  <1>2. InputsOK(t, e, tv, "block", {}) /\ InputsAvailable(p)
    BY InputsFound DEF ValidTx
  <1>3. TxFee(t) >= 0
    BY <1>1, Values DEF TxFee, ValidTx
  <1>4. /\ ops = {} <=> s = <<>>
        /\ s # <<>> => /\ LastOf(ops) = s[Len(s)].pos /\ LastOf(ops)[1] \in Ancestors[e]
                       /\ GetNameHeight(nv, n) = nHeight[LastOf(ops)[1]]
    BY LastEntry
  <1>5. ValidTx(p) /\ CheckTransaction(t)
    OBVIOUS
  <1> HIDE DEF t
  <1>6. NameCoinsSpent(t) = NameInputs(t) /\ NameInputs(t) \subseteq vin[t]
    BY DEF NameCoinsSpent, NameInputs
  <1>7. ASSUME NEW o \in vin[t], NameCoinsSpent(t) = {o} PROVE i = o /\ NameInputs(t) = {o}
    BY <1>6, <1>7 DEF NameInput
  <1>8. ASSUME NEW o \in vin[t]
        PROVE  /\ o[1] \in IndexedTx(tv) /\ o[2] \in DOMAIN vout[o[1]] /\ o = <<o[1], o[2]>>
               /\ tv[o[1]].pos \in Earlier(p) /\ TxAt(tv[o[1]].pos) = o[1]
               /\ tv[o[1]].pos[1] \in Ancestors[e]
    <2>1. o[1] \in Tx /\ o = <<o[1], o[2]>> /\ o[2] \in Nat \ {0}
      BY <1>1, TxAssumption
    <2>2. vout[o[1]] \in Seq(TxOut)
      BY <2>1, TxAssumption
    <2>3. o[1] \in IndexedTx(tv) /\ o[2] <= Len(vout[o[1]])
      BY <1>2, <2>1 DEF InputsOK, InputOK, IndexedTx
    <2>4. o[2] \in DOMAIN vout[o[1]]
      BY <2>1, <2>2, <2>3
    <2> QED  BY <2>1, <2>3, <2>4, EarlierIndexed
  <1>9. CASE ~isNameTx[t]
    <2>1. NameOutputs(t) = {} /\ NameInputs(t) = {}
      BY <1>1, <1>5, <1>6, <1>9 DEF ValidTx
    <2> QED  BY <1>2, <1>3, <1>9, <2>1 DEF HookConnectInputs, t
  <1>10. CASE isNameTx[t]
    <2>1. /\ DecodeNameTx(t) /\ NameOut(t).nValue >= MIN_AMOUNT
          /\ \/ NameOut(t).op = "new" /\ NameInputs(t) = {}
             \/ NameOut(t).op = "firstupdate" /\ OpensName(p)
             \/ NameOut(t).op = "update" /\ KeepsName(p)
      BY <1>1, <1>5, <1>6, <1>10 DEF ValidTx, CheckTransaction
    <2>2. CASE NameOut(t).op = "new" /\ NameInputs(t) = {}
      <3>1. ~OnTopOfBug(t, tv, nv)
        BY <2>2 DEF OnTopOfBug
      <3> QED  BY <1>2, <1>3, <1>10, <2>1, <2>2, <3>1 DEF HookConnectInputs, CheckNameNew, t
    <2>3. CASE NameOut(t).op = "firstupdate" /\ OpensName(p)
      <3>1. PICK o \in vin[t] :
               /\ NameCoinsSpent(t) = {o}
               /\ Out(o).op = "new" /\ Out(o).name = n /\ Out(o).rand = NameOut(t).rand
               /\ \A q \in Earlier(p) : TxAt(q) = o[1] => Age(q, p) >= MIN_FIRSTUPDATE_DEPTH
        BY <1>1, <2>3 DEF OpensName
      <3>2. i = o /\ NameInputs(t) = {o}
        BY <1>7, <3>1
      <3>3. ~Mismatch(t) /\ ~OnTopOfBug(t, tv, nv)
        BY <2>3, <3>1, <3>2 DEF Mismatch, OnTopOfBug
      <3>4. CheckTransactionAtRelativeDepth(e, tv[i[1]].pos, MIN_FIRSTUPDATE_DEPTH) = -1
        <4>1. MIN_FIRSTUPDATE_DEPTH \in Int
          BY TxAssumption
        <4> QED  BY <1>8, <3>1, <3>2, <4>1, AgeIsDepth
      <3>5. LET g == GetNameHeight(nv, n) IN ~(g >= 0 /\ NameUnexpired(g, h))
        <4>1. CASE s = <<>>
          BY <4>1 DEF GetNameHeight
        <4>2. CASE s # <<>>
          <5>1. GetNameHeight(nv, n) = nHeight[LastOf(ops)[1]] /\ LastOf(ops)[1] \in Ancestors[e]
            BY <1>4, <4>2
          <5>2. Age(LastOf(ops), p) >= GetExpirationDepth(h)
            BY <1>1, <1>4, <2>3, <4>2 DEF OpensName
          <5>3. nHeight[LastOf(ops)[1]] \in Nat
            BY <5>1, HeightOnChain
          <5>4. GetExpirationDepth(h) \in Int
            BY <1>1, RulesAssumption, SMTT(20) DEF GetExpirationDepth
          <5> HIDE DEF ops
          <5> QED  BY <1>1, <5>1, <5>2, <5>3, <5>4 DEF NameUnexpired, Age
        <4> QED  BY <4>1, <4>2
      <3>6. GetNameNetFee(t) >= GetNetworkFee(h)
        BY <1>1, <2>3 DEF OpensName
      <3>7. CheckFirstUpdate(t, e, tv, nv, "block", {}, {})
        BY <3>1, <3>2, <3>3, <3>4, <3>5, <3>6 DEF CheckFirstUpdate
      <3> QED  BY <1>2, <1>3, <1>10, <2>1, <2>3, <3>2, <3>3, <3>7 DEF HookConnectInputs, t
    <2>4. CASE NameOut(t).op = "update" /\ KeepsName(p)
      <3>1. /\ ops # {} /\ Age(LastOf(ops), p) < GetExpirationDepth(h)
            /\ \E o \in vin[t] : /\ NameCoinsSpent(t) = {o}
                                 /\ o[1] = TxAt(LastOf(ops)) /\ Out(o).name = n
        BY <1>1, <2>4 DEF KeepsName
      <3>2. PICK o \in vin[t] : /\ NameCoinsSpent(t) = {o}
                                /\ o[1] = TxAt(LastOf(ops)) /\ Out(o).name = n
        BY <3>1
      <3>3. i = o /\ NameInputs(t) = {o}
        BY <1>7, <3>2
      <3>4. s # <<>> /\ LastOf(ops) = s[Len(s)].pos
        BY <1>4, <3>1
      <3>5. /\ LastOf(ops) \in Earlier(p) /\ NameOpOn(TxAt(LastOf(ops)), n)
        <4>1. s \in Seq(CNameIndex) /\ Len(s) \in DOMAIN s
          BY <3>4, VtxPosType
        <4>2. LastOf(ops) \in ops
          BY <3>4, <4>1, EarlierIndexed, EntriesAreOps
        <4> QED  BY <4>2 DEF OpsOn
      <3>6. tv[o[1]].pos = LastOf(ops)
        BY <3>2, <3>5, EarlierIndexed
      <3>7. ~Mismatch(t) /\ ~OnTopOfBug(t, tv, nv)
        BY <2>4, <3>2, <3>3, <3>4, <3>6 DEF Mismatch, OnTopOfBug, CheckNameTxPos
      <3>8. Out(o).op \in {"firstupdate", "update"}
        <4>1. o[1] \in Tx /\ DecodeNameTx(o[1]) /\ NameOut(o[1]).op \in {"firstupdate", "update"}
          BY <1>8, <3>2, <3>5 DEF NameOpOn, IndexedTx
        <4>2. o[2] \in NameOutputs(o[1])
          <5>1. Out(o).op \in NameOps
            BY <3>3 DEF NameInputs
          <5> QED  BY <1>8, <5>1 DEF NameOutputs, Out
        <4> QED  BY <4>1, <4>2, TheNameOutput DEF Out
      <3>9. CheckTransactionAtRelativeDepth(e, tv[i[1]].pos, GetExpirationDepth(h)) >= 0
        <4>1. GetExpirationDepth(h) \in Int
          BY <1>1, RulesAssumption, SMTT(20) DEF GetExpirationDepth
        <4> QED  BY <1>8, <3>1, <3>3, <3>6, <4>1, AgeIsDepth
      <3>10. CheckNameUpdate(t, e, tv, "block")
        BY <3>3, <3>7, <3>8, <3>9 DEF CheckNameUpdate
      <3> QED  BY <1>2, <1>3, <1>10, <2>1, <2>4, <3>3, <3>7, <3>10 DEF HookConnectInputs, t
    <2> QED  BY <2>1, <2>2, <2>3, <2>4
  <1> QED  BY <1>9, <1>10

(* SetBestChain gives a branch up for another reason than a failed commit    *)
(* only when the branch is invalid.                                          *)
LEMMA GivenUpIsInvalid ==
    ASSUME ModernRules, NodeInv, NameIndexOK, BothCoinsOK, BlocksValid, ReorgCanUndo,
           DisconnectFails \/ ConnectInputsFails \/ ConnectBlockFails
    PROVE  ~ValidChain(pindexNew)
  <1> SUFFICES ASSUME ValidChain(pindexNew) PROVE FALSE
    OBVIOUS
  <1>1. ~DisconnectFails
    BY DEF DisconnectFails, ReorgCanUndo
  <1>2. /\ stage = "connect" /\ tip \in Ancestors[pindexNew] \ {Genesis} /\ tip \in Block
        /\ nTx \in Nat /\ CheckBlock(tip) /\ vtx[tip] \in Seq(Tx)
    <2>1. stage = "connect"
      BY <1>1 DEF ConnectInputsFails, ConnectBlockFails
    <2>2. tip \in Ancestors[pindexNew] \ {Genesis} /\ tip \in Block /\ nTx \in Nat
      BY <2>1, JobFacts DEF NodeInv, JobOK
    <2>3. CheckBlock(tip)
      BY <2>2 DEF NodeInv, IndexClosed, TypeOK, JobType
    <2> QED  BY <2>1, <2>2, <2>3, TxAssumption
  <1>3. ValidBlock(tip)
    BY <1>2 DEF ValidChain
  <1>4. CASE ConnectInputsFails
    <2> DEFINE t == vtx[tip][nTx + 1]
    <2>1. /\ nTx < Len(vtx[tip]) /\ ~IsCoinBase(t) /\ ~(TxConnects(t) /\ TxFee(t) >= 0)
      BY <1>4 DEF ConnectInputsFails
    <2>2. nTx + 1 \in DOMAIN vtx[tip] /\ 1 \in DOMAIN vtx[tip]
      BY <1>2, <2>1
    <2>3. nTx + 1 # 1 /\ CheckTransaction(t)
      BY <1>2, <2>1, <2>2 DEF CheckBlock
    <2>4. nTx + 1 \in 2 .. Len(vtx[tip])
      BY <1>2, <2>1, <2>3
    <2>5. ValidTx(<<tip, nTx + 1>>)
      BY <1>3, <2>4 DEF ValidBlock
    <2>6. /\ txTx \in TxIndexType /\ NameIndexType(txName) /\ ChainView(txTx, tip, nTx)
          /\ NameView(txTx, txName) /\ Registered(txTx, txName)
      BY DEF NodeInv, TypeOK, StoreType, NameIndexOK, BothCoinsOK, CoinsOK
    <2>7. TxConnects(t) /\ TxFee(t) >= 0
      BY <1>2, <2>1, <2>3, <2>5, <2>6, ValidConnects DEF TxConnects
    <2> QED  BY <2>1, <2>7
  <1>5. CASE ConnectBlockFails
    <2>1. nTx = Len(vtx[tip]) /\ ~CoinbaseOK
      BY <1>5 DEF ConnectBlockFails
    <2>2. nFees = BlockFees(tip)
      BY <1>2, <2>1 DEF BlocksValid, BlockFees
    <2> QED  BY <1>3, <2>1, <2>2 DEF ValidBlock, CoinbaseOK
  <1> QED  BY <1>1, <1>4, <1>5
-----------------------------------------------------------------------------
(* The heaviest valid chain                                                *)

(* A valid chain of the index is ahead of the best one by the block that is  *)
(* being connected, and by at most one block for every fault.                *)
LagBounded ==
    /\ pindexNew # NoBlock => HasMoreWork(pindexNew)
    /\ \A b \in mapBlockIndex : ValidChain(b) => Cardinality(Behind(b) \ {pindexNew}) <= faults

LEMMA AncestorsFinite ==
    ASSUME NEW e \in Block
    PROVE  IsFiniteSet(Ancestors[e])
  <1> DEFINE f == [a \in Ancestors[e] |-> nHeight[a]]
             T == 0 .. nHeight[e]
  <1>1. \A a \in Ancestors[e] : nHeight[a] \in T
    BY HeightOnChain
  <1>2. \A a, d \in Ancestors[e] : nHeight[a] = nHeight[d] => a = d
    BY ChainOrder
  <1>3. f \in Injection(Ancestors[e], T)
    BY <1>1, <1>2 DEF Injection, IsInjective
  <1>4. nHeight[e] \in Int
    BY BlockTree
  <1>5. IsFiniteSet(T)
    BY <1>4, FS_Interval
  <1> QED  BY <1>3, <1>5, FS_Injection

(* Counting in the part of a chain that is ahead. *)
LEMMA Counting ==
    ASSUME NEW e \in Block, NEW S, S \subseteq Ancestors[e], NEW k \in Int
    PROVE  /\ Cardinality(S) \in Nat
           /\ \A U : U \subseteq S => Cardinality(U) <= Cardinality(S)
           /\ \A x : Cardinality(S \ {x}) <= k => Cardinality(S) <= k + 1
  <1>1. IsFiniteSet(S)
    BY AncestorsFinite, FS_Subset
  <1>2. Cardinality(S) \in Nat
    BY <1>1, FS_CardinalityType
  <1>3. \A U : U \subseteq S => Cardinality(U) <= Cardinality(S)
    BY <1>1, FS_Subset
  <1>4. ASSUME NEW x, Cardinality(S \ {x}) <= k PROVE Cardinality(S) <= k + 1
    <2>1. Cardinality(S \ {x}) = IF x \in S THEN Cardinality(S) - 1 ELSE Cardinality(S)
      BY <1>1, FS_RemoveElement
    <2> QED  BY <1>2, <1>4, <2>1
  <1> QED  BY <1>2, <1>3, <1>4

(* What a step does to the index, the best block and the block worked for. *)
SameTips == UNCHANGED <<mapBlockIndex, pindexBest, pindexNew, faults>>

NewInIndex(b) ==
    /\ hashPrevBlock[b] \in mapBlockIndex /\ mapBlockIndex' = mapBlockIndex \cup {b}
    /\ pindexNew = NoBlock /\ pindexNew' = (IF HasMoreWork(b) THEN b ELSE NoBlock)
    /\ UNCHANGED <<pindexBest, faults>>

GivenUp ==
    /\ pindexNew' = NoBlock /\ ~ValidChain(pindexNew)
    /\ UNCHANGED <<mapBlockIndex, pindexBest, faults>>

NewBest ==
    /\ pindexNew # NoBlock /\ pindexBest' = pindexNew /\ pindexNew' = NoBlock
    /\ UNCHANGED <<mapBlockIndex, faults>>

Faulted ==
    /\ faults' = faults + 1 /\ pindexNew' = NoBlock /\ UNCHANGED mapBlockIndex
    /\ pindexBest' = pindexBest \/ (pindexNew # NoBlock /\ pindexBest' = pindexNew)

LEMMA TipSteps ==
    ASSUME ModernRules, NodeInv, NameIndexOK, BothCoinsOK, BlocksValid, ReorgCanUndo, [Next]_vars
    PROVE  \/ SameTips \/ GivenUp \/ NewBest \/ Faulted
           \/ \E b \in Block : NewInIndex(b)
  <1> USE DEF diskVars, txnVars, chainVars, viewVars, jobVars, poolVars
  <1>1. stage \in {"idle", "orphans"} <=> pindexNew = NoBlock
    BY DEF NodeInv, TypeOK, JobType
  <1>2. ASSUME NEW b \in Block, AcceptBlock(b), stage \in {"idle", "orphans"},
               hashPrevBlock[b] \in mapBlockIndex
        PROVE  NewInIndex(b)
    BY <1>1, <1>2 DEF AcceptBlock, IndexBlock, NewInIndex
  <1>3. ASSUME NEW b \in Block, RejectBlock(b) PROVE SameTips
    BY <1>3 DEF RejectBlock, SameTips
  <1>4. ASSUME NEW b \in Block, ProcessBlock(b) PROVE SameTips \/ NewInIndex(b)
    BY <1>2, <1>3, <1>4 DEF ProcessBlock
  <1>5. ASSUME NEW b \in Block, ProcessOrphan(b) PROVE SameTips \/ NewInIndex(b)
    <2>1. vWorkQueue \in Seq(Block) /\ vWorkQueue # <<>> /\ hashPrevBlock[b] = Head(vWorkQueue)
      BY <1>5 DEF ProcessOrphan, NodeInv, TypeOK, JobType
    <2>2. 1 \in DOMAIN vWorkQueue /\ Head(vWorkQueue) = vWorkQueue[1]
      BY <2>1
    <2>3. hashPrevBlock[b] \in mapBlockIndex
      BY <2>1, <2>2 DEF NodeInv, IndexClosed
    <2> QED  BY <1>2, <1>3, <1>5, <2>3 DEF ProcessOrphan
  <1>6. ASSUME NEW b \in Block, ProcessBlockOrphan(b) \/ ProcessBlockRefused(b) PROVE SameTips
    BY <1>6 DEF ProcessBlockOrphan, ProcessBlockRefused, vars, SameTips
  <1>7. ASSUME NEW t \in Tx, AcceptToMemoryPool(t) \/ deletetransaction(t) PROVE SameTips
    BY <1>7 DEF AcceptToMemoryPool, deletetransaction, SameTips
  <1>8. CASE NextInQueue \/ ProcessBlockDone \/ ResurrectTx \/ ResurrectDone
             \/ DeleteTx \/ UNCHANGED vars
    BY <1>8 DEF NextInQueue, ProcessBlockDone, ResurrectTx, ResurrectDone, DeleteTx, vars, SameTips
  <1>9. CASE DisconnectInputs \/ DisconnectBlock \/ ConnectNext \/ ConnectInputs \/ ConnectBlock
             \/ TxnCommit
    BY <1>9 DEF DisconnectInputs, DisconnectBlock, ConnectNext, ConnectInputs, ConnectBlock,
                TxnCommit, SameTips
  <1>10. CASE DisconnectFails \/ ConnectInputsFails \/ ConnectBlockFails
    <2>1. ~ValidChain(pindexNew)
      BY <1>10, GivenUpIsInvalid
    <2> QED  BY <1>10, <2>1 DEF DisconnectFails, ConnectInputsFails, ConnectBlockFails, Abort,
                                GivenUp
  <1>11. CASE TxnCommitFails
    BY <1>11 DEF TxnCommitFails, Abort, Faulted
  <1>12. CASE Restart
    <2>1. dbBest = pindexBest \/ (pindexNew # NoBlock /\ dbBest = pindexNew)
      BY <1>1 DEF NodeInv, JobOK
    <2> QED  BY <1>12, <2>1 DEF Restart, Faulted
  <1>13. CASE NewBestBlock
    BY <1>1, <1>13 DEF NewBestBlock, NewBest
  <1> QED  BY <1>4, <1>5, <1>6, <1>7, <1>8, <1>9, <1>10, <1>11, <1>12, <1>13
           DEF Next, Work, Input, Fault

LEMMA LagNext ==
    ASSUME ModernRules, NodeInv, NameIndexOK, BothCoinsOK, BlocksValid, ReorgCanUndo,
           LagBounded, [Next]_vars
    PROVE  LagBounded'
  <1>1. /\ mapBlockIndex \subseteq Block /\ pindexBest \in Block /\ faults \in Nat
        /\ (pindexNew = NoBlock \/ pindexNew \in Block)
    BY DEF NodeInv, TypeOK, ChainType, JobType
  <1>2. \A e \in Block : Ancestors[e] \subseteq Block /\ NoBlock \notin Ancestors[e]
    BY BlockTree
  <1>3. \A e \in Block : bnChainWork[e] \in Nat
    BY BlockTree
  <1> DEFINE Ahead(e) == Behind(e) \ {pindexNew}
  <1>4. ASSUME NEW e \in Block, NEW U, U \subseteq Ahead(e), Cardinality(Ahead(e)) <= faults
        PROVE  Cardinality(U) <= faults
    <2>1. U \subseteq Ancestors[e] /\ Ahead(e) \subseteq Ancestors[e]
      BY <1>4 DEF Behind
    <2>2. Cardinality(U) \in Nat /\ Cardinality(Ahead(e)) \in Nat
      BY <2>1, Counting
    <2>3. Cardinality(U) <= Cardinality(Ahead(e))
      BY <1>4, <2>1, Counting
    <2> HIDE DEF Ahead
    <2> QED  BY <1>1, <1>4, <2>2, <2>3
  <1>5. CASE SameTips
    BY <1>5 DEF SameTips, LagBounded, HasMoreWork, Behind
  <1>6. ASSUME NEW n \in Block, NewInIndex(n) PROVE LagBounded'
    <2>1. pindexBest' = pindexBest /\ faults' = faults /\ pindexNew = NoBlock
      BY <1>6 DEF NewInIndex
    <2>2. pindexNew' # NoBlock => HasMoreWork(pindexNew)'
      BY <1>6, <2>1 DEF NewInIndex, HasMoreWork
    <2>3. ASSUME NEW e \in mapBlockIndex, ValidChain(e)
          PROVE  Cardinality((Behind(e) \ {pindexNew})') <= faults
      <3>1. (Behind(e) \ {pindexNew})' \subseteq Ahead(e)
        BY <1>1, <1>2, <2>1, <2>3 DEF Behind
      <3>2. Cardinality(Ahead(e)) <= faults
        BY <2>3 DEF LagBounded
      <3> QED  BY <1>1, <1>4, <2>3, <3>1, <3>2
    <2>4. ASSUME ValidChain(n) PROVE Cardinality((Behind(n) \ {pindexNew})') <= faults
      <3> DEFINE q == hashPrevBlock[n]
      <3>1. q \in mapBlockIndex /\ q \in Block /\ Ancestors[n] = {n} \cup Ancestors[q]
        BY <1>1, <1>6, BlockTree DEF NewInIndex
      <3>2. ValidChain(q)
        BY <2>4, <3>1 DEF ValidChain
      <3>3. CASE HasMoreWork(n)
        <4>1. pindexNew' = n
          BY <1>6, <3>3 DEF NewInIndex
        <4>2. (Behind(n) \ {pindexNew})' \subseteq Ahead(q)
          BY <1>2, <2>1, <3>1, <4>1 DEF Behind
        <4>3. Cardinality(Ahead(q)) <= faults
          BY <3>1, <3>2 DEF LagBounded
        <4> QED  BY <1>4, <3>1, <4>2, <4>3
      <3>4. CASE ~HasMoreWork(n)
        <4>1. \A a \in Ancestors[n] : bnChainWork[a] <= bnChainWork[n] /\ a \in Block
          BY <1>2, ChainOrder
        <4>2. \A a \in Ancestors[n] : ~(bnChainWork[a] > bnChainWork[pindexBest])
          BY <1>1, <1>3, <3>4, <4>1 DEF HasMoreWork
        <4>3. (Behind(n) \ {pindexNew})' = {}
          BY <2>1, <4>2 DEF Behind
        <4> QED  BY <1>1, <4>3, FS_EmptySet
      <3> QED  BY <3>3, <3>4
    <2>5. mapBlockIndex' = mapBlockIndex \cup {n}
      BY <1>6 DEF NewInIndex
    <2> QED  BY <2>1, <2>2, <2>3, <2>4, <2>5 DEF LagBounded
  <1>7. CASE GivenUp
    <2>1. /\ pindexBest' = pindexBest /\ faults' = faults /\ mapBlockIndex' = mapBlockIndex
          /\ pindexNew' = NoBlock
      BY <1>7 DEF GivenUp
    <2>2. ASSUME NEW e \in mapBlockIndex, ValidChain(e)
          PROVE  Cardinality((Behind(e) \ {pindexNew})') <= faults
      <3>1. pindexNew \notin Ancestors[e]
        BY <1>1, <1>7, <2>2, PartOfValid DEF GivenUp
      <3>2. (Behind(e) \ {pindexNew})' \subseteq Ahead(e)
        BY <2>1, <3>1 DEF Behind
      <3>3. Cardinality(Ahead(e)) <= faults
        BY <2>2 DEF LagBounded
      <3> QED  BY <1>1, <1>4, <2>2, <3>2, <3>3
    <2> QED  BY <2>1, <2>2 DEF LagBounded
  <1>8. ASSUME pindexNew # NoBlock, pindexBest' = pindexNew
        PROVE  \A e \in mapBlockIndex : Behind(e)' \subseteq Ahead(e)
    <2>1. bnChainWork[pindexNew] > bnChainWork[pindexBest] /\ pindexNew \in Block
      BY <1>1, <1>8 DEF LagBounded, HasMoreWork
    <2>2. ASSUME NEW e \in mapBlockIndex, NEW a \in Ancestors[e],
                 bnChainWork[a] > bnChainWork[pindexNew]
          PROVE  bnChainWork[a] > bnChainWork[pindexBest] /\ a # pindexNew
      <3>1. bnChainWork[a] \in Nat /\ bnChainWork[pindexNew] \in Nat /\ bnChainWork[pindexBest] \in Nat
        BY <1>1, <1>2, <1>3, <2>1
      <3> QED  BY <2>1, <2>2, <3>1
    <2> QED  BY <1>8, <2>2 DEF Behind
  <1>9. CASE NewBest
    <2>1. /\ pindexNew # NoBlock /\ pindexBest' = pindexNew /\ pindexNew' = NoBlock
          /\ faults' = faults /\ mapBlockIndex' = mapBlockIndex
      BY <1>9 DEF NewBest
    <2>2. ASSUME NEW e \in mapBlockIndex, ValidChain(e)
          PROVE  Cardinality((Behind(e) \ {pindexNew})') <= faults
      <3>1. (Behind(e) \ {pindexNew})' \subseteq Ahead(e)
        BY <1>8, <2>1, <2>2
      <3>2. Cardinality(Ahead(e)) <= faults
        BY <2>2 DEF LagBounded
      <3> QED  BY <1>1, <1>4, <2>2, <3>1, <3>2
    <2> QED  BY <2>1, <2>2 DEF LagBounded
  <1>10. CASE Faulted
    <2>1. pindexNew' = NoBlock /\ faults' = faults + 1 /\ mapBlockIndex' = mapBlockIndex
      BY <1>10 DEF Faulted
    <2>2. ASSUME NEW e \in mapBlockIndex, ValidChain(e)
          PROVE  Cardinality((Behind(e) \ {pindexNew})') <= faults + 1
      <3>1. Behind(e)' \subseteq Behind(e)
        BY <1>8, <1>10, <2>2 DEF Faulted, Behind
      <3>2. Cardinality(Behind(e) \ {pindexNew}) <= faults
        BY <2>2 DEF LagBounded
      <3>3. e \in Block /\ Behind(e) \subseteq Ancestors[e] /\ faults \in Int
        BY <1>1, <2>2 DEF Behind
      <3>4. Cardinality(Behind(e)) <= faults + 1 /\ Cardinality(Behind(e)) \in Nat
        BY <3>2, <3>3, Counting
      <3>5. (Behind(e) \ {pindexNew})' \subseteq Behind(e)
        BY <3>1
      <3> DEFINE U == (Behind(e) \ {pindexNew})'
                 c == Cardinality(Behind(e))
      <3>6. U \subseteq Ancestors[e]
        BY <3>3, <3>5
      <3> HIDE DEF U
      <3>7. Cardinality(U) \in Nat
        BY <3>3, <3>6, Counting
      <3>8. Cardinality(U) <= c
        BY <3>3, <3>5, Counting DEF U
      <3>9. Cardinality(U) <= faults + 1
        <4> HIDE DEF c
        <4>1. c <= faults + 1 /\ c \in Nat
          BY <3>4 DEF c
        <4> QED  BY <1>1, <3>7, <3>8, <4>1
      <3> QED  BY <3>9 DEF U
    <2> QED  BY <2>1, <2>2 DEF LagBounded
  <1> QED  BY <1>5, <1>6, <1>7, <1>9, <1>10, TipSteps

LEMMA LagInvariant == NoNameBug /\ ModernRules => (Spec => []LagBounded)
  <1> SUFFICES ASSUME NoNameBug, ModernRules PROVE Spec => []LagBounded  OBVIOUS
  <1>1. Init => LagBounded
    <2> SUFFICES ASSUME Init PROVE LagBounded  OBVIOUS
    <2>1. mapBlockIndex = {Genesis} /\ pindexBest = Genesis /\ pindexNew = NoBlock /\ faults = 0
      BY DEF Init
    <2>2. bnChainWork[Genesis] \in Nat /\ Ancestors[Genesis] = {Genesis}
      BY BlockTree
    <2>3. Behind(Genesis) \ {pindexNew} = {}
      BY <2>1, <2>2 DEF Behind
    <2>4. Cardinality(Behind(Genesis) \ {pindexNew}) = 0
      BY <2>3, FS_EmptySet
    <2> QED  BY <2>1, <2>4 DEF LagBounded
  <1>2. /\ NodeInv /\ NameIndexOK /\ BothCoinsOK /\ BlocksValid /\ ReorgCanUndo
        /\ LagBounded /\ [Next]_vars
        => LagBounded'
    BY LagNext
  <1> QED  BY <1>1, <1>2, NodeInvariant, NamesInvariant, CoinsInvariant, BlocksInvariant,
              EveryBlockCanBeUndone, PTL DEF Spec

(* Under modern rules the node follows the heaviest valid chain it knows,   *)
(* for every tree of blocks and every order of arrival: SetBestChain,       *)
(* Reorganize and ConnectBlock never leave a valid chain with more work     *)
(* behind, except one block for each crash or failed commit between the     *)
(* commits of AddToBlockIndex and SetBestChain.                             *)
THEOREM FollowsHeaviestValidChain ==
    NoNameBug /\ ModernRules => (Spec => []OnHeaviestValidChain)
  <1> SUFFICES ASSUME NoNameBug, ModernRules PROVE Spec => []OnHeaviestValidChain  OBVIOUS
  <1>1. NodeInv /\ LagBounded => OnHeaviestValidChain
    <2> SUFFICES ASSUME NodeInv, LagBounded, stage = "idle", NEW b \in mapBlockIndex,
                        ValidChain(b), Cardinality(Behind(b)) > faults
                 PROVE  FALSE
      BY DEF OnHeaviestValidChain
    <2>1. pindexNew = NoBlock /\ b \in Block /\ faults \in Nat
      BY DEF NodeInv, TypeOK, JobType, ChainType
    <2>2. Behind(b) \ {pindexNew} = Behind(b) /\ Behind(b) \subseteq Ancestors[b]
      BY <2>1, BlockTree DEF Behind
    <2>3. Cardinality(Behind(b)) <= faults
      BY <2>2 DEF LagBounded
    <2>4. Cardinality(Behind(b)) \in Nat
      BY <2>1, <2>2, Counting
    <2> QED  BY <2>1, <2>3, <2>4
  <1> QED  BY <1>1, NodeInvariant, LagInvariant, PTL
-----------------------------------------------------------------------------
(* The work queue of ProcessBlock: while nothing has failed, an orphan whose *)
(* predecessor ends a valid chain of the index has that predecessor in the   *)
(* queue, or the predecessor is still being connected.                       *)
Queued(b) == b = pindexNew \/ \E i \in DOMAIN vWorkQueue : vWorkQueue[i] = b

OrphansQueued ==
    /\ mapOrphanBlocks \cap mapBlockIndex = {}
    /\ faults = 0 =>
          \A b \in mapOrphanBlocks :
             hashPrevBlock[b] \in mapBlockIndex /\ ValidChain(hashPrevBlock[b])
                => Queued(hashPrevBlock[b])

(* ProcessBlock returns only when its work queue is empty. *)
IdleQueueEmpty == stage = "idle" => vWorkQueue = <<>>

LEMMA IdleQueueNext ==
    ASSUME NodeInv, IdleQueueEmpty, [Next]_vars
    PROVE  IdleQueueEmpty'
  <1> USE DEF diskVars, txnVars, chainVars, viewVars, jobVars, poolVars, IdleQueueEmpty
  <1>1. CASE UNCHANGED <<stage, vWorkQueue>>
    BY <1>1
  <1>2. ASSUME NEW b \in Block, ProcessBlock(b) \/ ProcessOrphan(b) PROVE IdleQueueEmpty'
    BY <1>2 DEF ProcessBlock, ProcessOrphan, AcceptBlock, IndexBlock, RejectBlock
  <1>3. ASSUME NEW b \in Block, ProcessBlockOrphan(b) \/ ProcessBlockRefused(b)
        PROVE  UNCHANGED <<stage, vWorkQueue>>
    BY <1>3 DEF ProcessBlockOrphan, ProcessBlockRefused, vars
  <1>4. ASSUME NEW t \in Tx, AcceptToMemoryPool(t) \/ deletetransaction(t)
        PROVE  UNCHANGED <<stage, vWorkQueue>>
    BY <1>4 DEF AcceptToMemoryPool, deletetransaction
  <1>5. CASE NextInQueue \/ ProcessBlockDone \/ ResurrectTx \/ ResurrectDone \/ DeleteTx
             \/ NewBestBlock \/ UNCHANGED vars
    BY <1>5 DEF NextInQueue, ProcessBlockDone, ResurrectTx, ResurrectDone, DeleteTx, NewBestBlock,
                vars
  <1>6. CASE DisconnectInputs \/ DisconnectBlock \/ ConnectNext \/ ConnectInputs \/ ConnectBlock
             \/ TxnCommit
    BY <1>6 DEF DisconnectInputs, DisconnectBlock, ConnectNext, ConnectInputs, ConnectBlock,
                TxnCommit
  <1>7. CASE DisconnectFails \/ ConnectInputsFails \/ ConnectBlockFails \/ Fault
    BY <1>7 DEF DisconnectFails, ConnectInputsFails, ConnectBlockFails, Abort, Fault,
                TxnCommitFails, Restart
  <1> QED  BY <1>1, <1>2, <1>3, <1>4, <1>5, <1>6, <1>7 DEF Next, Work, Input

LEMMA QueueKeeps ==
    ASSUME NEW q \in Seq(Block), NEW x \in Block
    PROVE  /\ \A i \in DOMAIN q : i \in DOMAIN Append(q, x) /\ Append(q, x)[i] = q[i]
           /\ \E i \in DOMAIN Append(q, x) : Append(q, x)[i] = x
           /\ q # <<>> => \A i \in DOMAIN q : q[i] = Head(q)
                             \/ \E j \in DOMAIN Tail(q) : Tail(q)[j] = q[i]
  <1>1. \A i \in DOMAIN q : i \in DOMAIN Append(q, x) /\ Append(q, x)[i] = q[i]
    OBVIOUS
  <1>2. Len(q) + 1 \in DOMAIN Append(q, x) /\ Append(q, x)[Len(q) + 1] = x
    OBVIOUS
  <1>3. ASSUME q # <<>>, NEW i \in DOMAIN q, i # 1
        PROVE  i - 1 \in DOMAIN Tail(q) /\ Tail(q)[i - 1] = q[i]
    BY <1>3
  <1>4. q # <<>> => Head(q) = q[1]
    OBVIOUS
  <1> QED  BY <1>1, <1>2, <1>3, <1>4

LEMMA QueueNext ==
    ASSUME ModernRules, NodeInv, NameIndexOK, BothCoinsOK, BlocksValid, ReorgCanUndo,
           OrphansQueued, [Next]_vars
    PROVE  OrphansQueued'
  <1> USE DEF diskVars, txnVars, chainVars, viewVars, jobVars, poolVars
  <1>1. /\ vWorkQueue \in Seq(Block) /\ faults \in Nat /\ mapBlockIndex \subseteq Block
        /\ mapOrphanBlocks \subseteq Block
        /\ stage \in {"idle", "orphans"} <=> pindexNew = NoBlock
        /\ pindexNew \in mapBlockIndex \cup {NoBlock}
    BY DEF NodeInv, TypeOK, ChainType, JobType
  <1>2. \A b \in Block : hashPrevBlock[b] # b
    BY BlockTree
  <1> DEFINE Waiting(b) == hashPrevBlock[b] \in mapBlockIndex /\ ValidChain(hashPrevBlock[b])
             Same == UNCHANGED <<mapBlockIndex, mapOrphanBlocks, pindexNew, vWorkQueue, faults>>
  <1>3. CASE Same
    BY <1>3 DEF OrphansQueued, Queued
  (* A block that enters the index is connected at once or queued. *)
  <1>4. ASSUME NEW b \in Block, AcceptBlock(b), stage \in {"idle", "orphans"},
               b \in mapOrphanBlocks' => FALSE, mapOrphanBlocks' \subseteq mapOrphanBlocks
        PROVE  OrphansQueued'
    <2>1. pindexNew = NoBlock /\ mapBlockIndex' = mapBlockIndex \cup {b} /\ faults' = faults
      BY <1>1, <1>4 DEF AcceptBlock, IndexBlock
    <2>2. \/ pindexNew' = b /\ vWorkQueue' = vWorkQueue
          \/ pindexNew' = NoBlock /\ vWorkQueue' = Append(vWorkQueue, b)
      BY <1>4, <2>1 DEF AcceptBlock, IndexBlock
    <2>3. Queued(b)'
      <3>1. CASE pindexNew' = b
        BY <3>1 DEF Queued
      <3>2. CASE vWorkQueue' = Append(vWorkQueue, b)
        <4>1. \E i \in DOMAIN vWorkQueue' : vWorkQueue'[i] = b
          BY <1>1, <3>2, QueueKeeps
        <4> QED  BY <4>1 DEF Queued
      <3> QED  BY <2>2, <3>1, <3>2
    <2>4. \A i \in DOMAIN vWorkQueue : i \in DOMAIN vWorkQueue' /\ vWorkQueue'[i] = vWorkQueue[i]
      <3>1. vWorkQueue \in Seq(Block)
        BY <1>1
      <3>2. \A i \in DOMAIN vWorkQueue : /\ i \in DOMAIN Append(vWorkQueue, b)
                                         /\ Append(vWorkQueue, b)[i] = vWorkQueue[i]
        BY <1>4, <3>1, QueueKeeps
      <3> QED  BY <2>2, <3>2
    <2>5. ASSUME NEW x \in Block, Queued(x) PROVE Queued(x)'
      <3>1. x # pindexNew
        BY <2>1, BlockTree
      <3>2. PICK i \in DOMAIN vWorkQueue : vWorkQueue[i] = x
        BY <2>5, <3>1 DEF Queued
      <3> QED  BY <2>4, <3>2 DEF Queued
    <2>6. \A c \in mapOrphanBlocks' : hashPrevBlock[c] \in mapBlockIndex' => hashPrevBlock[c] \in Block
      BY <1>1, <2>1
    <2> QED  BY <1>4, <2>1, <2>3, <2>5, <2>6 DEF OrphansQueued
  <1>5. ASSUME NEW b \in Block, RejectBlock(b), mapOrphanBlocks' \subseteq mapOrphanBlocks
        PROVE  OrphansQueued'
    BY <1>5 DEF RejectBlock, OrphansQueued, Queued
  <1>6. ASSUME NEW b \in Block, ProcessBlock(b) PROVE OrphansQueued'
    <2>1. stage = "idle" /\ b \notin mapOrphanBlocks' /\ mapOrphanBlocks' = mapOrphanBlocks
      BY <1>6 DEF ProcessBlock
    <2> QED  BY <1>4, <1>5, <1>6, <2>1 DEF ProcessBlock
  <1>7. ASSUME NEW b \in Block, ProcessOrphan(b) PROVE OrphansQueued'
    <2>1. stage = "orphans" /\ b \notin mapOrphanBlocks' /\ mapOrphanBlocks' \subseteq mapOrphanBlocks
      BY <1>7 DEF ProcessOrphan
    <2> QED  BY <1>4, <1>5, <1>7, <2>1 DEF ProcessOrphan
  <1>8. ASSUME NEW b \in Block, ProcessBlockOrphan(b) PROVE OrphansQueued'
    BY <1>8 DEF ProcessBlockOrphan, OrphansQueued, Queued
  <1>9. ASSUME NEW b \in Block, ProcessBlockRefused(b) PROVE Same
    BY <1>9 DEF ProcessBlockRefused, vars
  <1>10. ASSUME NEW t \in Tx, AcceptToMemoryPool(t) \/ deletetransaction(t) PROVE Same
    BY <1>10 DEF AcceptToMemoryPool, deletetransaction
  <1>11. CASE ProcessBlockDone \/ ResurrectTx \/ ResurrectDone \/ DeleteTx \/ UNCHANGED vars
    BY <1>3, <1>11 DEF ProcessBlockDone, ResurrectTx, ResurrectDone, DeleteTx, vars
  <1>12. CASE NextInQueue
    <2>1. /\ pindexNew' = pindexNew /\ vWorkQueue # <<>> /\ vWorkQueue' = Tail(vWorkQueue)
          /\ mapOrphanBlocks' = mapOrphanBlocks /\ mapBlockIndex' = mapBlockIndex
          /\ faults' = faults /\ \A b \in mapOrphanBlocks : hashPrevBlock[b] # Head(vWorkQueue)
      BY <1>12 DEF NextInQueue
    <2>2. \A i \in DOMAIN vWorkQueue : vWorkQueue[i] = Head(vWorkQueue)
             \/ \E j \in DOMAIN vWorkQueue' : vWorkQueue'[j] = vWorkQueue[i]
      BY <1>1, <2>1, QueueKeeps, BlockTree
    <2>3. \A x : Queued(x) /\ x # Head(vWorkQueue) => Queued(x)'
      BY <2>1, <2>2 DEF Queued
    <2> QED  BY <2>1, <2>3 DEF OrphansQueued
  <1>13. CASE DisconnectInputs \/ DisconnectBlock \/ ConnectNext \/ ConnectInputs \/ ConnectBlock
             \/ TxnCommit
    BY <1>3, <1>13 DEF DisconnectInputs, DisconnectBlock, ConnectNext, ConnectInputs, ConnectBlock,
                TxnCommit
  <1>14. CASE DisconnectFails \/ ConnectInputsFails \/ ConnectBlockFails
    <2>1. ~ValidChain(pindexNew)
      BY <1>14, GivenUpIsInvalid
    <2>2. UNCHANGED <<mapBlockIndex, mapOrphanBlocks, vWorkQueue, faults>>
      BY <1>14 DEF DisconnectFails, ConnectInputsFails, ConnectBlockFails, Abort
    <2>3. \A x : Queued(x) /\ x # pindexNew => Queued(x)'
      BY <2>2 DEF Queued
    <2> QED  BY <2>1, <2>2, <2>3 DEF OrphansQueued
  <1>15. CASE Fault
    <2>1. faults' = faults + 1 /\ mapBlockIndex' = mapBlockIndex
          /\ mapOrphanBlocks' \subseteq mapOrphanBlocks
      BY <1>15 DEF Fault, TxnCommitFails, Abort, Restart
    <2> QED  BY <1>1, <2>1 DEF OrphansQueued
  <1>16. CASE NewBestBlock
    <2>1. /\ pindexNew \in Block /\ vWorkQueue' = Append(vWorkQueue, pindexNew)
          /\ UNCHANGED <<mapBlockIndex, mapOrphanBlocks, faults>>
      BY <1>1, <1>16 DEF NewBestBlock
    <2>2. \A x : Queued(x) => Queued(x)'
      BY <1>1, <2>1, QueueKeeps DEF Queued
    <2> QED  BY <2>1, <2>2 DEF OrphansQueued
  <1> QED  BY <1>3, <1>6, <1>7, <1>8, <1>9, <1>10, <1>11, <1>12, <1>13, <1>14, <1>15, <1>16
           DEF Next, Work, Input

(* Under modern rules, when ProcessBlock has released cs_main and nothing   *)
(* has failed, no orphan block is left waiting although its predecessor     *)
(* ends a valid chain of the index: the work queue of ProcessBlock reaches  *)
(* every orphan that has become connectable, in whatever order they came.   *)
THEOREM NoOrphanStranded == NoNameBug /\ ModernRules => (Spec => []NoStrandedOrphan)
  <1> SUFFICES ASSUME NoNameBug, ModernRules PROVE Spec => []NoStrandedOrphan  OBVIOUS
  <1>1. Init => OrphansQueued
    BY DEF Init, OrphansQueued
  <1>2. /\ NodeInv /\ NameIndexOK /\ BothCoinsOK /\ BlocksValid /\ ReorgCanUndo
        /\ OrphansQueued /\ [Next]_vars
        => OrphansQueued'
    BY QueueNext
  <1>3. ASSUME NodeInv, OrphansQueued, IdleQueueEmpty PROVE NoStrandedOrphan
    <2> SUFFICES ASSUME stage = "idle", faults = 0, NEW b \in mapOrphanBlocks
                 PROVE  b \notin mapBlockIndex /\
                        (hashPrevBlock[b] \in mapBlockIndex => ~ValidChain(hashPrevBlock[b]))
      BY DEF NoStrandedOrphan
    <2>1. pindexNew = NoBlock /\ vWorkQueue = <<>> /\ NoBlock \notin mapBlockIndex
      BY <1>3, BlockTree DEF NodeInv, TypeOK, JobType, ChainType, IdleQueueEmpty
    <2> QED  BY <1>3, <2>1 DEF OrphansQueued, Queued
  <1>4. Init => IdleQueueEmpty
    BY DEF Init, IdleQueueEmpty
  <1>5. NodeInv /\ IdleQueueEmpty /\ [Next]_vars => IdleQueueEmpty'
    BY IdleQueueNext
  <1> QED  BY <1>1, <1>2, <1>3, <1>4, <1>5, NodeInvariant, NamesInvariant, CoinsInvariant,
              BlocksInvariant, EveryBlockCanBeUndone, PTL DEF Spec
-----------------------------------------------------------------------------
(* No inflation: whatever the rules for names are, and in every chain.     *)

(* The coinbase claims no more than subsidy and fees. *)
PaidFor(b) == GetValueOut(vtx[b][1]) <= GetBlockValue(nHeight[b], BlockFees(b))

PaidChain(b) == \A a \in Ancestors[b] \ {Genesis} : PaidFor(a)

BlocksPaid ==
    /\ PaidChain(dbBest)
    /\ stage = "connect" => PaidChain(hashPrevBlock[tip]) /\ nFees = FeesUpTo(tip, nTx)
    /\ stage = "connected" => PaidChain(tip)

LEMMA ConnectInputsPaid ==
    ASSUME NodeInv, ConnectInputs, nFees = FeesUpTo(tip, nTx)
    PROVE  nFees' = FeesUpTo(tip, nTx + 1)
  <1> DEFINE t == vtx[tip][nTx + 1]
  <1>1. /\ tip \in Block \ {Genesis} /\ nTx \in Nat /\ nTx < Len(vtx[tip])
        /\ CheckBlock(tip) /\ vtx[tip] \in Seq(Tx) /\ nTx + 1 \in DOMAIN vtx[tip] /\ t \in Tx
    <2>1. stage = "connect" /\ nTx < Len(vtx[tip]) /\ tip \in Block \ {Genesis} /\ nTx \in Nat
      BY ConnectInputsFacts DEF ConnectInputs
    <2>2. CheckBlock(tip)
      BY <2>1 DEF NodeInv, IndexClosed, TypeOK, JobType
    <2>3. vtx[tip] \in Seq(Tx)
      BY <2>1, TxAssumption
    <2> QED  BY <2>1, <2>2, <2>3
  <1>2. IsCoinBase(t) <=> nTx = 0
    BY <1>1 DEF CheckBlock
  <1>3. nFees' = IF IsCoinBase(t) THEN nFees ELSE nFees + TxFee(t)
    BY DEF ConnectInputs
  <1>4. CASE nTx = 0
    BY <1>1, <1>2, <1>3, <1>4, FeesAreSums
  <1>5. CASE nTx # 0
    <2>1. nTx + 1 \in 2 .. Len(vtx[tip]) /\ (nTx + 1) - 1 = nTx
      BY <1>1, <1>5
    <2>2. FeesUpTo(tip, nTx + 1) = FeesUpTo(tip, nTx) + GetValueIn(t) - GetValueOut(t)
      BY <1>1, <2>1, FeesAreSums
    <2>3. GetValueIn(t) \in Nat /\ GetValueOut(t) \in Nat /\ nFees \in Int
      BY <1>1, Values DEF NodeInv, TypeOK, JobType
    <2> HIDE DEF t
    <2> QED  BY <1>2, <1>3, <1>5, <2>2, <2>3 DEF TxFee
  <1> QED  BY <1>4, <1>5

LEMMA PaidNext ==
    ASSUME NodeInv, BlocksPaid, [Next]_vars
    PROVE  BlocksPaid'
  <1> USE DEF diskVars, txnVars, chainVars, viewVars
  <1>1. CASE ConnectInputs
    <2>1. stage = "connect" /\ UNCHANGED <<tip, dbBest, stage>> /\ nTx' = nTx + 1
      BY <1>1 DEF ConnectInputs
    <2>2. nFees' = FeesUpTo(tip, nTx + 1)
      BY <1>1, <2>1, ConnectInputsPaid DEF BlocksPaid
    <2> QED  BY <2>1, <2>2 DEF BlocksPaid
  <1>2. CASE QuietStep
    <2>1. UNCHANGED <<tip, nTx, dbBest>> /\ (stage' \in {"connect", "connected"} => stage' = stage)
      BY <1>2 DEF QuietStep, Committed
    <2>2. stage' = "connect" => UNCHANGED nFees \/ ConnectInputs
      BY <2>1, FeesSteps
    <2> QED  BY <1>1, <2>1, <2>2 DEF BlocksPaid
  <1>3. CASE DisconnectInputs \/ DisconnectBlock
    BY <1>3 DEF DisconnectInputs, DisconnectBlock, BlocksPaid
  <1>4. CASE ConnectNext
    <2>1. tip' \in Block \ {Genesis} /\ hashPrevBlock[tip'] = tip
      BY <1>4, ConnectNextFacts
    <2>2. nTx' = 0 /\ nFees' = 0 /\ stage' = "connect" /\ dbBest' = dbBest
      BY <1>4 DEF ConnectNext
    <2>3. PaidChain(tip)
      <3>1. CASE stage = "connected"
        BY <3>1 DEF BlocksPaid
      <3>2. CASE stage = "disconnect" /\ AtFork
        <4>1. tip \in Ancestors[dbBest] /\ dbBest \in Block
          BY <3>2, JobFacts DEF NodeInv, JobOK
        <4>2. Ancestors[tip] \subseteq Ancestors[dbBest]
          BY <4>1, ChainOrder
        <4> QED  BY <4>2 DEF BlocksPaid, PaidChain
      <3> QED  BY <1>4, <3>1, <3>2 DEF ConnectNext
    <2>4. FeesUpTo(tip', 0) = 0
      BY <2>1, FeesAreSums
    <2> QED  BY <2>1, <2>2, <2>3, <2>4 DEF BlocksPaid
  <1>5. CASE ConnectBlock
    <2>1. /\ stage = "connect" /\ nTx = Len(vtx[tip]) /\ CoinbaseOK
          /\ stage' = "connected" /\ UNCHANGED <<dbBest, tip>>
      BY <1>5 DEF ConnectBlock
    <2>2. tip \in Block \ {Genesis}
      BY <2>1, JobFacts DEF NodeInv, JobOK
    <2>3. PaidFor(tip)
      BY <2>1 DEF BlocksPaid, PaidFor, CoinbaseOK, BlockFees
    <2>4. PaidChain(tip)
      BY <2>1, <2>2, <2>3, Ancestry DEF BlocksPaid, PaidChain
    <2> QED  BY <2>1, <2>4 DEF BlocksPaid
  <1>6. CASE AbortingStep \/ Restart
    BY <1>6 DEF AbortingStep, Abort, Restart, BlocksPaid
  <1>7. CASE TxnCommit
    BY <1>7 DEF TxnCommit, ReadyToCommit, BlocksPaid
  <1> QED  BY <1>1, <1>2, <1>3, <1>4, <1>5, <1>6, <1>7, StepKinds

LEMMA PaidInvariant == Spec => []BlocksPaid
  <1>1. Init => BlocksPaid
    BY BlockTree DEF Init, BlocksPaid, PaidChain
  <1>2. NodeInv /\ BlocksPaid /\ [Next]_vars => BlocksPaid'
    BY PaidNext
  <1> QED  BY <1>1, <1>2, NodeInvariant, PTL DEF Spec

(* The coins that a set of transactions leaves. *)
CoinsOf(P) == {o \in UNION {OutputsOf(t) : t \in P} : \A u \in P : o \notin vin[u]}

(* One more transaction takes its inputs away and adds its outputs. *)
LEMMA OneMoreTx ==
    ASSUME NEW P \in SUBSET Tx, IsFiniteSet(CoinsOf(P)), NEW t \in Tx \ P,
           vin[t] \subseteq CoinsOf(P),
           \A u \in P \cup {t} : \A o \in vin[u] : o[1] # t
    PROVE  /\ IsFiniteSet(CoinsOf(P \cup {t}))
           /\ ValueOf(CoinsOf(P \cup {t})) = ValueOf(CoinsOf(P)) - GetValueIn(t) + GetValueOut(t)
           /\ ValueOf(CoinsOf(P)) \in Nat
  <1> DEFINE C == CoinsOf(P)
             K == C \ vin[t]
             O == OutputsOf(t)
             All == Tx \X (Nat \ {0})
  <1>1. \A u \in Tx : \A o \in OutputsOf(u) : o[1] = u /\ o \in All
    BY FiniteOutputs DEF OutputsOf
  <1>2. C \subseteq All /\ O \subseteq All /\ K \subseteq All /\ vin[t] \subseteq All
    BY <1>1 DEF CoinsOf
  <1>3. CoinsOf(P \cup {t}) = K \cup O
    <2>1. ASSUME NEW o \in CoinsOf(P \cup {t}) PROVE o \in K \cup O
      BY DEF CoinsOf
    <2>2. ASSUME NEW o \in K PROVE o \in CoinsOf(P \cup {t})
      BY DEF CoinsOf
    <2>3. ASSUME NEW o \in O PROVE o \in CoinsOf(P \cup {t})
      BY <1>1 DEF CoinsOf
    <2> QED  BY <2>1, <2>2, <2>3
  <1>4. IsFiniteSet(C) /\ IsFiniteSet(K) /\ IsFiniteSet(O) /\ IsFiniteSet(vin[t])
    BY FiniteOutputs, FS_Subset
  <1>5. K \cap O = {} /\ K \cap vin[t] = {} /\ K \cup vin[t] = C
    BY <1>1 DEF CoinsOf
  <1>6. IsFiniteSet(K \cup O) /\ K \cup O \subseteq All
    BY <1>2, <1>4, FS_Union
  <1> HIDE DEF K, O, C, All
  <1>7. /\ ValueOf(C) = SumFunctionOnSet(nValues, C) /\ ValueOf(C) \in Nat
        /\ ValueOf(K) = SumFunctionOnSet(nValues, K) /\ ValueOf(K) \in Nat /\ IntOn(nValues, K)
    BY <1>2, <1>4, ValueIsSum DEF All
  <1>8. /\ ValueOf(O) = SumFunctionOnSet(nValues, O) /\ ValueOf(O) \in Nat /\ IntOn(nValues, O)
        /\ ValueOf(vin[t]) = SumFunctionOnSet(nValues, vin[t]) /\ ValueOf(vin[t]) \in Nat
        /\ IntOn(nValues, vin[t])
    BY <1>2, <1>4, ValueIsSum DEF All
  <1>9. ValueOf(K \cup O) = SumFunctionOnSet(nValues, K \cup O)
    BY <1>6, ValueIsSum DEF All
  <1>10. SumFunctionOnSet(nValues, K \cup O) = SumFunctionOnSet(nValues, K) + SumFunctionOnSet(nValues, O)
    BY <1>4, <1>5, <1>7, <1>8, SumUnion
  <1>11. SumFunctionOnSet(nValues, K \cup vin[t])
            = SumFunctionOnSet(nValues, K) + SumFunctionOnSet(nValues, vin[t])
    BY <1>4, <1>5, <1>7, <1>8, SumUnion
  <1> DEFINE k == ValueOf(K)
             i == ValueOf(vin[t])
             o == ValueOf(O)
  <1>12. /\ k \in Nat /\ i \in Nat /\ o \in Nat
         /\ ValueOf(CoinsOf(P \cup {t})) = k + o /\ ValueOf(C) = k + i
         /\ GetValueIn(t) = i /\ GetValueOut(t) = o
    BY <1>3, <1>5, <1>7, <1>8, <1>9, <1>10, <1>11 DEF GetValueIn, GetValueOut, O
  <1>13. k + o = (k + i) - i + o /\ k + i \in Nat
    <2> HIDE DEF k, i, o
    <2> QED  BY <1>12
  <1> QED  BY <1>3, <1>6, <1>12, <1>13 DEF C

(* Of two blocks of a chain the lower one precedes the other. *)
LEMMA OnOneChain ==
    ASSUME NEW b \in Block, NEW a \in Ancestors[b], NEW e \in Ancestors[b], nHeight[a] <= nHeight[e]
    PROVE  a \in Ancestors[e]
  <1> DEFINE Ordered(c) == \A x, y \in Ancestors[c] : nHeight[x] <= nHeight[y] => x \in Ancestors[y]
             T == {c \in Block : Ordered(c)}
  <1>1. ASSUME NEW c \in Block, c = Genesis \/ hashPrevBlock[c] \in T PROVE c \in T
    <2>1. CASE c = Genesis
      BY <2>1, BlockTree
    <2>2. CASE c # Genesis
      <3> DEFINE p == hashPrevBlock[c]
      <3>1. /\ p \in Block /\ Ancestors[c] = {c} \cup Ancestors[p] /\ Ancestors[p] \subseteq Block
            /\ \A x \in Ancestors[p] : nHeight[x] < nHeight[c] /\ nHeight[x] \in Nat
            /\ nHeight[c] \in Nat
        BY <2>2, BlockTree
      <3>2. Ordered(p)
        BY <1>1, <2>2
      <3> HIDE DEF p
      <3> SUFFICES ASSUME NEW x \in Ancestors[c], NEW y \in Ancestors[c], nHeight[x] <= nHeight[y]
                   PROVE  x \in Ancestors[y]
        OBVIOUS
      <3>3. CASE y = c
        BY <3>3
      <3>4. CASE y # c
        <4>1. y \in Ancestors[p] /\ nHeight[y] < nHeight[c]
          BY <3>1, <3>4
        <4>2. x # c
          BY <3>1, <4>1
        <4> QED  BY <3>1, <3>2, <4>1, <4>2
      <3> QED  BY <3>3, <3>4
    <2> QED  BY <2>1, <2>2
  <1>2. Block \subseteq T
    <2> HIDE DEF T
    <2> QED  BY <1>1, BlocksDescend, ForestInduction
  <1> QED  BY <1>2

(* The transactions of the indexed chain up to the n-th of block e. *)
UpTo(tv, e, n) == {t \in IndexedTx(tv) : InChain(tv[t].pos[1], tv[t].pos[2], e, n)}

LEMMA UpToBlock ==
    ASSUME NEW tv, NEW e \in Block
    PROVE  /\ \A n : UpTo(tv, Genesis, n) = {}
           /\ e # Genesis =>
                UpTo(tv, e, 0) = UpTo(tv, hashPrevBlock[e], Len(vtx[hashPrevBlock[e]]))
  <1>1. \A n : UpTo(tv, Genesis, n) = {}
    BY BlockTree DEF UpTo, InChain
  <1>2. ASSUME e # Genesis
        PROVE  UpTo(tv, e, 0) = UpTo(tv, hashPrevBlock[e], Len(vtx[hashPrevBlock[e]]))
    <2> DEFINE p == hashPrevBlock[e]
    <2>1. /\ p \in Block /\ Ancestors[e] = {e} \cup Ancestors[p] /\ e \notin Ancestors[p]
          /\ Ancestors[e] \subseteq Block
      BY <1>2, Ancestry
    <2>2. \A b \in Ancestors[e] : Len(vtx[b]) \in Nat
      BY <2>1, TxAssumption
    <2> HIDE DEF p
    <2>3. ASSUME NEW b, NEW i PROVE InChain(b, i, e, 0) <=> InChain(b, i, p, Len(vtx[p]))
      BY <2>1, <2>2 DEF InChain
    <2> QED  BY <2>3 DEF UpTo, p
  <1> QED  BY <1>1, <1>2

LEMMA UpToTx ==
    ASSUME NEW tv \in TxIndexType, NEW e0 \in Block, ChainView(tv, e0, Len(vtx[e0])),
           NEW e \in Ancestors[e0] \ {Genesis}, NEW n \in Nat, n < Len(vtx[e])
    PROVE  LET t == vtx[e][n + 1]
               P == UpTo(tv, e, n)
           IN  /\ t \in Tx \ P /\ UpTo(tv, e, n + 1) = P \cup {t}
               /\ vin[t] \subseteq CoinsOf(P)
               /\ \A u \in P \cup {t} : \A o \in vin[u] : o[1] # t
  <1> DEFINE t == vtx[e][n + 1]
             P == UpTo(tv, e, n)
  <1>1. /\ e \in Block \ {Genesis} /\ Ancestors[e0] \subseteq Block /\ Ancestors[e] \subseteq Block
        /\ vtx[e] \in Seq(Tx) /\ Len(vtx[e]) \in Nat
        /\ nHeight[e] \in Nat /\ e \in Ancestors[e]
    <2>1. Ancestors[e0] \subseteq Block /\ e \in Block \ {Genesis}
      BY BlockTree
    <2>2. Ancestors[e] \subseteq Block /\ nHeight[e] \in Nat /\ e \in Ancestors[e]
      BY <2>1, BlockTree, ChainOrder
    <2>3. vtx[e] \in Seq(Tx)
      BY <2>1, TxAssumption
    <2> QED  BY <2>1, <2>2, <2>3
  <1>2. n + 1 \in 1 .. Len(vtx[e]) /\ t \in Tx
    BY <1>1
  <1>3. InChain(e, n + 1, e0, Len(vtx[e0]))
    BY <1>1, <1>2 DEF InChain
  <1>4. tv[t].pos = <<e, n + 1>> /\ HasTxIndex(tv, t) /\ t \in IndexedTx(tv)
    <2>1. tv[t].pos = <<e, n + 1>>
      BY <1>1, <1>2, <1>3 DEF ChainView, IndexIsChain, PosOf
    <2>2. e # NoBlock
      BY <1>1, BlockTree
    <2>3. tv[t].pos # NoPos
      BY <2>1, <2>2 DEF NoPos
    <2> QED  BY <1>2, <2>1, <2>3 DEF HasTxIndex, IndexedTx
  <1>5. ASSUME NEW u \in IndexedTx(tv)
        PROVE  /\ u \in Tx /\ tv[u].pos[1] \in Ancestors[e0] \ {Genesis}
               /\ tv[u].pos[2] \in 1 .. Len(vtx[tv[u].pos[1]])
               /\ vtx[tv[u].pos[1]][tv[u].pos[2]] = u
               /\ tv[u].pos[1] \in Block /\ nHeight[tv[u].pos[1]] \in Nat
               /\ Len(vtx[tv[u].pos[1]]) \in Nat
    <2>1. /\ u \in Tx /\ tv[u].pos[1] \in Ancestors[e0] \ {Genesis}
          /\ tv[u].pos[2] \in 1 .. Len(vtx[tv[u].pos[1]])
          /\ vtx[tv[u].pos[1]][tv[u].pos[2]] = u
      BY DEF ChainView, IndexIsChain, IndexedTx, InChain
    <2>2. tv[u].pos[1] \in Block
      BY <1>1, <2>1
    <2>3. vtx[tv[u].pos[1]] \in Seq(Tx) /\ nHeight[tv[u].pos[1]] \in Nat
      BY <2>2, BlockTree, TxAssumption
    <2> QED  BY <2>1, <2>2, <2>3
  <1>6. t \notin P
    BY <1>4 DEF UpTo, InChain
  <1>7. UpTo(tv, e, n + 1) = P \cup {t}
    <2>1. ASSUME NEW u \in UpTo(tv, e, n + 1) PROVE u \in P \cup {t}
      <3>1. u \in IndexedTx(tv) /\ InChain(tv[u].pos[1], tv[u].pos[2], e, n + 1)
        BY DEF UpTo
      <3>2. CASE tv[u].pos[1] = e /\ tv[u].pos[2] = n + 1
        BY <1>5, <3>1, <3>2
      <3>3. CASE ~(tv[u].pos[1] = e /\ tv[u].pos[2] = n + 1)
        <4>1. InChain(tv[u].pos[1], tv[u].pos[2], e, n)
          BY <1>1, <3>1, <3>3 DEF InChain
        <4> QED  BY <3>1, <4>1 DEF UpTo
      <3> QED  BY <3>2, <3>3
    <2>2. ASSUME NEW u \in P PROVE u \in UpTo(tv, e, n + 1)
      BY <1>1 DEF UpTo, InChain
    <2>3. t \in UpTo(tv, e, n + 1)
      BY <1>1, <1>2, <1>4 DEF UpTo, InChain
    <2> QED  BY <2>1, <2>2, <2>3
  <1>8. ASSUME NEW o \in vin[t] PROVE o \in CoinsOf(P)
    <2>1. o \in Tx \X (Nat \ {0})
      BY <1>2, TxAssumption
    <2>2. /\ HasTxIndex(tv, o[1]) /\ o[2] \in 1 .. Len(vout[o[1]])
          /\ Precedes(tv[o[1]].pos, <<e, n + 1>>)
      BY <1>4 DEF ChainView, InputsPrecede
    <2>3. o[1] \in IndexedTx(tv)
      BY <2>1, <2>2 DEF IndexedTx
    <2> DEFINE q == tv[o[1]].pos
    <2>4. /\ q[1] \in Ancestors[e0] \ {Genesis} /\ q[2] \in 1 .. Len(vtx[q[1]])
          /\ nHeight[q[1]] \in Nat /\ Len(vtx[q[1]]) \in Nat
      BY <1>5, <2>3
    <2>5. nHeight[q[1]] < nHeight[e] \/ (q[1] = e /\ q[2] < n + 1)
      BY <2>2 DEF Precedes
    <2> HIDE DEF q
    <2>6. InChain(q[1], q[2], e, n)
      <3>1. nHeight[q[1]] <= nHeight[e]
        BY <1>1, <2>4, <2>5
      <3>2. q[1] \in Ancestors[e]
        BY <2>4, <3>1, OnOneChain
      <3>3. q[1] = e => q[2] <= n
        BY <1>1, <2>4, <2>5
      <3> QED  BY <2>4, <3>2, <3>3 DEF InChain
    <2>7. o[1] \in P
      BY <2>3, <2>6 DEF UpTo, q
    <2>8. o \in OutputsOf(o[1])
      <3>1. vout[o[1]] \in Seq(TxOut)
        BY <2>1, TxAssumption
      <3>2. o[2] \in DOMAIN vout[o[1]]
        BY <2>2, <3>1
      <3> QED  BY <2>1, <3>2 DEF OutputsOf
    <2>9. \A u \in P : o \notin vin[u]
      <3>1. \A u \in P : u \in IndexedTx(tv) /\ u # t
        BY <1>6 DEF UpTo
      <3> QED  BY <1>4, <3>1 DEF ChainView, OutputsSpentOnce
    <2> QED  BY <2>7, <2>8, <2>9 DEF CoinsOf
  <1>9. ASSUME NEW u \in P \cup {t}, NEW o \in vin[u], o[1] = t PROVE FALSE
    <2>1. u \in IndexedTx(tv) /\ InChain(tv[u].pos[1], tv[u].pos[2], e, n + 1)
      BY <1>7 DEF UpTo
    <2>2. Precedes(<<e, n + 1>>, tv[u].pos)
      BY <1>4, <1>9, <2>1 DEF ChainView, InputsPrecede
    <2> DEFINE q == tv[u].pos
    <2>3. q[1] \in Ancestors[e] /\ (q[1] = e => q[2] <= n + 1) /\ q[2] \in 1 .. Len(vtx[q[1]])
      BY <2>1 DEF InChain
    <2>4. nHeight[q[1]] <= nHeight[e] /\ nHeight[q[1]] \in Nat
      BY <1>1, <1>5, <2>1, <2>3, Ancestry
    <2>5. nHeight[e] < nHeight[q[1]] \/ (e = q[1] /\ n + 1 < q[2])
      BY <2>2 DEF Precedes
    <2> HIDE DEF q
    <2> QED  BY <1>1, <2>3, <2>4, <2>5
  <1> QED  BY <1>2, <1>6, <1>7, <1>8, <1>9

(* What one block of the chain adds to the coins: its coinbase less the     *)
(* fees of its other transactions.                                          *)
LEMMA BlockCoins ==
    ASSUME NEW tv \in TxIndexType, NEW e0 \in Block, ChainView(tv, e0, Len(vtx[e0])),
           NEW e \in Ancestors[e0] \ {Genesis}, CheckBlock(e),
           IsFiniteSet(CoinsOf(UpTo(tv, e, 0)))
    PROVE  /\ IsFiniteSet(CoinsOf(UpTo(tv, e, Len(vtx[e]))))
           /\ ValueOf(CoinsOf(UpTo(tv, e, Len(vtx[e]))))
                = ValueOf(CoinsOf(UpTo(tv, e, 0))) + GetValueOut(vtx[e][1]) - BlockFees(e)
           /\ ValueOf(CoinsOf(UpTo(tv, e, 0))) \in Nat /\ BlockFees(e) \in Int
  <1> DEFINE V(n) == ValueOf(CoinsOf(UpTo(tv, e, n)))
             Fin(n) == IsFiniteSet(CoinsOf(UpTo(tv, e, n)))
             claim == GetValueOut(vtx[e][1])
             Good(n) == Fin(n) /\ FeesUpTo(e, n) \in Int /\ V(n) = V(0) + claim - FeesUpTo(e, n)
             S == {n \in Nat : n < Len(vtx[e]) => Good(n + 1)}
  <1>1. e \in Block \ {Genesis}
    BY BlockTree
  <1>2. vtx[e] \in Seq(Tx) /\ Len(vtx[e]) \in Nat /\ Len(vtx[e]) # 0
    <2>1. vtx[e] \in Seq(Tx)
      BY <1>1, TxAssumption
    <2> QED  BY <2>1 DEF CheckBlock
  <1>3. ASSUME NEW n \in Nat, n < Len(vtx[e]), Fin(n)
        PROVE  /\ vtx[e][n + 1] \in Tx /\ Fin(n + 1) /\ V(n) \in Nat
               /\ V(n + 1) = V(n) - GetValueIn(vtx[e][n + 1]) + GetValueOut(vtx[e][n + 1])
    <2> DEFINE t == vtx[e][n + 1]
               P == UpTo(tv, e, n)
    <2>1. /\ t \in Tx \ P /\ UpTo(tv, e, n + 1) = P \cup {t}
          /\ vin[t] \subseteq CoinsOf(P)
          /\ \A u \in P \cup {t} : \A o \in vin[u] : o[1] # t
      BY <1>3, UpToTx
    <2>2. P \in SUBSET Tx
      BY DEF UpTo, IndexedTx
    <2>3. IsFiniteSet(CoinsOf(P))
      BY <1>3
    <2> HIDE DEF t, P
    <2>4. /\ IsFiniteSet(CoinsOf(P \cup {t}))
          /\ ValueOf(CoinsOf(P \cup {t})) = ValueOf(CoinsOf(P)) - GetValueIn(t) + GetValueOut(t)
          /\ ValueOf(CoinsOf(P)) \in Nat
      BY <2>1, <2>2, <2>3, OneMoreTx
    <2> QED  BY <2>1, <2>4 DEF t, P
  <1>4. V(0) \in Nat /\ claim \in Nat
    <2>1. V(0) \in Nat /\ vtx[e][0 + 1] \in Tx
      BY <1>2, <1>3
    <2> QED  BY <2>1, Values
  <1>5. 0 \in S
    <2>1. /\ Fin(0 + 1) /\ vtx[e][0 + 1] \in Tx
          /\ V(0 + 1) = V(0) - GetValueIn(vtx[e][0 + 1]) + GetValueOut(vtx[e][0 + 1])
      BY <1>2, <1>3
    <2>2. Fin(1) /\ V(1) = V(0) - GetValueIn(vtx[e][1]) + claim /\ vtx[e][1] \in Tx
      BY <2>1
    <2>3. GetValueIn(vtx[e][1]) = 0
      <3>1. 1 \in DOMAIN vtx[e]
        BY <1>2
      <3>2. vin[vtx[e][1]] = {}
        BY <3>1 DEF CheckBlock, IsCoinBase
      <3>3. ValueOf({}) = SumFunctionOnSet(nValues, {}) /\ IntOn(nValues, {})
        BY FS_EmptySet, ValueIsSum
      <3>4. SumFunctionOnSet(nValues, {}) = 0
        BY <3>3, FS_EmptySet, SumUnfolds
      <3> QED  BY <3>2, <3>3, <3>4 DEF GetValueIn
    <2>4. FeesUpTo(e, 1) = 0
      BY <1>1, FeesAreSums
    <2>5. Good(1)
      <3> HIDE DEF V, Fin, claim
      <3> QED  BY <1>4, <2>2, <2>3, <2>4
    <2> HIDE DEF Good
    <2> QED  BY <2>5
  <1>6. ASSUME NEW n \in Nat, n \in S PROVE n + 1 \in S
    <2> SUFFICES ASSUME n + 1 < Len(vtx[e]) PROVE Good((n + 1) + 1)
      OBVIOUS
    <2> DEFINE m == n + 1
    <2>1. m \in Nat \ {0} /\ m < Len(vtx[e]) /\ n < Len(vtx[e])
      BY <1>2
    <2>2. Good(m)
      BY <1>6, <2>1
    <2> HIDE DEF m
    <2>3. /\ vtx[e][m + 1] \in Tx /\ Fin(m + 1) /\ V(m) \in Nat
          /\ V(m + 1) = V(m) - GetValueIn(vtx[e][m + 1]) + GetValueOut(vtx[e][m + 1])
      BY <1>3, <2>1, <2>2
    <2>4. m + 1 \in 2 .. Len(vtx[e]) /\ (m + 1) - 1 = m
      BY <1>2, <2>1
    <2>5. FeesUpTo(e, m + 1) = FeesUpTo(e, m) + GetValueIn(vtx[e][m + 1]) - GetValueOut(vtx[e][m + 1])
      BY <1>1, <2>4, FeesAreSums
    <2>6. GetValueIn(vtx[e][m + 1]) \in Nat /\ GetValueOut(vtx[e][m + 1]) \in Nat
      BY <2>3, Values
    <2>7. FeesUpTo(e, m) \in Int /\ V(m) = V(0) + claim - FeesUpTo(e, m)
      BY <2>2
    <2> DEFINE in == GetValueIn(vtx[e][m + 1])
               out == GetValueOut(vtx[e][m + 1])
               f == FeesUpTo(e, m)
               g == FeesUpTo(e, m + 1)
    <2>8. /\ in \in Nat /\ out \in Nat /\ f \in Int /\ g = f + in - out
          /\ V(m + 1) = V(m) - in + out /\ V(m) = V(0) + claim - f
      BY <2>3, <2>5, <2>6, <2>7
    <2>9. g \in Int /\ V(m + 1) = V(0) + claim - g
      <3> HIDE DEF V, claim, in, out, f, g
      <3> QED  BY <1>4, <2>8
    <2> QED  BY <2>3, <2>9 DEF m
  <1>7. Nat \subseteq S
    <2> HIDE DEF S
    <2> QED  BY <1>5, <1>6, SetInduction
  <1>8. Good(Len(vtx[e]))
    <2> DEFINE m == Len(vtx[e]) - 1
    <2>1. m \in Nat /\ m < Len(vtx[e]) /\ m + 1 = Len(vtx[e])
      BY <1>2
    <2> HIDE DEF m, Good
    <2> QED  BY <1>7, <2>1
  <1> QED  BY <1>4, <1>8 DEF BlockFees

LEMMA SubsidiesAdd ==
    ASSUME NEW e \in Block
    PROVE  /\ GetBlockValue(nHeight[e], 0) \in Nat
           /\ \A x \in Int : GetBlockValue(nHeight[e], x) = GetBlockValue(nHeight[e], 0) + x
           /\ Subsidies(e) \in Int /\ Subsidies(Genesis) = 0
           /\ e # Genesis =>
                Subsidies(e) = Subsidies(hashPrevBlock[e]) + GetBlockValue(nHeight[e], 0)
  <1>1. ASSUME NEW b \in Block
        PROVE  /\ GetBlockValue(nHeight[b], 0) \in Nat
               /\ \A x \in Int : GetBlockValue(nHeight[b], x) = GetBlockValue(nHeight[b], 0) + x
    <2>1. HalvedSubsidy = CHOOSE f : Halves(SUBSIDY, f)
      BY DEF HalvedSubsidy, Halves
    <2>2. HalvedSubsidy \in [Nat -> Nat]
      BY <2>1, RulesAssumption, Halving
    <2>3. (nHeight[b] \div HALVING) \in Nat
      <3>1. nHeight[b] \in Nat /\ HALVING \in Nat \ {0}
        BY BlockTree, RulesAssumption
      <3>2. \A h \in Nat, d \in Nat \ {0} : (h \div d) \in Nat
        OBVIOUS
      <3> QED  BY <3>1, <3>2
    <2>4. HalvedSubsidy[nHeight[b] \div HALVING] \in Nat
      BY <2>2, <2>3
    <2> DEFINE s == HalvedSubsidy[nHeight[b] \div HALVING]
    <2> HIDE DEF s
    <2>5. s \in Nat /\ \A x : GetBlockValue(nHeight[b], x) = s + x
      BY <2>4 DEF s, GetBlockValue
    <2> QED  BY <2>5
  <1> DEFINE g == [a \in Block |-> GetBlockValue(nHeight[a], 0)]
             Sum(b) == SumFunctionOnSet(g, Ancestors[b] \ {Genesis})
  <1>2. ASSUME NEW b \in Block
        PROVE  /\ Ancestors[b] \subseteq Block /\ IsFiniteSet(Ancestors[b] \ {Genesis})
               /\ IntOn(g, Ancestors[b] \ {Genesis})
               /\ Subsidies(b) = Sum(b) /\ Sum(b) \in Int
    <2> DEFINE A == Ancestors[b] \ {Genesis}
               f == [a \in A |-> GetBlockValue(nHeight[a], 0)]
    <2>1. Ancestors[b] \subseteq Block /\ IsFiniteSet(Ancestors[b])
      BY BlockTree, AncestorsFinite
    <2>2. IsFiniteSet(A) /\ A \subseteq Block
      BY <2>1, FS_Subset
    <2>3. \A a \in A : g[a] = f[a] /\ g[a] \in Int
      BY <1>1, <2>2
    <2>4. Subsidies(b) = SumFunctionOnSet(f, A)
      BY DEF Subsidies, SumFunction
    <2>5. IntOn(g, A)
      BY <2>3 DEF IntOn
    <2>6. SumFunctionOnSet(g, A) = SumFunctionOnSet(f, A) /\ SumFunctionOnSet(g, A) \in Int
      <3> HIDE DEF f, g, A
      <3> QED  BY <2>2, <2>3, <2>5, SumCongruence, SumUnfolds
    <2> QED  BY <2>1, <2>2, <2>4, <2>5, <2>6
  <1>3. Subsidies(Genesis) = 0
    <2>1. Ancestors[Genesis] \ {Genesis} = {} /\ Genesis \in Block
      BY BlockTree
    <2>2. SumFunctionOnSet(g, {}) = 0
      <3>1. IntOn(g, {})
        BY DEF IntOn
      <3> HIDE DEF g
      <3> QED  BY <3>1, FS_EmptySet, SumUnfolds
    <2> QED  BY <1>2, <2>1, <2>2
  <1>4. ASSUME e # Genesis
        PROVE  Subsidies(e) = Subsidies(hashPrevBlock[e]) + GetBlockValue(nHeight[e], 0)
    <2> DEFINE p == hashPrevBlock[e]
               A == Ancestors[p] \ {Genesis}
    <2>1. p \in Block /\ Ancestors[e] \ {Genesis} = A \cup {e} /\ e \notin A
      BY <1>4, Ancestry
    <2>2. IsFiniteSet(A) /\ IntOn(g, A) /\ g[e] = GetBlockValue(nHeight[e], 0) /\ g[e] \in Int
      <3>1. GetBlockValue(nHeight[e], 0) \in Int
        BY <1>1
      <3>2. g[e] = GetBlockValue(nHeight[e], 0)
        OBVIOUS
      <3>3. IsFiniteSet(A) /\ IntOn(g, A)
        <4> HIDE DEF g
        <4> QED  BY <1>2, <2>1
      <3> QED  BY <3>1, <3>2, <3>3
    <2>3. SumFunctionOnSet(g, A \cup {e}) = SumFunctionOnSet(g, A) + g[e]
      <3> HIDE DEF g, A
      <3> QED  BY <2>1, <2>2, SumAdd
    <2> QED  BY <1>2, <2>1, <2>2, <2>3
  <1> QED  BY <1>1, <1>2, <1>3, <1>4

(* The coins of a chain whose coinbases claim no more than they may. *)
LEMMA CoinsWithinSubsidies ==
    ASSUME NEW tv \in TxIndexType, NEW e0 \in Block, ChainView(tv, e0, Len(vtx[e0])),
           PaidChain(e0), \A a \in Ancestors[e0] \ {Genesis} : CheckBlock(a)
    PROVE  ValueOf(CoinsOf(UpTo(tv, e0, Len(vtx[e0])))) <= Subsidies(e0)
  <1> DEFINE C(e) == CoinsOf(UpTo(tv, e, Len(vtx[e])))
             Good(e) == IsFiniteSet(C(e)) /\ ValueOf(C(e)) <= Subsidies(e)
             T == {e \in Block : e \in Ancestors[e0] => Good(e)}
  <1>1. Good(Genesis)
    <2>1. C(Genesis) = {}
      BY UpToBlock, BlockTree DEF CoinsOf
    <2>2. IsFiniteSet({})
      BY FS_EmptySet
    <2>3. ValueOf({}) = SumFunctionOnSet(nValues, {}) /\ IntOn(nValues, {})
      BY <2>2, ValueIsSum
    <2>4. ValueOf({}) = 0
      BY <2>2, <2>3, SumUnfolds
    <2>5. Subsidies(Genesis) = 0
      BY BlockTree, SubsidiesAdd
    <2> HIDE DEF C
    <2> QED  BY <2>1, <2>2, <2>4, <2>5
  <1>2. ASSUME NEW e \in Block, e = Genesis \/ hashPrevBlock[e] \in T, e \in Ancestors[e0]
        PROVE  Good(e)
    <2> SUFFICES ASSUME e # Genesis PROVE Good(e)
      BY <1>1
    <2> DEFINE p == hashPrevBlock[e]
               v == ValueOf(C(p))
               claim == GetValueOut(vtx[e][1])
               fees == BlockFees(e)
               sub == GetBlockValue(nHeight[e], 0)
    <2>1. p \in Ancestors[e0] /\ p \in Block
      <3>1. p \in Block /\ Ancestors[e] = {e} \cup Ancestors[p]
        BY Ancestry
      <3>2. Ancestors[e] \subseteq Ancestors[e0] /\ p \in Ancestors[p]
        BY <1>2, <3>1, ChainOrder
      <3> QED  BY <3>1, <3>2
    <2>2. Good(p)
      BY <1>2, <2>1
    <2>3. UpTo(tv, e, 0) = UpTo(tv, p, Len(vtx[p]))
      BY UpToBlock
    <2>4. CheckBlock(e) /\ PaidFor(e)
      BY <1>2 DEF PaidChain
    <2>5. IsFiniteSet(C(e)) /\ ValueOf(C(e)) = v + claim - fees /\ v \in Nat /\ fees \in Int
      BY <1>2, <2>2, <2>3, <2>4, BlockCoins
    <2>6. claim \in Nat
      <3>1. vtx[e] \in Seq(Tx) /\ vtx[e] # <<>>
        BY <2>4, TxAssumption DEF CheckBlock
      <3>2. vtx[e][1] \in Tx
        BY <3>1
      <3> QED  BY <3>2, Values
    <2>7. /\ sub \in Nat /\ GetBlockValue(nHeight[e], fees) = sub + fees
          /\ Subsidies(e) = Subsidies(p) + sub /\ Subsidies(p) \in Int
      BY <2>1, <2>5, SubsidiesAdd
    <2>8. claim <= sub + fees /\ v <= Subsidies(p)
      BY <2>2, <2>4, <2>7 DEF PaidFor
    <2> DEFINE s == Subsidies(p)
               w == ValueOf(C(e))
    <2>9. /\ w = v + claim - fees /\ v \in Nat /\ fees \in Int /\ claim \in Nat /\ sub \in Nat
          /\ s \in Int /\ claim <= sub + fees /\ v <= s /\ Subsidies(e) = s + sub
      BY <2>5, <2>6, <2>7, <2>8
    <2>10. w <= s + sub
      <3> HIDE DEF v, claim, fees, sub, s, w
      <3> QED  BY <2>9
    <2> QED  BY <2>5, <2>9, <2>10
  <1>3. Block \subseteq T
    <2>1. \A e \in Block : (e \in {Genesis} \/ hashPrevBlock[e] \in T) => e \in T
      <3> HIDE DEF Good
      <3> QED  BY <1>2
    <2> HIDE DEF T
    <2> QED  BY <2>1, BlocksDescend, ForestInduction
  <1>4. e0 \in Ancestors[e0]
    BY ChainOrder
  <1> QED  BY <1>3, <1>4

(* NoInflation: whatever the names do, through reorganisations, aborted     *)
(* commits and restarts, the unspent outputs of the committed index are     *)
(* worth at most the subsidies of the committed chain.                      *)
THEOREM CoinsAreNeverMade == Spec => []NoInflation
  <1>1. ASSUME NodeInv, BlocksPaid PROVE NoInflation
    <2> DEFINE n == Len(vtx[dbBest])
    <2>1. /\ dbTx \in TxIndexType /\ dbBest \in Block /\ dbBest \in mapBlockIndex
          /\ ChainView(dbTx, dbBest, n) /\ PaidChain(dbBest)
      BY <1>1 DEF NodeInv, TypeOK, StoreType, ChainType, BlocksPaid
    <2>2. \A a \in Ancestors[dbBest] \ {Genesis} : CheckBlock(a)
      BY <1>1, <2>1 DEF NodeInv, IndexClosed
    <2>3. ValueOf(CoinsOf(UpTo(dbTx, dbBest, n))) <= Subsidies(dbBest)
      BY <2>1, <2>2, CoinsWithinSubsidies
    <2>4. UpTo(dbTx, dbBest, n) = IndexedTx(dbTx)
      BY <2>1 DEF UpTo, ChainView, IndexIsChain, IndexedTx
    <2>5. UnspentCoins = CoinsOf(IndexedTx(dbTx))
      <3>1. ASSUME NEW t \in IndexedTx(dbTx), NEW o \in OutputsOf(t)
            PROVE  o[2] \notin dbTx[o[1]].spent <=> \A u \in IndexedTx(dbTx) : o \notin vin[u]
        <4>1. t \in Tx /\ vout[t] \in Seq(TxOut)
          BY TxAssumption DEF IndexedTx
        <4>2. o = <<t, o[2]>> /\ o[1] = t /\ o[2] \in 1 .. Len(vout[t])
          BY <4>1 DEF OutputsOf
        <4>3. o[2] \in dbTx[t].spent <=> \E u \in IndexedTx(dbTx) : <<t, o[2]>> \in vin[u]
          BY <2>1, <4>2 DEF ChainView, OutputsSpentOnce
        <4> QED  BY <4>2, <4>3
      <3> QED  BY <3>1 DEF UnspentCoins, CoinsOf
    <2> QED  BY <2>3, <2>4, <2>5 DEF NoInflation
  <1> QED  BY <1>1, NodeInvariant, PaidInvariant, PTL
-----------------------------------------------------------------------------
(* The rebuild of the name index.                                          *)

(* ChainPositions lists the positions of a chain in their order. *)
ListsChain(s, b) ==
    /\ s \in Seq(Block \X Nat)
    /\ \A i \in 1 .. Len(s) : s[i] \in Positions(b)
    /\ \A q \in Positions(b) : \E i \in 1 .. Len(s) : s[i] = q
    /\ \A i, j \in 1 .. Len(s) : i < j => Before(s[i], s[j])

BlockPositions(b) == [i \in DOMAIN vtx[b] |-> PosOf(b, i)]

LEMMA BlockPositionsType ==
    ASSUME NEW b \in Block
    PROVE  /\ BlockPositions(b) \in Seq(Block \X Nat) /\ Len(BlockPositions(b)) = Len(vtx[b])
           /\ Len(vtx[b]) \in Nat
           /\ \A i \in 1 .. Len(vtx[b]) : BlockPositions(b)[i] = <<b, i>>
  <1>1. vtx[b] \in Seq(Tx)
    BY TxAssumption
  <1>2. DOMAIN vtx[b] = 1 .. Len(vtx[b]) /\ Len(vtx[b]) \in Nat
    BY <1>1
  <1>3. BlockPositions(b) = [i \in 1 .. Len(vtx[b]) |-> <<b, i>>]
    BY <1>2 DEF BlockPositions, PosOf
  <1>4. \A i \in 1 .. Len(vtx[b]) : <<b, i>> \in Block \X Nat
    OBVIOUS
  <1> QED  BY <1>2, <1>3, <1>4

LEMMA ChainPositionsUnfold ==
    /\ ChainPositions \in [Block -> Seq(Block \X Nat)]
    /\ ChainPositions[Genesis] = <<>>
    /\ \A b \in Block \ {Genesis} :
          ChainPositions[b] = ChainPositions[hashPrevBlock[b]] \o BlockPositions(b)
  <1> DEFINE V    == Seq(Block \X Nat)
             Def(g) == g = [b \in Block |-> IF b = Genesis THEN <<>>
                                            ELSE g[hashPrevBlock[b]]
                                                   \o [i \in DOMAIN vtx[b] |-> PosOf(b, i)]]
             init == [b \in Block |-> <<>>]
             step == [x \in Block \X V |-> x[2] \o BlockPositions(x[1])]
  <1>1. PICK g \in [Block -> V] : Recurs(Block, {Genesis}, hashPrevBlock, init, step, g)
    <2>1. init \in [Block -> V]
      OBVIOUS
    <2>2. \A x \in Block \X V : BlockPositions(x[1]) \in V /\ x[2] \in V
      BY BlockPositionsType
    <2>3. step \in [Block \X V -> V]
      BY <2>2
    <2> HIDE DEF V, init, step
    <2> QED  BY <2>1, <2>3, BlocksDescend, ForestRecursion
  <1>2. ASSUME NEW b \in Block
        PROVE  g[b] = IF b = Genesis THEN <<>> ELSE g[hashPrevBlock[b]] \o BlockPositions(b)
    <2>1. g[b] = IF b = Genesis THEN init[b] ELSE step[<<b, g[hashPrevBlock[b]]>>]
      BY <1>1 DEF Recurs
    <2>2. b # Genesis => g[hashPrevBlock[b]] \in V
      BY <1>1, BlockTree
    <2> HIDE DEF V
    <2> QED  BY <2>1, <2>2
  <1>3. Def(g)
    BY <1>1, <1>2 DEF BlockPositions
  <1>4. Def(ChainPositions)
    <2> HIDE DEF Def
    <2>1. Def(CHOOSE f : Def(f))
      BY <1>3
    <2>2. ChainPositions = CHOOSE f : Def(f)
      BY DEF Def, ChainPositions
    <2> QED  BY <2>1, <2>2
  <1>5. /\ ChainPositions[Genesis] = <<>>
        /\ \A b \in Block \ {Genesis} :
              ChainPositions[b] = ChainPositions[hashPrevBlock[b]] \o BlockPositions(b)
    BY <1>4, BlockTree DEF BlockPositions
  <1> DEFINE T == {b \in Block : ChainPositions[b] \in V}
  <1>6. Block \subseteq T
    <2>1. ASSUME NEW b \in Block, b = Genesis \/ hashPrevBlock[b] \in T PROVE b \in T
      <3>1. BlockPositions(b) \in V
        BY BlockPositionsType
      <3>2. <<>> \in V /\ \A x, y \in V : x \o y \in V
        OBVIOUS
      <3> HIDE DEF V
      <3>3. CASE b = Genesis
        BY <1>5, <3>2, <3>3
      <3>4. CASE b # Genesis
        <4>1. ChainPositions[hashPrevBlock[b]] \in V
          BY <2>1, <3>4
        <4>2. ChainPositions[b] = ChainPositions[hashPrevBlock[b]] \o BlockPositions(b)
          BY <1>5, <3>4
        <4> QED  BY <3>1, <3>2, <4>1, <4>2
      <3> QED  BY <3>3, <3>4
    <2> HIDE DEF T
    <2> QED  BY <2>1, BlocksDescend, ForestInduction
  <1>7. ChainPositions = [b \in Block |-> ChainPositions[b]]
    BY <1>4
  <1> QED  BY <1>5, <1>6, <1>7

LEMMA ListExtends ==
    ASSUME NEW b \in Block \ {Genesis}, NEW s, ListsChain(s, hashPrevBlock[b])
    PROVE  ListsChain(s \o BlockPositions(b), b)
  <1> DEFINE p == hashPrevBlock[b]
             r == BlockPositions(b)
             c == s \o r
             N == Len(s)
             M == Len(vtx[b])
  <1>1. /\ p \in Block /\ Ancestors[b] = {b} \cup Ancestors[p] /\ b \notin Ancestors[p]
        /\ \A a \in Ancestors[b] : a # b => nHeight[a] < nHeight[b]
    BY Ancestry
  <1>2. r \in Seq(Block \X Nat) /\ Len(r) = M /\ M \in Nat /\ \A i \in 1 .. M : r[i] = <<b, i>>
    BY BlockPositionsType
  <1>3. s \in Seq(Block \X Nat) /\ N \in Nat
    BY DEF ListsChain
  <1>4. c \in Seq(Block \X Nat) /\ Len(c) = N + M
    <2> DEFINE S == Block \X Nat
    <2>1. r \in Seq(S) /\ s \in Seq(S) /\ Len(r) = M /\ Len(s) = N
      BY <1>2, <1>3
    <2> HIDE DEF r, S, N, M
    <2>2. s \o r \in Seq(S) /\ Len(s \o r) = Len(s) + Len(r)
      BY <2>1
    <2> QED  BY <2>1, <2>2 DEF S
  <1>5. \A i \in 1 .. N : c[i] = s[i]
    BY <1>2, <1>3
  <1>6. \A i \in 1 .. M : c[N + i] = <<b, i>>
    BY <1>2, <1>3
  <1>7. \A i \in 1 .. N + M : i \in 1 .. N \/ \E j \in 1 .. M : i = N + j
    <2> TAKE i \in 1 .. N + M
    <2>1. i \in 1 .. N \/ (i - N \in 1 .. M /\ i = N + (i - N))
      BY <1>2, <1>3
    <2> QED  BY <2>1
  <1>8. ASSUME NEW q PROVE q \in Positions(b) <=> q \in Positions(p) \/ \E j \in 1 .. M : q = <<b, j>>
    <2>1. q \in Positions(p) <=> /\ q = <<q[1], q[2]>> /\ q[1] \in Ancestors[p] \ {Genesis}
                                 /\ q[2] \in 1 .. Len(vtx[q[1]])
      BY <1>1, PositionsOf
    <2>2. q \in Positions(b) <=> /\ q = <<q[1], q[2]>> /\ q[1] \in Ancestors[b] \ {Genesis}
                                 /\ q[2] \in 1 .. Len(vtx[q[1]])
      BY PositionsOf
    <2> QED  BY <1>1, <2>1, <2>2
  <1> HIDE DEF c, r, N, M, p
  <1>9. \A i \in 1 .. N : s[i] \in Positions(p)
    BY DEF ListsChain, p, N
  <1>10. \A i \in 1 .. N + M : c[i] \in Positions(b)
    BY <1>5, <1>6, <1>7, <1>8, <1>9
  <1>11. ASSUME NEW q \in Positions(b) PROVE \E i \in 1 .. N + M : c[i] = q
    <2>1. CASE q \in Positions(p)
      <3>1. PICK i \in 1 .. N : s[i] = q
        BY <2>1 DEF ListsChain, p, N
      <3>2. i \in 1 .. N + M
        BY <1>2, <1>3
      <3> QED  BY <1>5, <3>1, <3>2
    <2>2. CASE \E j \in 1 .. M : q = <<b, j>>
      <3>1. PICK j \in 1 .. M : q = <<b, j>>
        BY <2>2
      <3>2. N + j \in 1 .. N + M
        BY <1>2, <1>3
      <3> QED  BY <1>6, <3>1, <3>2
    <2> QED  BY <1>8, <2>1, <2>2
  <1>12. ASSUME NEW i \in 1 .. N + M, NEW j \in 1 .. N + M, i < j PROVE Before(c[i], c[j])
    <2>1. CASE j \in 1 .. N
      <3>1. i \in 1 .. N
        BY <1>3, <1>12, <2>1
      <3> QED  BY <1>5, <1>12, <2>1, <3>1 DEF ListsChain, N
    <2>2. CASE i \in 1 .. N /\ \E k \in 1 .. M : j = N + k
      <3>1. s[i] \in Positions(p)
        BY <1>9, <2>2
      <3>2. s[i][1] \in Ancestors[p]
        BY <1>1, <3>1, PositionsOf
      <3>3. nHeight[s[i][1]] < nHeight[b]
        BY <1>1, <3>2
      <3> QED  BY <1>5, <1>6, <2>2, <3>3 DEF Before
    <2>3. CASE (\E k \in 1 .. M : i = N + k) /\ (\E k \in 1 .. M : j = N + k)
      <3>1. PICK k \in 1 .. M : i = N + k
        BY <2>3
      <3>2. PICK l \in 1 .. M : j = N + l
        BY <2>3
      <3>3. k < l
        BY <1>3, <1>12, <3>1, <3>2
      <3> QED  BY <1>6, <3>1, <3>2, <3>3 DEF Before
    <2>4. CASE (\E k \in 1 .. M : i = N + k) /\ j \in 1 .. N
      BY <2>1, <2>4
    <2> QED  BY <1>7, <2>1, <2>2, <2>3, <2>4
  <1> QED  BY <1>4, <1>10, <1>11, <1>12 DEF ListsChain, c, r

LEMMA ChainListed == \A b \in Block : ListsChain(ChainPositions[b], b)
  <1> DEFINE T == {b \in Block : ListsChain(ChainPositions[b], b)}
  <1>1. ASSUME NEW b \in Block, b = Genesis \/ hashPrevBlock[b] \in T PROVE b \in T
    <2>1. CASE b = Genesis
      <3>1. Positions(b) = {}
        BY <2>1, BlockTree DEF Positions
      <3>2. ChainPositions[b] = <<>>
        BY <2>1, ChainPositionsUnfold
      <3>3. <<>> \in Seq(Block \X Nat) /\ 1 .. Len(<<>>) = {}
        OBVIOUS
      <3> QED  BY <3>1, <3>2, <3>3 DEF ListsChain
    <2>2. CASE b # Genesis
      <3>1. ListsChain(ChainPositions[hashPrevBlock[b]], hashPrevBlock[b])
        BY <1>1, <2>2
      <3> QED  BY <2>2, <3>1, ListExtends, ChainPositionsUnfold
    <2> QED  BY <2>1, <2>2
  <1>2. Block \subseteq T
    <2> HIDE DEF T
    <2> QED  BY <1>1, BlocksDescend, ForestInduction
  <1> QED  BY <1>2

(* A connected transaction spends at most one name coin. *)
OneNameInput(tv) == \A t \in IndexedTx(tv) : \A o1, o2 \in NameInputs(t) : o1 = o2

NameInputsOK == OneNameInput(txTx) /\ OneNameInput(dbTx)

LEMMA NameInputsNext ==
    ASSUME NodeInv, NameInputsOK, [Next]_vars
    PROVE  NameInputsOK'
  <1>1. txTx \in TxIndexType
    BY DEF NodeInv, TypeOK, StoreType
  <1>2. CASE ConnectInputs
    <2> DEFINE t == vtx[tip][nTx + 1]
    <2>1. /\ tip \in Block \ {Genesis} /\ nTx \in Nat /\ nTx < Len(vtx[tip])
          /\ ~IsCoinBase(t) => HookConnectInputs(t, tip, txTx, txName, "block", {}, {})
          /\ txTx' = TxConnected(t, tip, nTx + 1, txTx) /\ UNCHANGED dbTx
      BY <1>2, ConnectInputsFacts DEF Connectable
    <2>2. t \in Tx
      <3>1. vtx[tip] \in Seq(Tx)
        BY <2>1, TxAssumption
      <3> QED  BY <2>1, <3>1
    <2>3. IndexedTx(txTx') \subseteq IndexedTx(txTx) \cup {t}
      <3>1. nTx + 1 \in Nat /\ tip \in Block
        BY <2>1
      <3>2. \A u \in Tx : HasTxIndex(TxConnected(t, tip, nTx + 1, txTx), u)
                            <=> u = t \/ HasTxIndex(txTx, u)
        BY <1>1, <2>2, <3>1, ConnectedRecords
      <3> QED  BY <2>1, <3>2 DEF IndexedTx
    <2>4. \A o1, o2 \in NameInputs(t) : o1 = o2
      BY <2>1 DEF HookConnectInputs, IsCoinBase, NameInputs
    <2>5. OneNameInput(txTx')
      BY <2>3, <2>4 DEF OneNameInput, NameInputsOK
    <2> QED  BY <2>1, <2>5 DEF NameInputsOK
  <1>3. CASE DisconnectInputs
    <2> DEFINE t == vtx[tip][nTx]
    <2>1. /\ tip \in Block \ {Genesis} /\ nTx \in Nat \ {0} /\ nTx <= Len(vtx[tip])
          /\ txTx' = TxDisconnected(t, txTx) /\ UNCHANGED dbTx
      BY <1>3, DisconnectInputsFacts
    <2>2. t \in Tx
      <3>1. vtx[tip] \in Seq(Tx)
        BY <2>1, TxAssumption
      <3> QED  BY <2>1, <3>1
    <2>3. IndexedTx(txTx') \subseteq IndexedTx(txTx)
      BY <1>1, <2>1, <2>2, DisconnectedRecords DEF IndexedTx
    <2> QED  BY <2>1, <2>3 DEF OneNameInput, NameInputsOK
  <1> QED  BY <1>2, <1>3, ViewSteps DEF NameInputsOK

LEMMA NameInputsInvariant == Spec => []NameInputsOK
  <1>1. ASSUME Init PROVE NameInputsOK
    <2>1. IndexedTx(txTx) = {} /\ IndexedTx(dbTx) = {}
      BY <1>1 DEF Init, IndexedTx, HasTxIndex, NoIndex
    <2> QED  BY <2>1 DEF NameInputsOK, OneNameInput
  <1>2. NodeInv /\ NameInputsOK /\ [Next]_vars => NameInputsOK'
    BY NameInputsNext
  <1> QED  BY <1>1, <1>2, NodeInvariant, PTL DEF Spec

(* The name indices there are. *)
NameIndices == UNION {[D -> Seq(CNameIndex)] : D \in SUBSET Name}

LEMMA EveryNameIndex ==
    ASSUME NEW nv \in NameIndices
    PROVE  NameIndexType(nv) /\ \A n \in Name, s \in Seq(CNameIndex) : WriteName(nv, n, s) \in NameIndices
  <1>1. PICK D \in SUBSET Name : nv \in [D -> Seq(CNameIndex)]
    BY DEF NameIndices
  <1>2. ASSUME NEW n \in Name, NEW s \in Seq(CNameIndex) PROVE WriteName(nv, n, s) \in NameIndices
    <2>1. WriteName(nv, n, s) \in [D \cup {n} -> Seq(CNameIndex)]
      BY <1>1 DEF WriteName
    <2> QED  BY <2>1 DEF NameIndices
  <1> QED  BY <1>1, <1>2 DEF NameIndexType

LEMMA ReconstructStepType ==
    ASSUME NEW nv \in NameIndices, NEW p \in Block \X Nat, TxAt(p) \in Tx
    PROVE  ReconstructStep(nv, p) \in NameIndices
  <1> DEFINE t   == vtx[p[1]][p[2]]
             n   == NameOut(t).name
             rec == [nHeight |-> nHeight[p[1]], pos |-> p]
             w   == WriteName(nv, n, Append(VtxPos(nv, n), rec))
  <1>1. \/ ReconstructStep(nv, p) = nv
        \/ DecodeNameTx(t) /\ ReconstructStep(nv, p) = w
    BY DEF ReconstructStep
  <1>2. ASSUME DecodeNameTx(t) PROVE w \in NameIndices
    <2>1. n \in Name
      BY <1>2, NameOutType DEF TxAt, TxOut
    <2>2. rec \in CNameIndex
      BY BlockTree DEF CNameIndex
    <2>3. VtxPos(nv, n) \in Seq(CNameIndex)
      BY EveryNameIndex, VtxPosType
    <2>4. Append(VtxPos(nv, n), rec) \in Seq(CNameIndex)
      BY <2>2, <2>3
    <2> QED  BY <2>1, <2>4, EveryNameIndex
  <1> QED  BY <1>1, <1>2

(* The successive name indices of a rebuild from the positions s. *)
Rebuilds(s, a) ==
    /\ a[0] = <<>>
    /\ \A k \in 1 .. Len(s) : a[k] = ReconstructStep(a[k - 1], s[k])
    /\ \A k \in 0 .. Len(s) : a[k] \in NameIndices
    /\ FoldLeft(ReconstructStep, <<>>, s) = a[Len(s)]

LEMMA RebuildsExist ==
    ASSUME NEW s \in Seq(Block \X Nat), \A i \in 1 .. Len(s) : TxAt(s[i]) \in Tx
    PROVE  \E a : Rebuilds(s, a)
  <1> DEFINE N    == Len(s)
             V    == NameIndices
             step == [x \in V \X (1 .. N) |-> ReconstructStep(x[1], s[x[2]])]
             Def(g) == g = [r \in SUBSET (DOMAIN s) |->
                              IF r = {} THEN <<>> ELSE ReconstructStep(g[r \ {Max(r)}], s[Max(r)])]
             it == CHOOSE g : Def(g)
             a  == [k \in 0 .. N |-> it[1 .. k]]
  <1>1. N \in Nat /\ DOMAIN s = 1 .. N /\ \A k \in 1 .. N : s[k] \in Block \X Nat
    OBVIOUS
  <1>2. <<>> \in V
    <2>1. <<>> \in [{} -> Seq(CNameIndex)]
      OBVIOUS
    <2> QED  BY <2>1 DEF NameIndices
  <1>3. \A nv \in V, k \in 1 .. N : ReconstructStep(nv, s[k]) \in V
    BY <1>1, ReconstructStepType
  <1>4. step \in [V \X (1 .. N) -> V]
    BY <1>3
  <1>5. PICK g \in [SUBSET (1 .. N) -> V] : FoldsUp(N, <<>>, step, g)
    <2> HIDE DEF step, V, N
    <2> QED  BY <1>1, <1>2, <1>4, FoldExists
  <1>6. Def(g)
    <2>1. ASSUME NEW r \in SUBSET (1 .. N)
          PROVE  g[r] = IF r = {} THEN <<>> ELSE ReconstructStep(g[r \ {Max(r)}], s[Max(r)])
      <3>1. g[r] = IF r = {} THEN <<>> ELSE step[<<g[r \ {Max(r)}], Max(r)>>]
        BY <1>5 DEF FoldsUp
      <3>2. r # {} => Max(r) \in 1 .. N
        BY <1>1, MaxIn
      <3>3. g[r \ {Max(r)}] \in V
        BY <1>5
      <3> HIDE DEF V, N
      <3> QED  BY <3>1, <3>2, <3>3
    <2> QED  BY <1>1, <1>5, <2>1
  <1>7. Def(it)
    <2> HIDE DEF Def
    <2> QED  BY <1>6
  <1>8. FoldLeft(ReconstructStep, <<>>, s) = it[DOMAIN s]
    BY DEF FoldLeft, MapThenFoldSet
  <1> HIDE DEF it
  <1>9. a[0] = <<>>
    <2>1. 1 .. 0 = {} /\ {} \in SUBSET (DOMAIN s) /\ 0 \in 0 .. N
      BY <1>1
    <2>2. it[{}] = <<>>
      BY <1>7, <2>1
    <2> QED  BY <2>1, <2>2
  <1>10. ASSUME NEW k \in 1 .. N PROVE a[k] = ReconstructStep(a[k - 1], s[k])
    <2>1. /\ 1 .. k \in SUBSET (1 .. N) /\ 1 .. k # {}
          /\ Max(1 .. k) = k /\ (1 .. k) \ {Max(1 .. k)} = 1 .. (k - 1)
      BY <1>1, LastIndex
    <2>2. it[1 .. k] = ReconstructStep(it[(1 .. k) \ {Max(1 .. k)}], s[Max(1 .. k)])
      BY <1>1, <1>7, <2>1
    <2>3. it[1 .. k] = ReconstructStep(it[1 .. (k - 1)], s[k])
      BY <2>1, <2>2
    <2>4. k \in 0 .. N /\ k - 1 \in 0 .. N
      BY <1>1
    <2> HIDE DEF N
    <2> QED  BY <2>3, <2>4
  <1> HIDE DEF a
  <1>11. \A k \in 0 .. N : a[k] \in V
    <2> DEFINE S == {k \in Nat : k <= N => a[k] \in V}
    <2>1. 0 \in S
      BY <1>2, <1>9
    <2>2. ASSUME NEW k \in Nat, k \in S PROVE k + 1 \in S
      <3> SUFFICES ASSUME k + 1 <= N PROVE a[k + 1] \in V
        OBVIOUS
      <3>1. k + 1 \in 1 .. N /\ (k + 1) - 1 = k /\ k <= N
        BY <1>1
      <3>2. a[k] \in V
        BY <2>2, <3>1
      <3>3. a[k + 1] = ReconstructStep(a[k], s[k + 1])
        BY <1>10, <3>1
      <3> QED  BY <1>3, <3>1, <3>2, <3>3
    <2>3. Nat \subseteq S
      <3> HIDE DEF S
      <3> QED  BY <2>1, <2>2, SetInduction
    <2> QED  BY <1>1, <2>3
  <1>12. a[N] = it[DOMAIN s]
    BY <1>1 DEF a
  <1> QED  BY <1>8, <1>9, <1>10, <1>11, <1>12 DEF Rebuilds

(* The committed databases, as far as a rebuild looks into them. *)
Rebuildable ==
    /\ dbTx \in TxIndexType /\ NameIndexType(dbName) /\ dbBest \in Block
    /\ ChainView(dbTx, dbBest, Len(vtx[dbBest])) /\ NameView(dbTx, dbName)
    /\ Registered(dbTx, dbName) /\ OneNameInput(dbTx)

History(n) == VtxPos(dbName, n)

(* What is not an operation on a name changes nothing. *)
LEMMA RebuildSkips ==
    ASSUME NEW nv, NEW p, TxAt(p) \in Tx, ~NamePopped(TxAt(p))
    PROVE  ReconstructStep(nv, p) = nv
  <1> DEFINE t == vtx[p[1]][p[2]]
  <1>1. ASSUME isNameTx[t], DecodeNameTx(t), NameOut(t).op # "new" PROVE FALSE
    <2>1. PICK i \in DOMAIN vout[t] : NameOutputs(t) = {i}
      BY <1>1 DEF DecodeNameTx
    <2>2. NameOut(t) = vout[t][i] /\ i \in NameOutputs(t)
      BY <2>1 DEF NameOut
    <2>3. NameOut(t).op \in NameOps
      BY <2>2 DEF NameOutputs
    <2> QED  BY <1>1, <2>3 DEF NamePopped, NameOps, TxAt
  <1> QED  BY <1>1 DEF ReconstructStep

(* The entries of a history, and the operations of the chain. *)
LEMMA HistoryFacts ==
    ASSUME Rebuildable, NEW n
    PROVE  /\ History(n) \in Seq(CNameIndex)
           /\ DOMAIN History(n) = 1 .. Len(History(n)) /\ Len(History(n)) \in Nat
           /\ \A k \in DOMAIN History(n) :
                 /\ n \in DOMAIN dbName /\ History(n) = dbName[n] /\ n \in Name
                 /\ History(n)[k].nHeight = nHeight[History(n)[k].pos[1]]
                 /\ History(n)[k].pos \in Positions(dbBest)
                 /\ NamePopped(TxAt(History(n)[k].pos))
                 /\ NameOut(TxAt(History(n)[k].pos)).name = n
           /\ \A k, l \in DOMAIN History(n) : k < l => Before(History(n)[k].pos, History(n)[l].pos)
           /\ \A q \in Positions(dbBest) :
                 NamePopped(TxAt(q)) /\ NameOut(TxAt(q)).name = n =>
                     \E k \in DOMAIN History(n) : History(n)[k].pos = q
  <1> DEFINE s == VtxPos(dbName, n)
             P == Positions(dbBest)
             m == Len(vtx[dbBest])
  <1>1. /\ \A q \in P : TxAt(q) \in IndexedTx(dbTx) /\ dbTx[TxAt(q)].pos = q
        /\ \A u \in IndexedTx(dbTx) : dbTx[u].pos \in P /\ TxAt(dbTx[u].pos) = u
    BY WholeChain DEF Rebuildable
  <1>2. s \in Seq(CNameIndex)
    BY VtxPosType DEF Rebuildable
  <1>3. ChainView(dbTx, dbBest, m)
    BY DEF Rebuildable
  <1>4. /\ \A q : q \in OpsOn(n, P) <=> \E k \in DOMAIN s : s[k].pos = q
        /\ \A k \in DOMAIN s : s[k] \in CNameIndex /\ s[k].nHeight = nHeight[s[k].pos[1]]
        /\ \A k, l \in DOMAIN s : k < l => Before(s[k].pos, s[l].pos)
    <2> HIDE DEF P, m
    <2> QED  BY <1>1, <1>3, EntriesAreOps, ZenonT(40) DEF Rebuildable
  <1>5. \A k \in DOMAIN s : n \in DOMAIN dbName /\ s = dbName[n]
    BY DEF VtxPos
  <1>6. \A k \in DOMAIN s : n \in Name
    BY <1>5 DEF Rebuildable, NameIndexType
  <1>7. \A q : q \in OpsOn(n, P) <=> q \in P /\ NamePopped(TxAt(q)) /\ NameOut(TxAt(q)).name = n
    BY DEF OpsOn, NameOpOn, NamePopped
  <1>8. DOMAIN s = 1 .. Len(s) /\ Len(s) \in Nat
    BY <1>2
  <1> HIDE DEF s, P
  <1>9. ASSUME NEW k \in DOMAIN s
        PROVE  s[k].pos \in P /\ NamePopped(TxAt(s[k].pos)) /\ NameOut(TxAt(s[k].pos)).name = n
    BY <1>4, <1>7
  <1>10. ASSUME NEW q \in P, NamePopped(TxAt(q)), NameOut(TxAt(q)).name = n
         PROVE  \E k \in DOMAIN s : s[k].pos = q
    BY <1>4, <1>7, <1>10
  <1> QED  BY <1>2, <1>4, <1>5, <1>6, <1>8, <1>9, <1>10 DEF History, s, P

LEMMA EndOfPrefix ==
    ASSUME NEW T, NEW q \in Seq(T), NEW k \in 1 .. Len(q)
    PROVE  LET s == SubSeq(q, 1, k) IN Len(s) = k /\ s[k] = q[k] /\ s # <<>>
  <1>1. SubSeq(q, 1, k) = [i \in 1 .. k |-> q[i]]
    OBVIOUS
  <1>2. Len(SubSeq(q, 1, k)) = k
    OBVIOUS
  <1> DEFINE s == SubSeq(q, 1, k)
  <1>3. s[k] = q[k]
    BY <1>1
  <1> HIDE DEF s
  <1>4. Len(s) = k
    BY <1>2 DEF s
  <1>5. s # <<>>
    BY <1>4
  <1> QED  BY <1>3, <1>4, <1>5 DEF s

(* Every operation on a name is written again, after those before it. *)
LEMMA RebuildWrites ==
    ASSUME NoNameBug, Rebuildable, NEW n, NEW j \in DOMAIN History(n),
           NEW nv, VtxPos(nv, n) = SubSeq(History(n), 1, j - 1)
    PROVE  ReconstructStep(nv, History(n)[j].pos) = WriteName(nv, n, SubSeq(History(n), 1, j))
  <1> DEFINE L == History(n)
             p == L[j].pos
             t == vtx[p[1]][p[2]]
             o == NameInput(t)
             h == nHeight[p[1]]
  <1>1. /\ L \in Seq(CNameIndex) /\ DOMAIN L = 1 .. Len(L) /\ Len(L) \in Nat /\ j \in 1 .. Len(L)
        /\ n \in DOMAIN dbName /\ L = dbName[n] /\ L[j].nHeight = h /\ p \in Positions(dbBest)
        /\ NamePopped(t) /\ NameOut(t).name = n
    BY HistoryFacts DEF TxAt
  <1>2. p[1] \in Block \ {Genesis} /\ p[2] \in DOMAIN vtx[p[1]] /\ t \in Tx
    <2>1. p[1] \in Ancestors[dbBest] \ {Genesis} /\ p[2] \in 1 .. Len(vtx[p[1]]) /\ dbBest \in Block
      BY <1>1, PositionsOf DEF Rebuildable
    <2>2. p[1] \in Block \ {Genesis}
      BY <2>1, BlockTree
    <2>3. vtx[p[1]] \in Seq(Tx)
      BY <2>2, TxAssumption
    <2> QED  BY <2>1, <2>2, <2>3
  <1>3. EntryOK(dbTx, dbName, n, j)
    BY <1>1 DEF Rebuildable, NameView
  <1>4. HasTxIndex(dbTx, t) /\ t \in IndexedTx(dbTx)
    <2>1. TxAt(p) \in IndexedTx(dbTx)
      BY <1>1, WholeChain DEF Rebuildable
    <2> QED  BY <2>1 DEF TxAt, IndexedTx
  <1>5. isNameTx[t] /\ DecodeNameTx(t) /\ NameOut(t).op # "new"
    BY <1>1 DEF NamePopped
  <1>6. o \in vin[t] /\ Out(o).op \in NameOps
    BY <1>1, <1>3 DEF EntryOK, TxAt, NameOps
  <1>7. NameOut(t).op = "update" => j > 1 /\ dbTx[o[1]].pos = L[j - 1].pos
    BY <1>1, <1>3 DEF EntryOK, TxAt
  <1>8. ~postLibcoinFork(h) => NameBugWorkaround(t)
    <2>1. NameInputs(t) # {}
      BY <1>6 DEF NameInputs
    <2>2. \A o1, o2 \in NameInputs(t) : o1 = o2
      BY <1>4 DEF Rebuildable, OneNameInput
    <2>3. ~postLibcoinFork(h) => ~Mismatch(t)
      BY <1>1, <1>2 DEF NoNameBug, WithoutBug
    <2> QED  BY <2>1, <2>2, <2>3 DEF NameBugWorkaround
  <1>9. L[j] = [nHeight |-> h, pos |-> p]
    <2>1. L[j] \in CNameIndex
      BY <1>1
    <2> QED  BY <1>1, <2>1 DEF CNameIndex
  <1> HIDE DEF L
  <1>10. NameOut(t).op = "update" => CheckNameTxPos(nv, n, dbTx[o[1]].pos)
    <2> SUFFICES ASSUME NameOut(t).op = "update" PROVE CheckNameTxPos(nv, n, dbTx[o[1]].pos)
      OBVIOUS
    <2> DEFINE s == SubSeq(L, 1, j - 1)
    <2>1. j - 1 \in 1 .. Len(L) /\ j > 1
      <3>1. j > 1 /\ j \in 1 .. Len(L) /\ Len(L) \in Nat
        BY <1>1, <1>7
      <3> QED  BY <3>1
    <2>2. Len(s) = j - 1 /\ s[j - 1] = L[j - 1] /\ s # <<>>
      BY <1>1, <2>1, EndOfPrefix
    <2>3. VtxPos(nv, n) = s
      BY DEF L
    <2> HIDE DEF s
    <2> QED  BY <1>7, <2>2, <2>3 DEF CheckNameTxPos
  <1>11. Append(VtxPos(nv, n), [nHeight |-> h, pos |-> p]) = SubSeq(L, 1, j)
    <2>1. Append(SubSeq(L, 1, j - 1), L[j]) = SubSeq(L, 1, j)
      BY <1>1
    <2> QED  BY <1>9, <2>1 DEF L
  <1>12. ReconstructStep(nv, p) = WriteName(nv, n, Append(VtxPos(nv, n), [nHeight |-> h, pos |-> p]))
    BY <1>1, <1>4, <1>5, <1>8, <1>10 DEF ReconstructStep
  <1> QED  BY <1>11, <1>12 DEF L

(* After k positions each history is rebuilt up to its entries among them. *)
RebuiltTo(s, k, nv, n) ==
    \E m \in 0 .. Len(History(n)) :
        /\ VtxPos(nv, n) = SubSeq(History(n), 1, m)
        /\ \A j \in 1 .. Len(History(n)) :
              j <= m <=> \E i \in 1 .. k : History(n)[j].pos = s[i]

LEMMA BeforeIsOrder ==
    ASSUME NEW p, NEW q, p[1] \in Block, q[1] \in Block, p[2] \in Nat, q[2] \in Nat, Before(p, q)
    PROVE  p # q /\ ~Before(q, p)
  <1>1. nHeight[p[1]] \in Nat /\ nHeight[q[1]] \in Nat
    BY BlockTree
  <1> QED  BY <1>1 DEF Before

LEMMA RebuildGoesOn ==
    ASSUME NoNameBug, Rebuildable, NEW s, ListsChain(s, dbBest), NEW k \in Nat, k < Len(s),
           NEW nv, \A n \in Name : RebuiltTo(s, k, nv, n)
    PROVE  \A n \in Name : RebuiltTo(s, k + 1, ReconstructStep(nv, s[k + 1]), n)
  <1> DEFINE p == s[k + 1]
             t == TxAt(p)
             nw == ReconstructStep(nv, p)
  <1>1. /\ Len(s) \in Nat /\ k + 1 \in 1 .. Len(s)
        /\ \A i \in 1 .. Len(s) : s[i] \in Positions(dbBest) /\ s[i][1] \in Block /\ s[i][2] \in Nat
        /\ \A i, j \in 1 .. Len(s) : i < j => Before(s[i], s[j])
        /\ \A q \in Positions(dbBest) : \E i \in 1 .. Len(s) : s[i] = q
    <2>1. s \in Seq(Block \X Nat)
      BY DEF ListsChain
    <2>2. \A i \in 1 .. Len(s) : s[i] \in Block \X Nat
      BY <2>1
    <2> QED  BY <2>1, <2>2 DEF ListsChain
  <1>2. p \in Positions(dbBest) /\ t \in Tx
    <2>1. p \in Positions(dbBest)
      BY <1>1
    <2>2. TxAt(p) \in IndexedTx(dbTx)
      BY <2>1, WholeChain DEF Rebuildable
    <2> QED  BY <2>1, <2>2 DEF IndexedTx
  <1>3. ASSUME NEW i \in 1 .. Len(s) PROVE Before(s[i], p) <=> i \in 1 .. k
    <2>1. i < k + 1 => Before(s[i], p)
      BY <1>1
    <2>2. i = k + 1 => ~Before(s[i], p)
      BY <1>1, BeforeIsOrder
    <2>3. i > k + 1 => ~Before(s[i], p)
      BY <1>1, BeforeIsOrder
    <2> QED  BY <1>1, <2>1, <2>2, <2>3
  <1>4. \A i \in 1 .. k : i \in 1 .. Len(s) /\ s[i] # p
    <2> TAKE i \in 1 .. k
    <2>1. i \in 1 .. Len(s)
      BY <1>1
    <2>2. Before(s[i], p)
      BY <1>3, <2>1
    <2> QED  BY <1>1, <2>1, <2>2, BeforeIsOrder
  <1>5. \A i \in 1 .. k + 1 : i \in 1 .. k \/ i = k + 1
    OBVIOUS
  <1>6. \A i \in 1 .. k : i \in 1 .. k + 1
    OBVIOUS
  <1> SUFFICES ASSUME NEW n \in Name PROVE RebuiltTo(s, k + 1, nw, n)
    OBVIOUS
  <1> DEFINE L == History(n)
  <1>7. PICK m \in 0 .. Len(L) :
           /\ VtxPos(nv, n) = SubSeq(L, 1, m)
           /\ \A j \in 1 .. Len(L) : j <= m <=> \E i \in 1 .. k : L[j].pos = s[i]
    BY DEF RebuiltTo
  <1>8. /\ L \in Seq(CNameIndex) /\ DOMAIN L = 1 .. Len(L) /\ Len(L) \in Nat
        /\ \A j \in 1 .. Len(L) :
              /\ L[j].pos \in Positions(dbBest)
              /\ NamePopped(TxAt(L[j].pos)) /\ NameOut(TxAt(L[j].pos)).name = n
        /\ \A i, j \in 1 .. Len(L) : i < j => Before(L[i].pos, L[j].pos)
        /\ NamePopped(t) /\ NameOut(t).name = n => \E j \in 1 .. Len(L) : L[j].pos = p
    BY <1>2, HistoryFacts
  <1>9. CASE NamePopped(t) /\ NameOut(t).name = n
    <2>1. PICK j \in 1 .. Len(L) : L[j].pos = p
      BY <1>8, <1>9
    <2>2. j > m
      <3>1. ~\E i \in 1 .. k : L[j].pos = s[i]
        BY <1>4, <2>1
      <3>2. ~(j <= m)
        BY <1>7, <3>1
      <3> QED  BY <1>7, <1>8, <3>2
    <2>3. ASSUME NEW i \in 1 .. Len(L), i < j PROVE i <= m
      <3>1. Before(L[i].pos, p) /\ L[i].pos \in Positions(dbBest)
        BY <1>8, <2>1, <2>3
      <3>2. PICK l \in 1 .. Len(s) : s[l] = L[i].pos
        BY <1>1, <3>1
      <3>3. l \in 1 .. k
        BY <1>3, <3>1, <3>2
      <3> QED  BY <1>7, <3>2, <3>3
    <2>4. j = m + 1
      <3>1. ~(m + 1 < j)
        <4> SUFFICES ASSUME m + 1 < j PROVE FALSE
          OBVIOUS
        <4>1. m + 1 \in 1 .. Len(L)
          BY <1>7, <1>8
        <4>2. m + 1 <= m
          BY <2>3, <4>1
        <4> QED  BY <1>7, <4>2
      <3> QED  BY <1>7, <1>8, <2>2, <3>1
    <2>5. j \in DOMAIN L /\ m = j - 1 /\ VtxPos(nv, n) = SubSeq(L, 1, j - 1)
      BY <1>7, <1>8, <2>4
    <2>6. nw = WriteName(nv, n, SubSeq(L, 1, j))
      BY <2>1, <2>5, RebuildWrites
    <2>7. VtxPos(nw, n) = SubSeq(L, 1, j)
      BY <2>6 DEF VtxPos, WriteName
    <2>8. ASSUME NEW l \in 1 .. Len(L) PROVE l <= j <=> \E i \in 1 .. k + 1 : L[l].pos = s[i]
      <3>1. CASE l < j
        <4>1. l <= m
          BY <2>3, <3>1
        <4>2. \E i \in 1 .. k : L[l].pos = s[i]
          BY <1>7, <4>1
        <4> QED  BY <1>6, <3>1, <4>2
      <3>2. CASE l = j
        BY <1>1, <2>1, <3>2
      <3>3. CASE j < l
        <4>1. Before(p, L[l].pos)
          BY <1>8, <2>1, <3>3
        <4>2. PICK x \in 1 .. Len(s) : s[x] = L[l].pos
          BY <1>1, <1>8
        <4>3. L[l].pos # p
          BY <1>1, <4>1, <4>2, BeforeIsOrder
        <4>4. ~(l <= m)
          BY <1>8, <2>4, <3>3
        <4>5. ~\E i \in 1 .. k : L[l].pos = s[i]
          BY <1>7, <4>4
        <4> QED  BY <1>5, <1>8, <3>3, <4>3, <4>5
      <3> QED  BY <1>8, <3>1, <3>2, <3>3
    <2>9. j \in 0 .. Len(L)
      BY <2>1
    <2> QED  BY <2>7, <2>8, <2>9 DEF RebuiltTo
  <1>10. CASE ~(NamePopped(t) /\ NameOut(t).name = n)
    <2>1. VtxPos(nw, n) = VtxPos(nv, n)
      <3>1. CASE ~NamePopped(t)
        BY <1>2, <3>1, RebuildSkips
      <3>2. CASE NamePopped(t) /\ NameOut(t).name # n
        <4>1. \/ nw = nv
              \/ \E x : nw = WriteName(nv, NameOut(t).name, x)
          BY DEF ReconstructStep, TxAt
        <4> QED  BY <3>2, <4>1 DEF VtxPos, WriteName
      <3> QED  BY <1>10, <3>1, <3>2
    <2>2. ASSUME NEW j \in 1 .. Len(L)
          PROVE  j <= m <=> \E i \in 1 .. k + 1 : L[j].pos = s[i]
      <3>1. L[j].pos # p
        BY <1>8, <1>10
      <3>2. (\E i \in 1 .. k + 1 : L[j].pos = s[i]) <=> (\E i \in 1 .. k : L[j].pos = s[i])
        BY <1>5, <1>6, <3>1
      <3> QED  BY <1>7, <3>2
    <2> QED  BY <1>7, <2>1, <2>2 DEF RebuiltTo
  <1> QED  BY <1>9, <1>10

LEMMA RebuildIsIndex ==
    ASSUME NoNameBug, Rebuildable
    PROVE  NameIndexReconstructs
  <1> DEFINE s == ChainPositions[dbBest]
             N == Len(s)
  <1>1. ListsChain(s, dbBest) /\ s \in Seq(Block \X Nat) /\ N \in Nat
    <2>1. ListsChain(s, dbBest)
      BY ChainListed DEF Rebuildable
    <2>2. s \in Seq(Block \X Nat)
      BY <2>1 DEF ListsChain
    <2> QED  BY <2>1, <2>2
  <1>2. \A i \in 1 .. N : TxAt(s[i]) \in Tx
    <2> TAKE i \in 1 .. N
    <2>1. s[i] \in Positions(dbBest)
      BY <1>1 DEF ListsChain
    <2>2. TxAt(s[i]) \in IndexedTx(dbTx)
      BY <2>1, WholeChain DEF Rebuildable
    <2> QED  BY <2>2 DEF IndexedTx
  <1>3. ReconstructNameIndex = FoldLeft(ReconstructStep, <<>>, s)
    BY DEF ReconstructNameIndex
  <1> HIDE DEF s
  <1>4. PICK a : Rebuilds(s, a)
    BY <1>1, <1>2, RebuildsExist
  <1> DEFINE Good(k) == \A n \in Name : RebuiltTo(s, k, a[k], n)
             S == {k \in Nat : k <= N => Good(k)}
  <1>5. Good(0)
    <2> SUFFICES ASSUME NEW n \in Name PROVE RebuiltTo(s, 0, a[0], n)
      OBVIOUS
    <2>1. History(n) \in Seq(CNameIndex) /\ Len(History(n)) \in Nat
      BY HistoryFacts
    <2>2. VtxPos(a[0], n) = <<>>
      BY <1>4 DEF Rebuilds, VtxPos
    <2>3. SubSeq(History(n), 1, 0) = <<>>
      BY <2>1
    <2>4. 0 \in 0 .. Len(History(n)) /\ \A j \in 1 .. Len(History(n)) : ~(j <= 0)
      BY <2>1
    <2>5. ~\E i \in 1 .. 0 : TRUE
      OBVIOUS
    <2> QED  BY <2>2, <2>3, <2>4, <2>5 DEF RebuiltTo
  <1>6. ASSUME NEW k \in Nat, k \in S PROVE k + 1 \in S
    <2> SUFFICES ASSUME k + 1 <= N PROVE Good(k + 1)
      OBVIOUS
    <2>1. k < N /\ k <= N /\ k + 1 \in 1 .. N /\ (k + 1) - 1 = k
      BY <1>1
    <2>2. a[k + 1] = ReconstructStep(a[k], s[k + 1])
      BY <1>4, <2>1 DEF Rebuilds
    <2>3. \A n \in Name : RebuiltTo(s, k, a[k], n)
      BY <1>6, <2>1
    <2>4. \A n \in Name : RebuiltTo(s, k + 1, ReconstructStep(a[k], s[k + 1]), n)
      BY <1>1, <2>1, <2>3, RebuildGoesOn
    <2> QED  BY <2>2, <2>4
  <1>7. Nat \subseteq S
    <2>1. 0 \in S
      BY <1>5
    <2> HIDE DEF S
    <2> QED  BY <1>6, <2>1, SetInduction
  <1>8. Good(N)
    BY <1>1, <1>7
  <1>9. ASSUME NEW n \in Name PROVE VtxPos(dbName, n) = VtxPos(ReconstructNameIndex, n)
    <2> DEFINE L == History(n)
    <2>1. PICK m \in 0 .. Len(L) :
             /\ VtxPos(a[N], n) = SubSeq(L, 1, m)
             /\ \A j \in 1 .. Len(L) : j <= m <=> \E i \in 1 .. N : L[j].pos = s[i]
      BY <1>8 DEF RebuiltTo
    <2>2. /\ L \in Seq(CNameIndex) /\ DOMAIN L = 1 .. Len(L) /\ Len(L) \in Nat
          /\ \A j \in 1 .. Len(L) : L[j].pos \in Positions(dbBest)
      BY HistoryFacts
    <2>3. \A j \in 1 .. Len(L) : \E i \in 1 .. N : L[j].pos = s[i]
      BY <1>1, <2>2 DEF ListsChain
    <2>4. \A j \in 1 .. Len(L) : j <= m
      BY <2>1, <2>3
    <2>5. m = Len(L)
      <3>1. Len(L) # 0 => Len(L) \in 1 .. Len(L)
        BY <2>2
      <3>2. Len(L) # 0 => Len(L) <= m
        BY <2>4, <3>1
      <3>3. m \in 0 .. Len(L) /\ Len(L) \in Nat
        BY <2>1, <2>2
      <3> HIDE DEF L
      <3> QED  BY <3>2, <3>3
    <2>6. SubSeq(L, 1, Len(L)) = L
      BY <2>2
    <2>7. ReconstructNameIndex = a[N]
      BY <1>3, <1>4 DEF Rebuilds
    <2> QED  BY <2>1, <2>5, <2>6, <2>7 DEF History
  <1> QED  BY <1>9 DEF NameIndexReconstructs

(* NameIndexReconstructs: after any reorganisation, abort or restart the    *)
(* committed name index has the entries that CNameDB::ReconstructNameIndex  *)
(* would write, on chains without the transactions that only the bug        *)
(* workarounds let through.                                                 *)
THEOREM RebuildChangesNothing == NoNameBug => (Spec => []NameIndexReconstructs)
  <1> SUFFICES ASSUME NoNameBug PROVE Spec => []NameIndexReconstructs
    OBVIOUS
  <1>1. ASSUME NodeInv, NameIndexOK, BothCoinsOK, NameInputsOK PROVE NameIndexReconstructs
    <2>1. Rebuildable
      BY <1>1 DEF Rebuildable, NodeInv, TypeOK, StoreType, ChainType, NameIndexOK, BothCoinsOK,
                  CoinsOK, NameInputsOK
    <2> QED  BY <2>1, RebuildIsIndex
  <1> QED  BY <1>1, NodeInvariant, NamesInvariant, CoinsInvariant, NameInputsInvariant, PTL
=============================================================================
