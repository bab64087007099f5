----------------------------- MODULE ChainData -----------------------------
(***************************************************************************)
(* Blocks and transactions, as far as the node's decisions look into them. *)
(*                                                                         *)
(* A block or a transaction is identified by its hash, which commits to    *)
(* everything in it: Block and Tx are the sets of hashes, and the contents *)
(* (hashPrevBlock, vtx, vin, vout, nVersion) are functions of the hash.    *)
(* Scripts, signatures, proof of work and times are not represented: Block *)
(* and Tx hold objects for which those checks succeed, but HeaderOK says   *)
(* which blocks pass the contextual header checks of AcceptBlock (target,  *)
(* median time, finality, lock-in), which depend only on the block and its *)
(* ancestors.                                                              *)
(***************************************************************************)
EXTENDS NameRules, Sequences, FiniteSets, SequencesExt

CONSTANTS
    Block,          \* block hashes
    Genesis,        \* hashGenesisBlock
    NoBlock,        \* the null block index / hash 0
    hashPrevBlock,  \* [Block -> Block \cup {NoBlock}]
    vtx,            \* [Block -> Seq(Tx)]
    BlockWork,      \* [Block -> work], CBlockIndex::GetBlockWork
    HeaderOK,       \* the blocks AcceptBlock's contextual checks let through
    Tx,             \* transaction hashes
    vin,            \* [Tx -> set of outpoints]; empty for a coinbase
    vout,           \* [Tx -> sequence of outputs]
    isNameTx,       \* [Tx -> nVersion = NAMECOIN_TX_VERSION]
    Name,           \* the names (byte strings) that occur
    COINBASE_MATURITY,      \* 100
    MIN_FIRSTUPDATE_DEPTH,  \* 12
    MIN_AMOUNT              \* the value a name output locks, CENT

(* CBlockIndex::nHeight, pprev chain and bnChainWork, computed when a block *)
(* enters the index from the entry of its predecessor.                      *)
nHeight[b \in Block] ==
    IF hashPrevBlock[b] = NoBlock THEN 0 ELSE nHeight[hashPrevBlock[b]] + 1

Ancestors[b \in Block] ==
    {b} \cup IF hashPrevBlock[b] = NoBlock THEN {} ELSE Ancestors[hashPrevBlock[b]]

bnChainWork[b \in Block] ==
    BlockWork[b] +
      IF hashPrevBlock[b] = NoBlock THEN 0 ELSE bnChainWork[hashPrevBlock[b]]

(* The blocks form a tree: following hashPrevBlock ends at the genesis      *)
(* block, so the three recursive definitions above have their usual meaning.*)
ASSUME BlockTreeAssumption ==
    /\ Genesis \in Block
    /\ NoBlock \notin Block
    /\ hashPrevBlock \in [Block -> Block \cup {NoBlock}]
    /\ \A b \in Block : hashPrevBlock[b] = NoBlock <=> b = Genesis
    /\ BlockWork \in [Block -> Nat \ {0}]
    /\ nHeight \in [Block -> Nat] /\ nHeight[Genesis] = 0
    /\ \A b \in Block \ {Genesis} : nHeight[b] = nHeight[hashPrevBlock[b]] + 1

(* Operations of a name output; "none" is an ordinary payment, "return" the *)
(* OP_RETURN output that burns the network fee of a name_firstupdate.       *)
NameOps == {"new", "firstupdate", "update"}

(* A name_new output carries Hash160(rand . name): the hash is represented  *)
(* by its preimage <<rand, name>>, so equal hashes have equal preimages.    *)
TxOut == [op : NameOps \cup {"none", "return"}, name : Name, rand : Nat, nValue : Nat]

OutPoint == UNION {vin[t] : t \in Tx}

ASSUME TxAssumption ==
    /\ vout \in [Tx -> Seq(TxOut)]
    /\ vin \in [Tx -> SUBSET (Tx \X (Nat \ {0}))]
    /\ \A t \in Tx : IsFiniteSet(vin[t])
    /\ isNameTx \in [Tx -> BOOLEAN]
    /\ vtx \in [Block -> Seq(Tx)]
    /\ HeaderOK \subseteq Block
    /\ COINBASE_MATURITY \in Nat
    /\ MIN_FIRSTUPDATE_DEPTH \in Nat
    /\ MIN_AMOUNT \in Nat

(* The transaction at a position <<block, i>>: the i-th one of the block. *)
TxAt(pos) == vtx[pos[1]][pos[2]]

IsCoinBase(t) == vin[t] = {}

(* An outpoint <<t, n>> names the n-th output of t (counted from 1). *)
Out(o) == vout[o[1]][o[2]]

NameOutputs(t) == {i \in DOMAIN vout[t] : vout[t][i].op \in NameOps}

(* DecodeNameTx succeeds exactly when there is one name output. *)
DecodeNameTx(t) == \E i \in DOMAIN vout[t] : NameOutputs(t) = {i}

NameOut(t) == vout[t][CHOOSE i \in DOMAIN vout[t] : i \in NameOutputs(t)]

OutputsOf(t) == {t} \X DOMAIN vout[t]

(* The value of some outputs; one that does not exist is never reached: the *)
(* transaction that spends it is refused before (InputOK of NameHooks).     *)
ValueOf(O) == SumFunction([o \in {p \in O : p[2] <= Len(vout[p[1]])} |-> Out(o).nValue])

GetValueOut(t) == ValueOf(OutputsOf(t))

GetValueIn(t) == ValueOf(vin[t])

GetNameNetFee(t) == ValueOf({o \in OutputsOf(t) : Out(o).op = "return"})

(* CTransaction::CheckTransaction with the hook: the context-free part. *)
CheckTransaction(t) == vout[t] # <<>> /\ (isNameTx[t] => DecodeNameTx(t))

(* CBlock::CheckBlock: one coinbase, first; no transaction twice. *)
CheckBlock(b) ==
    /\ vtx[b] # <<>>
    /\ \A i \in DOMAIN vtx[b] : IsCoinBase(vtx[b][i]) <=> i = 1
    /\ \A i \in DOMAIN vtx[b] : CheckTransaction(vtx[b][i])
    /\ \A i, j \in DOMAIN vtx[b] : vtx[b][i] = vtx[b][j] => i = j

(* No two blocks of a chain have the same coinbase: nothing in the code      *)
(* compares them, miners make theirs differ by the extra nonce and address.  *)
ASSUME CoinbaseAssumption ==
    \A b \in Block : \A a \in Ancestors[b] \ {b, Genesis} :
        vtx[a] # <<>> /\ vtx[b] # <<>> => vtx[a][1] # vtx[b][1]
=============================================================================
