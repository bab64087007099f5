---------------------------- MODULE LedgerRules ----------------------------
(***************************************************************************)
(* What the block chain promises, said of whole chains and without any     *)
(* index, database transaction or undo: which chains are valid, which      *)
(* outputs are unspent at the end of a chain, and who operated on each     *)
(* name.  The rules are those after the libcoin and strict-checks forks;   *)
(* they use nothing of the validation code but the contents of blocks and  *)
(* transactions and the height-dependent parameters.                       *)
(***************************************************************************)
EXTENDS ChainData

(* The transactions of the chain that ends in b, by position.  The genesis *)
(* block's transactions are not part of the ledger.                        *)
Positions(b) == UNION {{a} \X DOMAIN vtx[a] : a \in Ancestors[b] \ {Genesis}}

Before(p, q) ==
    \/ nHeight[p[1]] < nHeight[q[1]]
    \/ p[1] = q[1] /\ p[2] < q[2]

Earlier(p) == {q \in Positions(p[1]) : Before(q, p)}

NameOpOn(t, n) ==
    /\ isNameTx[t] /\ DecodeNameTx(t)
    /\ NameOut(t).op \in {"firstupdate", "update"} /\ NameOut(t).name = n

(* The operations on a name among some positions, and the last of them. *)
OpsOn(n, P) == {p \in P : NameOpOn(TxAt(p), n)}

LastOf(P) == CHOOSE p \in P : \A q \in P : q = p \/ Before(q, p)

Age(q, p) == nHeight[p[1]] - nHeight[q[1]]

(* Every input was created before, not too recently if it is a coinbase,   *)
(* and nobody spent it in between.                                         *)
InputsAvailable(p) ==
    \A o \in vin[TxAt(p)] :
        /\ \E q \in Earlier(p) :
              /\ TxAt(q) = o[1] /\ o[2] <= Len(vout[o[1]])
              /\ IsCoinBase(o[1]) => Age(q, p) >= COINBASE_MATURITY
        /\ \A q \in Earlier(p) : o \notin vin[TxAt(q)]

NameCoinsSpent(t) == {o \in vin[t] : Out(o).op \in NameOps}

(* A name_firstupdate opens a name that is free: never registered, or its   *)
(* last operation has expired.  It reveals a name_new that is old enough.   *)
OpensName(p) ==
    LET t    == TxAt(p)
        out  == NameOut(t)
        ops  == OpsOn(out.name, Earlier(p))
    IN  /\ ops # {} => Age(LastOf(ops), p) >= GetExpirationDepth(nHeight[p[1]])
        /\ \E o \in vin[t] :
              /\ NameCoinsSpent(t) = {o}
              /\ Out(o).op = "new" /\ Out(o).name = out.name /\ Out(o).rand = out.rand
              /\ \A q \in Earlier(p) : TxAt(q) = o[1] => Age(q, p) >= MIN_FIRSTUPDATE_DEPTH
        /\ GetNameNetFee(t) >= GetNetworkFee(nHeight[p[1]])

(* A name_update spends the name's own coin before it expires. *)
KeepsName(p) ==
    LET t   == TxAt(p)
        out == NameOut(t)
        ops == OpsOn(out.name, Earlier(p))
    IN  /\ ops # {}
        /\ Age(LastOf(ops), p) < GetExpirationDepth(nHeight[p[1]])
        /\ \E o \in vin[t] :
              /\ NameCoinsSpent(t) = {o}
              /\ o[1] = TxAt(LastOf(ops)) /\ Out(o).name = out.name

ValidTx(p) ==
    LET t == TxAt(p)
    IN  /\ InputsAvailable(p)
        /\ GetValueIn(t) >= GetValueOut(t)
        /\ IF isNameTx[t]
           THEN /\ NameOut(t).nValue >= MIN_AMOUNT
                /\ \/ NameOut(t).op = "new" /\ NameCoinsSpent(t) = {}
                   \/ NameOut(t).op = "firstupdate" /\ OpensName(p)
                   \/ NameOut(t).op = "update" /\ KeepsName(p)
           ELSE NameOutputs(t) = {} /\ NameCoinsSpent(t) = {}

(* The fees of the transactions of b up to the n-th, the coinbase excepted. *)
FeesUpTo(b, n) ==
    SumFunction([i \in 2 .. n |-> GetValueIn(vtx[b][i]) - GetValueOut(vtx[b][i])])

BlockFees(b) == FeesUpTo(b, Len(vtx[b]))

ValidBlock(b) ==
    /\ CheckBlock(b) /\ b \in HeaderOK
    /\ \A i \in 2 .. Len(vtx[b]) : ValidTx(<<b, i>>)
    /\ GetValueOut(vtx[b][1]) <= GetBlockValue(nHeight[b], BlockFees(b))

(* A chain is valid when all its blocks are. *)
ValidChain(b) == \A a \in Ancestors[b] \ {Genesis} : ValidBlock(a)

ValidChains == {b \in Block : ValidChain(b)}

(* The outputs that nobody on the chain has spent. *)
UnspentOf == [b \in Block |->
    {o \in OutPoint :
        /\ \E p \in Positions(b) : TxAt(p) = o[1] /\ o[2] <= Len(vout[o[1]])
        /\ \A p \in Positions(b) : o \notin vin[TxAt(p)]}]

(* The positions P, oldest first: the i-th has i - 1 of them before it. *)
InOrder(P) ==
    [i \in 1 .. Cardinality(P) |-> CHOOSE p \in P : Cardinality({q \in P : Before(q, p)}) = i - 1]

(* For each name the positions of its operations, oldest first. *)
RegistryOf == [b \in Block |-> [n \in Name |-> InOrder(OpsOn(n, Positions(b)))]]
=============================================================================
