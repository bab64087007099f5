----------------------------- MODULE NameHooks -----------------------------
(***************************************************************************)
(* Contextual validation of one transaction: CTransaction::ConnectInputs,  *)
(* DisconnectInputs and the Namecoin hooks they call, as operators of the  *)
(* view of the two databases the caller works on:                          *)
(*   tv  the transaction index:  [Tx -> [pos, spent]], pos = NoPos when    *)
(*       ReadTxIndex finds nothing; spent = the outputs marked spent;      *)
(*   nv  the name index:  a function of the names that have a record, to   *)
(*       the sequence vtxPos of CNameIndex entries [nHeight, pos].         *)
(* A position is <<block, i>>: the i-th transaction of the block.          *)
(*                                                                         *)
(* mode stands for the flags fBlock and fMiner: "block" when a block is    *)
(* connected, "miner" when a block is assembled, "pool" when neither.      *)
(***************************************************************************)
EXTENDS ChainData

NoPos == <<NoBlock, 0>>

PosOf(b, i) == <<b, i>>

CNameIndex == [nHeight : Nat, pos : Block \X Nat]

HasTxIndex(tv, t) == tv[t].pos # NoPos

VtxPos(nv, n) == IF n \in DOMAIN nv THEN nv[n] ELSE <<>>

WriteName(nv, n, vtxPos) ==
    [m \in DOMAIN nv \cup {n} |-> IF m = n THEN vtxPos ELSE nv[m]]

(* -1 when the name has no entry, else the height of its last entry. *)
GetNameHeight(nv, n) ==
    LET vtxPos == VtxPos(nv, n)
    IN  IF vtxPos = <<>> THEN -1 ELSE vtxPos[Len(vtxPos)].nHeight

CheckNameTxPos(nv, n, pos) ==
    LET vtxPos == VtxPos(nv, n)
    IN  vtxPos # <<>> /\ vtxPos[Len(vtxPos)].pos = pos

(* The walk from b back along pprev, at most maxDepth blocks. *)
CheckTransactionAtRelativeDepth(b, pos, maxDepth) ==
    IF pos[1] \in Ancestors[b] /\ nHeight[b] - nHeight[pos[1]] < maxDepth
    THEN nHeight[b] - nHeight[pos[1]]
    ELSE -1

-----------------------------------------------------------------------------
(* CNamecoinHooks::ConnectInputs                                           *)

NameInputs(t) == {o \in vin[t] : Out(o).op \in NameOps}

NameInput(t) == CHOOSE o \in vin[t] : o \in NameInputs(t)

(* Mutant: the hash of the name_new is not compared. *)
Mismatch_UpdatesOnly(t) ==
    NameOut(t).op = "update" /\ Out(NameInput(t)).name # NameOut(t).name

(* fBugWorkaround of the first kind: the name does not match the input.    *)
Mismatch(t) ==
    LET out == NameOut(t)  prev == Out(NameInput(t))
    IN  \/ out.op = "firstupdate"
           /\ <<prev.rand, prev.name>> # <<out.rand, out.name>>
        \/ out.op = "update" /\ prev.name # out.name

(* Mutant: the position of the input in the name index is not looked at. *)
OnTopOfBug_Never(t, tv, nv) == FALSE

(* ... of the second kind: a valid update on top of a tx not in the name DB. *)
OnTopOfBug(t, tv, nv) ==
    /\ NameOut(t).op = "update"
    /\ ~CheckNameTxPos(nv, NameOut(t).name, tv[NameInput(t)[1]].pos)

CheckNameNew(t) == NameInputs(t) = {}

(* Mutant: a name_firstupdate on an unexpired name is let through. *)
CheckFirstUpdate_Taken(t, b, tv, nv, mode, setPending, mapTestPool) ==
    /\ GetNameNetFee(t) >= GetNetworkFee(nHeight[b])
    /\ NameInputs(t) # {} /\ Out(NameInput(t)).op = "new"
    /\ Mismatch(t) => ~postLibcoinFork(nHeight[b])
    /\ CheckTransactionAtRelativeDepth(b, tv[NameInput(t)[1]].pos, MIN_FIRSTUPDATE_DEPTH) = -1

CheckFirstUpdate(t, b, tv, nv, mode, setPending, mapTestPool) ==
    LET out   == NameOut(t)
        h     == nHeight[b]
        nPrev == GetNameHeight(nv, out.name)
        pos   == tv[NameInput(t)[1]].pos
    IN  /\ GetNameNetFee(t) >= GetNetworkFee(h)
        /\ NameInputs(t) # {} /\ Out(NameInput(t)).op = "new"
        /\ Mismatch(t) => ~postLibcoinFork(h)
        /\ ~(nPrev >= 0 /\ NameUnexpired(nPrev, h))
        /\ mode \in {"block", "miner"} =>
              CheckTransactionAtRelativeDepth(b, pos, MIN_FIRSTUPDATE_DEPTH) = -1
        /\ mode = "miner" =>
              /\ CheckTransactionAtRelativeDepth(b, pos, GetExpirationDepth(h)) # -1
              /\ setPending \cap mapTestPool = {}

(* Mutant: a name_update on an expired name is let through. *)
CheckNameUpdate_Expired(t, b, tv, mode) ==
    /\ NameInputs(t) # {} /\ Out(NameInput(t)).op \in {"firstupdate", "update"}
    /\ Mismatch(t) => ~postLibcoinFork(nHeight[b])

CheckNameUpdate(t, b, tv, mode) ==
    LET h   == nHeight[b]
        pos == tv[NameInput(t)[1]].pos
    IN  /\ NameInputs(t) # {} /\ Out(NameInput(t)).op \in {"firstupdate", "update"}
        /\ Mismatch(t) => ~postLibcoinFork(h)
        /\ mode \in {"block", "miner"} =>
              CheckTransactionAtRelativeDepth(b, pos, GetExpirationDepth(h)) >= 0

HookConnectInputs(t, b, tv, nv, mode, setPending, mapTestPool) ==
    LET h == nHeight[b]  strict == mode # "block" \/ doStrictChecks(h)
    IN  /\ \A o1, o2 \in NameInputs(t) : o1 = o2
        /\ \/ /\ ~isNameTx[t]
              /\ strict => NameOutputs(t) = {}
              /\ NameInputs(t) = {}
           \/ /\ isNameTx[t] /\ DecodeNameTx(t)
              /\ strict => NameOut(t).nValue >= MIN_AMOUNT
              /\ \/ NameOut(t).op = "new" /\ CheckNameNew(t)
                 \/ /\ NameOut(t).op = "firstupdate"
                    /\ CheckFirstUpdate(t, b, tv, nv, mode, setPending, mapTestPool)
                 \/ NameOut(t).op = "update" /\ CheckNameUpdate(t, b, tv, mode)
              /\ mode = "miner" => ~Mismatch(t)
              /\ ~Mismatch(t) /\ OnTopOfBug(t, tv, nv) =>
                    mode = "block" /\ ~postLibcoinFork(h)

(* The transactions whose connection writes the name index: vtxPos.push_back. *)
WritesName(t, tv, nv) ==
    /\ isNameTx[t] /\ ~IsCoinBase(t)
    /\ NameOut(t).op \in {"firstupdate", "update"}
    /\ ~Mismatch(t) /\ ~OnTopOfBug(t, tv, nv)

NameConnected(t, b, i, tv, nv) ==
    IF WritesName(t, tv, nv)
    THEN WriteName(nv, NameOut(t).name,
                   Append(VtxPos(nv, NameOut(t).name),
                          [nHeight |-> nHeight[b], pos |-> PosOf(b, i)]))
    ELSE nv

(* The transactions whose connection takes them out of mapNamePending. *)
ErasesPending(t) ==
    isNameTx[t] /\ ~IsCoinBase(t) /\ NameOut(t).op # "new" /\ ~Mismatch(t)

-----------------------------------------------------------------------------
(* CTransaction::ConnectInputs: every input is found, mature and unspent.  *)
(* Only the pool looks for a missing previous transaction in mapTransactions. *)

InputOK(o, b, tv, mode, mapTransactions) ==
    /\ HasTxIndex(tv, o[1]) \/ (mode = "pool" /\ o[1] \in mapTransactions)
    /\ o[2] <= Len(vout[o[1]])
    /\ IsCoinBase(o[1]) =>
          CheckTransactionAtRelativeDepth(b, tv[o[1]].pos, COINBASE_MATURITY) = -1
    /\ o[2] \notin tv[o[1]].spent

InputsOK(t, b, tv, mode, mapTransactions) ==
    \A o \in vin[t] : InputOK(o, b, tv, mode, mapTransactions)

TxFee(t) == GetValueIn(t) - GetValueOut(t)

(* Mutant: the inputs are not marked spent. *)
TxConnected_NoSetSpent(t, b, i, tv) ==
    [tv EXCEPT ![t] = [pos |-> PosOf(b, i), spent |-> {}]]

(* SetSpent on every input, then AddTxIndex for the transaction itself. *)
TxConnected(t, b, i, tv) ==
    [u \in Tx |->
        IF u = t THEN [pos |-> PosOf(b, i), spent |-> {}]
        ELSE [tv[u] EXCEPT !.spent = @ \cup {o[2] : o \in {p \in vin[t] : p[1] = u}}]]

-----------------------------------------------------------------------------
(* CTransaction::DisconnectInputs and its hook.                            *)

NamePopped(t) == isNameTx[t] /\ DecodeNameTx(t) /\ NameOut(t).op \in {"firstupdate", "update"}

(* The hook and the previous transactions' index records can be read. *)
CanDisconnect(t, tv, nv) ==
    /\ isNameTx[t] => DecodeNameTx(t)
    /\ NamePopped(t) =>
          /\ NameOut(t).name \in DOMAIN nv
          /\ nv[NameOut(t).name] # <<>> => HasTxIndex(tv, t)
    /\ \A o \in vin[t] : HasTxIndex(tv, o[1]) /\ o[2] <= Len(vout[o[1]])

(* Mutant: the whole record of the name is erased. *)
NameDisconnected_Erases(t, tv, nv) ==
    IF NamePopped(t) THEN [m \in DOMAIN nv \ {NameOut(t).name} |-> nv[m]] ELSE nv

(* vtxPos.pop_back, if the last entry is this transaction. *)
NameDisconnected(t, tv, nv) ==
    IF NamePopped(t) /\ CheckNameTxPos(nv, NameOut(t).name, tv[t].pos)
    THEN LET vtxPos == VtxPos(nv, NameOut(t).name)
         IN  WriteName(nv, NameOut(t).name, SubSeq(vtxPos, 1, Len(vtxPos) - 1))
    ELSE nv

(* Mutant: the inputs stay marked spent. *)
TxDisconnected_NoUnspend(t, tv) == [tv EXCEPT ![t] = [pos |-> NoPos, spent |-> {}]]

(* Mutant: the transaction stays in the index. *)
TxDisconnected_NoErase(t, tv) ==
    [u \in Tx |-> [tv[u] EXCEPT !.spent = @ \ {o[2] : o \in {p \in vin[t] : p[1] = u}}]]

(* SetSpent(false) on every input, then EraseTxIndex. *)
TxDisconnected(t, tv) ==
    [u \in Tx |->
        IF u = t THEN [pos |-> NoPos, spent |-> {}]
        ELSE [tv[u] EXCEPT !.spent = @ \ {o[2] : o \in {p \in vin[t] : p[1] = u}}]]
=============================================================================
