------------------------------- MODULE Wallet -------------------------------
(***************************************************************************)
(* The transactions of the wallet (CWallet::mapWallet) beside the node of  *)
(* NodeCore: what the wallet learns from blocks and from the pool, the     *)
(* coins it marks as spent, the payments it makes, deletetransaction, and  *)
(* ReacceptWalletTransactions after a start.                               *)
(*                                                                         *)
(* Every change is written to wallet.dat at once, so the wallet survives a *)
(* restart as it is; what wallet.dat itself goes through is in WalletFile. *)
(* Which coins a payment takes and what change it makes is given by the    *)
(* contents of the transactions of Outgoing, which are those this wallet   *)
(* may make.  Keys are in KeyPool; watch-only addresses, accounts, the     *)
(* amounts the wallet shows and caches, and outputs of less than           *)
(* nMinimumInputValue are not represented.                                 *)
(***************************************************************************)
EXTENDS NodeCore

CONSTANTS Mine,      \* the outpoints whose script has a key of the wallet
          Outgoing   \* the payments the wallet may make

(* The coinbase of the genesis block is written in the code, and pays to a  *)
(* key that is in no wallet.                                                *)
ASSUME WalletAssumption ==
    /\ Mine \subseteq Tx \X (Nat \ {0}) /\ Outgoing \subseteq Tx
    /\ \A o \in Mine : o[2] \in DOMAIN vout[o[1]]
    /\ \A t \in ToSet(vtx[Genesis]) :
          IsCoinBase(t) /\ t \notin Outgoing /\ \A o \in Mine : o[1] # t

(* A coinbase pays to us with its first output if at all, as the ones of    *)
(* CreateNewBlock do, which have no other: ReacceptWalletTransactions looks *)
(* no further at a coinbase whose first output is spent.                    *)
CoinbasesPayFirst == \A o \in Mine : IsCoinBase(o[1]) => o[2] = 1

VARIABLES
    wallet,    \* [txs, vfSpent, hashBlock, vtxPrev, best]
    toAccept,  \* wallet transactions ReacceptWalletTransactions has yet to look at
    accepting, \* AcceptWalletTransaction: of which, supporting ones yet to try
    hasMissingTx

loadVars   == <<toAccept, accepting, hasMissingTx>>
walletVars == <<wallet, loadVars>>
walletAll  == <<vars, walletVars>>

(* hashBlock is the block a transaction was last seen in.  vtxPrev gives    *)
(* the block of each supporting transaction at the time the wallet made the *)
(* payment; it is empty for a transaction the wallet did not make.  best is *)
(* the end of the locator SetBestChain has left in wallet.dat.              *)
NoPrev == <<>>

NotAccepting == [tx |-> NoTx, vtxPrev |-> {}]

COPY_DEPTH == 3

WalletInit ==
    /\ Init
    /\ wallet = [txs |-> {}, vfSpent |-> {}, hashBlock |-> [t \in Tx |-> NoBlock],
                 vtxPrev |-> [t \in Tx |-> NoPrev], best |-> NoBlock]
    /\ toAccept = {} /\ accepting = NotAccepting /\ hasMissingTx = FALSE

IsLoading == toAccept # {} \/ hasMissingTx

-----------------------------------------------------------------------------
(* What the wallet does with a transaction.                                *)

(* IsMine(CTxOut): Solver knows no name script, so no name coin is one.    *)
MyCoins == {o \in Mine : Out(o).op = "none"}

(* IsMine(CTransaction), with the hook that looks for the name output.     *)
IsMine(t) ==
    \/ \E i \in DOMAIN vout[t] : <<t, i>> \in MyCoins
    \/ isNameTx[t] /\ DecodeNameTx(t) /\ \E i \in NameOutputs(t) : <<t, i>> \in Mine

(* IsMine(CTxIn) *)
MyInputs(w, t) == {o \in vin[t] : o[1] \in w.txs /\ o \in MyCoins}

(* GetDebitInclName counts the coins of names too. *)
IsFromMe(w, t) ==
    \E o \in vin[t] \cap Mine :
        /\ o[1] \in w.txs /\ Out(o).nValue > 0
        /\ o \in MyCoins \/ (isNameTx[o[1]] /\ Out(o).op \in NameOps)

(* Mutant: the coins a received transaction spends are not marked. *)
WalletUpdateSpent_None(w, t) == w

WalletUpdateSpent(w, t) == [w EXCEPT !.vfSpent = @ \cup MyInputs(w, t)]

(* Mutant: the block is recorded as that of the whole reorganisation. *)
AddToWallet_NewTip(w, t, b) ==
    WalletUpdateSpent([w EXCEPT !.txs = @ \cup {t},
                                !.hashBlock[t] = IF b = NoBlock THEN @ ELSE pindexNew], t)

AddToWallet(w, t, b) ==
    WalletUpdateSpent([w EXCEPT !.txs = @ \cup {t},
                                !.hashBlock[t] = IF b = NoBlock THEN @ ELSE b], t)

(* b is the block t was found in, NoBlock outside one. *)
AddToWalletIfInvolvingMe(w, t, b, fUpdate) ==
    IF t \in w.txs /\ ~fUpdate THEN w
    ELSE IF t \in w.txs \/ IsMine(t) \/ IsFromMe(w, t) THEN AddToWallet(w, t, b)
    ELSE WalletUpdateSpent(w, t)

(* Mutant: the block and the supporting transactions are kept. *)
EraseFromWallet_KeepsBlock(w, t) ==
    [w EXCEPT !.txs = @ \ {t}, !.vfSpent = {o \in @ : o[1] # t}]

EraseFromWallet(w, t) ==
    [w EXCEPT !.txs = @ \ {t}, !.vfSpent = {o \in @ : o[1] # t},
              !.hashBlock[t] = NoBlock, !.vtxPrev[t] = NoPrev]

UnspendInputs(w, t) == [w EXCEPT !.vfSpent = @ \ MyInputs(w, t)]

SyncBlock(w, b, fUpdate) ==
    FoldLeft(LAMBDA v, t : AddToWalletIfInvolvingMe(v, t, b, fUpdate), w, vtx[b])

(* From pindexStart along pnext to the last block of the chain. *)
ScanForWalletTransactions(w, pindexStart, last, fUpdate) ==
    LET scanned[b \in {c \in Ancestors[last] : pindexStart \in Ancestors[c]}] ==
          SyncBlock(IF b = pindexStart THEN w ELSE scanned[hashPrevBlock[b]], b, fUpdate)
    IN  scanned[last]

-----------------------------------------------------------------------------
(* Paying                                                                  *)

InMainChain(b) == b \in Ancestors[pindexBest]

GetDepthInMainChain(t) ==
    LET b == wallet.hashBlock[t]
    IN  IF b # NoBlock /\ InMainChain(b) THEN nHeight[pindexBest] - nHeight[b] + 1 ELSE 0

(* With no confirmation, a payment of ours counts as confirmed when its     *)
(* supporting transactions do.                                              *)
IsConfirmed(t) ==
    LET prev == wallet.vtxPrev[t]
        Supported(u, ok) == /\ IsFromMe(wallet, u)
                            /\ \A o \in vin[u] : o[1] \in DOMAIN prev /\ ok[o[1]]
        ok[p \in Tx] == \/ prev[p] # NoBlock /\ InMainChain(prev[p])
                        \/ Supported(p, ok)
    IN  GetDepthInMainChain(t) >= 1 \/ Supported(t, ok)

(* SelectCoins: confirmed, or a payment of ours; a coinbase 20 blocks after *)
(* its maturity.                                                            *)
CoinAvailable(o) ==
    /\ o[1] \in wallet.txs /\ o \in MyCoins /\ o \notin wallet.vfSpent
    /\ Out(o).nValue > 0 /\ IsConfirmed(o[1])
    /\ IsCoinBase(o[1]) => GetDepthInMainChain(o[1]) >= COINBASE_MATURITY + 20

CreateTransaction(t) ==
    /\ t \in Outgoing /\ t \notin wallet.txs \cup mapTransactions
    /\ ~HasTxIndex(dbTx, t)
    /\ \A o \in vin[t] : CoinAvailable(o)

(* AddSupportingTransactions: what t spends, in the wallet, kept with a     *)
(* payment of it, or in a block; and what is spent by those that have been  *)
(* confirmed less than COPY_DEPTH times.                                    *)
Supporting(t) ==
    LET keptBy(u) == {p \in wallet.txs : u \in DOMAIN wallet.vtxPrev[p]}
        Known(u) == u \in wallet.txs \/ HasTxIndex(dbTx, u) \/ keptBy(u) # {}
        Deep(u) == HasTxIndex(dbTx, u) /\
                     nHeight[pindexBest] - nHeight[dbTx[u].pos[1]] + 1 >= COPY_DEPTH
        with[u \in Tx] == IF ~Known(u) THEN {}
                          ELSE {u} \cup IF Deep(u) THEN {} ELSE UNION {with[o[1]] : o \in vin[u]}
        BlockOf(u) == IF HasTxIndex(dbTx, u) THEN dbTx[u].pos[1]
                      ELSE IF u \in wallet.txs THEN wallet.hashBlock[u]
                      ELSE wallet.vtxPrev[CHOOSE p \in keptBy(u) : TRUE][u]
    IN  [u \in UNION {with[o[1]] : o \in vin[t]} |-> BlockOf(u)]

(* The payment is recorded, and what it spends is marked, a name coin too, *)
(* whether or not the pool takes it.                                       *)
CommitTransaction(t) ==
    /\ IF PoolAdmits(t) /\ CheckInputs(t) THEN AddToMemoryPool(t) ELSE UNCHANGED poolVars
    /\ LET added == AddToWallet([wallet EXCEPT !.vtxPrev[t] = Supporting(t)], t, NoBlock)
       IN  wallet' = [added EXCEPT !.vfSpent = @ \cup vin[t]]
    /\ UNCHANGED <<diskVars, txnVars, chainVars, jobVars, faults, loadVars>>

(* SendMoney, sendmany *)
SendMoney(t) ==
    /\ stage = "idle" /\ ~IsLoading
    /\ CreateTransaction(t) /\ CommitTransaction(t)

(* RPC deletetransaction *)
WalletDelete(t) ==
    /\ ~IsLoading /\ t \in wallet.txs
    /\ deletetransaction(t)
    /\ wallet' = EraseFromWallet(UnspendInputs(wallet, t), t)
    /\ UNCHANGED loadVars

-----------------------------------------------------------------------------
(* The "tx" message. *)
ReceiveTx(t) ==
    /\ ~IsLoading
    /\ AcceptToMemoryPool(t)
    /\ wallet' = AddToWalletIfInvolvingMe(wallet, t, NoBlock, TRUE)
    /\ UNCHANGED loadVars

(* ConnectBlock ends with SyncWithWallets for every transaction of the      *)
(* block: before the commit, and before the next block of a reorganisation. *)
WalletConnectBlock ==
    /\ ConnectBlock
    /\ wallet' = SyncBlock(wallet, tip, TRUE)
    /\ UNCHANGED loadVars

(* SetBestChain leaves a locator of the new chain in wallet.dat, unless     *)
(* this is the initial block download.                                      *)
WalletNewBestBlock ==
    /\ NewBestBlock
    /\ wallet' \in {wallet, [wallet EXCEPT !.best = pindexNew]}
    /\ UNCHANGED loadVars

(* Whatever else the node does leaves the wallet alone. *)
NodeBesideWallet ==
    /\ ~IsLoading
    /\ \/ \E b \in Block : ProcessOrphan(b)
       \/ NextInQueue \/ ProcessBlockDone
       \/ DisconnectInputs \/ DisconnectBlock \/ DisconnectFails
       \/ ConnectNext \/ ConnectInputs \/ ConnectInputsFails \/ ConnectBlockFails
       \/ TxnCommit \/ TxnCommitFails
       \/ ResurrectTx \/ ResurrectDone \/ DeleteTx
       \/ \E b \in Block : ProcessBlock(b) \/ ProcessBlockOrphan(b) \/ ProcessBlockRefused(b)
    /\ UNCHANGED walletVars

-----------------------------------------------------------------------------
(* Starting again: the chain is scanned from where the locator meets it,    *)
(* then ReacceptWalletTransactions goes through mapWallet, in the order of  *)
(* the hashes, which may be any.                                            *)

WalletRestart ==
    /\ Restart
    /\ LET common == Ancestors[wallet.best] \cap Ancestors[dbBest]
           pindexRescan == IF wallet.best = NoBlock THEN dbBest
                           ELSE CHOOSE b \in common : \A c \in common : nHeight[c] <= nHeight[b]
       IN  wallet' = IF pindexRescan = dbBest THEN wallet
                     ELSE ScanForWalletTransactions(wallet, pindexRescan, dbBest, TRUE)
    /\ toAccept' = wallet'.txs /\ accepting' = NotAccepting /\ hasMissingTx' = FALSE

(* Mutant: the spent outputs of a transaction of the chain are not looked at. *)
ReacceptConfirmed_Skips(t) ==
    /\ accepting = NotAccepting /\ t \in toAccept /\ HasTxIndex(dbTx, t)
    /\ toAccept' = toAccept \ {t}
    /\ UNCHANGED <<vars, wallet, accepting, hasMissingTx>>

(* A transaction of the block chain: its outputs that were spent by a copy *)
(* of the wallet are marked, but for those with a name script and but for a *)
(* coinbase with its first one spent.                                       *)
ReacceptConfirmed(t) ==
    /\ accepting = NotAccepting /\ t \in toAccept /\ HasTxIndex(dbTx, t)
    /\ toAccept' = toAccept \ {t}
    /\ LET found == IF IsCoinBase(t) /\ <<t, 1>> \in wallet.vfSpent THEN {}
                    ELSE {o \in MyCoins \ wallet.vfSpent : o[1] = t /\ o[2] \in dbTx[t].spent}
       IN  /\ wallet' = [wallet EXCEPT !.vfSpent = @ \cup found]
           /\ hasMissingTx' = (hasMissingTx \/ found # {})
    /\ UNCHANGED <<vars, accepting>>

Reacceptable(t) == PoolAdmits(t) /\ CheckInputs(t)

(* AcceptWalletTransaction: the supporting transactions of t first, each   *)
(* tried once, in the order they were added to vtxPrev, which may be any ... *)
AcceptWalletTransaction(t) ==
    /\ accepting = NotAccepting /\ t \in toAccept /\ ~HasTxIndex(dbTx, t)
    /\ accepting' = [tx |-> t, vtxPrev |-> DOMAIN wallet.vtxPrev[t]]
    /\ UNCHANGED <<vars, wallet, toAccept, hasMissingTx>>

ReacceptSupport(t, p) ==
    /\ t \in toAccept /\ accepting.tx = t /\ p \in accepting.vtxPrev
    /\ accepting' = [tx |-> t, vtxPrev |-> accepting.vtxPrev \ {p}]
    /\ IF Reacceptable(p) THEN AddToMemoryPool(p) ELSE UNCHANGED poolVars
    /\ UNCHANGED <<diskVars, txnVars, chainVars, jobVars, faults, wallet, toAccept, hasMissingTx>>

(* ... then t itself. *)
ReacceptUnconfirmed(t) ==
    /\ t \in toAccept /\ accepting = [tx |-> t, vtxPrev |-> {}]
    /\ toAccept' = toAccept \ {t} /\ accepting' = NotAccepting
    /\ IF Reacceptable(t) THEN AddToMemoryPool(t) ELSE UNCHANGED poolVars
    /\ UNCHANGED <<diskVars, txnVars, chainVars, jobVars, faults, wallet, hasMissingTx>>

(* The end of a round: when something was missing the chain is scanned, and *)
(* when that has found something there is another round.                    *)
ReacceptRound ==
    /\ toAccept = {} /\ hasMissingTx
    /\ wallet' = ScanForWalletTransactions(wallet, Genesis, pindexBest, FALSE)
    /\ toAccept' = IF wallet'.txs = wallet.txs THEN {} ELSE wallet'.txs
    /\ hasMissingTx' = FALSE
    /\ UNCHANGED <<vars, accepting>>

ReacceptWalletTransactions ==
    \/ \E t \in Tx : ReacceptConfirmed(t) \/ AcceptWalletTransaction(t) \/ ReacceptUnconfirmed(t)
    \/ \E t, p \in Tx : ReacceptSupport(t, p)
    \/ ReacceptRound

WalletStep ==
    \/ NodeBesideWallet \/ WalletConnectBlock \/ WalletNewBestBlock
    \/ \E t \in Tx : ReceiveTx(t) \/ SendMoney(t) \/ WalletDelete(t)
    \/ ReacceptWalletTransactions

WalletNext == WalletStep \/ WalletRestart

WalletSpec == WalletInit /\ [][WalletNext]_walletAll

-----------------------------------------------------------------------------
(* WalletTypeOK: flags and blocks are kept for wallet transactions only. *)
WalletTypeOK ==
    /\ wallet.txs \subseteq Tx /\ toAccept \subseteq wallet.txs
    /\ accepting = NotAccepting \/ accepting.tx \in toAccept
    /\ \A o \in wallet.vfSpent : o \in Mine /\ o[1] \in wallet.txs
    /\ \A t \in Tx : wallet.hashBlock[t] # NoBlock =>
          t \in wallet.txs /\ wallet.hashBlock[t] \in mapBlockIndex

(* The coin is spent in the block chain and the wallet does not know. *)
Forgotten(o) ==
    o \in Mine /\ o[1] \in wallet.txs /\ o \notin wallet.vfSpent /\ o[2] \in dbTx[o[1]].spent

(* ForgetsOnDelete: nothing but deletetransaction makes the wallet believe  *)
(* that it can pay with a coin that the block chain has spent: not a        *)
(* reorganisation, a failed commit, a crash, nor the order in which parent  *)
(* and child arrive.  Nothing is said of a name coin, which only the wallet *)
(* that spends it marks.                                                    *)
ForgetsOnDelete ==
    [][\A o \in MyCoins : Forgotten(o)' =>
          Forgotten(o) \/ \E t \in wallet.txs \ wallet'.txs : o \in vin[t]]_walletAll

(* ReloadRemembers: "Restart the program after executing this call"         *)
(* (deletetransaction): when ReacceptWalletTransactions is through, the     *)
(* wallet knows, of every coin it could pay with, whether the block chain   *)
(* has spent it.                                                            *)
ReloadRemembers ==
    [][IsLoading /\ ~IsLoading' => \A o \in MyCoins : ~Forgotten(o)']_walletAll

(* NoFalseConfirmation: a transaction the wallet shows as confirmed is in   *)
(* the block chain, and in the block the wallet says it is in, although the *)
(* wallet is told of a block before the block is committed and never of a   *)
(* block that is disconnected.                                              *)
NoFalseConfirmation ==
    stage = "idle" =>
        \A t \in wallet.txs :
            GetDepthInMainChain(t) >= 1 => dbTx[t].pos[1] = wallet.hashBlock[t]

-----------------------------------------------------------------------------
(* Linked: a wallet transaction is "A transaction with a merkle branch      *)
(* linking it to the block chain" (CMerkleTx): one that is in the block     *)
(* chain has a confirmation.                                                *)
Linked ==
    stage = "idle" /\ ~IsLoading =>
        \A t \in wallet.txs : HasTxIndex(dbTx, t) => GetDepthInMainChain(t) >= 1

(* SpentIsSpent: "Anytime a signature is successfully verified, it's proof  *)
(* the outpoint is spent" (WalletUpdateSpent): for a coin that is marked    *)
(* there is a transaction in the pool or in the block chain that spends it. *)
SpentIsSpent ==
    stage = "idle" /\ ~IsLoading =>
        \A o \in wallet.vfSpent :
            \E t \in Tx : o \in vin[t] /\ (t \in mapTransactions \/ HasTxIndex(dbTx, t))

(* MustNotFail: "This must not fail. The transaction has already been       *)
(* signed and recorded." (CommitTransaction): the pool takes a payment the  *)
(* wallet can make.                                                         *)
MustNotFail ==
    stage = "idle" /\ ~IsLoading =>
        \A t \in Outgoing : CreateTransaction(t) => PoolAdmits(t) /\ CheckInputs(t)

(* ReacceptsAll: "Reaccept any txes of ours that aren't already in a block" *)
(* (ReacceptWalletTransactions): when it is through, no transaction of the  *)
(* wallet is left outside the pool that the pool would take.                *)
ReacceptsAll ==
    [][IsLoading /\ ~IsLoading' => \A t \in wallet'.txs : ~Reacceptable(t)']_walletAll
=============================================================================
