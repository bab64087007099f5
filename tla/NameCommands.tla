---------------------------- MODULE NameCommands ----------------------------
(***************************************************************************)
(* The commands name_firstupdate and name_update beside the node and the   *)
(* wallet of Wallet.                                                       *)
(*                                                                         *)
(* The RPC server runs one command after the other.  name_update holds     *)
(* cs_main from its checks to the end and is one step; name_firstupdate    *)
(* takes it for the first check and again for the rest, and looks at the   *)
(* name index in between without it.  The transactions of Commands are     *)
(* those the two may make: the name they are about, the name coin they     *)
(* spend and the coins that pay for them are those of the transaction.     *)
(* name_new is a SendMoney.  Whether the name_new transaction is given to  *)
(* name_firstupdate or taken from mapMyNames makes no difference here.     *)
(***************************************************************************)
EXTENDS Wallet

CONSTANT Commands  \* the transactions the two commands may make

ASSUME CommandsAssumption ==
    /\ Commands \subseteq Tx /\ Commands \cap Outgoing = {}
    /\ \A t \in Commands : isNameTx[t] /\ NameOut(t).op \in {"firstupdate", "update"}
    /\ Commands \cap ToSet(vtx[Genesis]) = {}

VARIABLE call  \* where name_firstupdate is, and for which transaction

nameVars == <<walletAll, call>>

NoCall == [at |-> "none", tx |-> NoTx]

NamesInit == WalletInit /\ call = NoCall

(* Outside cs_main it is the database as committed and whatever block       *)
(* pindexBest points to.                                                    *)
GetTxOfName(n) ==
    LET vtxPos == VtxPos(dbName, n)
        best == nHeight[pindexBest]
    IN  IF vtxPos = <<>> \/ Last(vtxPos).nHeight + GetExpirationDepth(best) < best THEN NoTx
        ELSE vtx[Last(vtxPos).pos[1]][Last(vtxPos).pos[2]]

(* Mutant: pending operations are not looked at. *)
NothingPending_Always(t) == TRUE

NothingPending(t) == mapNamePending[NameOut(t).name] = {}

(* CreateTransactionWithInputTx: the name coin is taken as it is, whether   *)
(* the wallet has it marked as spent or not; the other coins are selected.  *)
CreateWithInputTx(t) ==
    /\ t \notin wallet.txs \cup mapTransactions /\ ~HasTxIndex(dbTx, t)
    /\ NameInput(t) \in Mine
    /\ \A o \in vin[t] \ {NameInput(t)} : CoinAvailable(o)

-----------------------------------------------------------------------------
(* name_firstupdate *)

CheckPending(t) ==
    /\ stage = "idle" /\ ~IsLoading /\ call = NoCall
    /\ t \in Commands /\ NameOut(t).op = "firstupdate" /\ NothingPending(t)
    /\ call' = [at |-> "pending", tx |-> t]
    /\ UNCHANGED walletAll

CheckActive ==
    /\ call.at = "pending"
    /\ call' = IF GetTxOfName(NameOut(call.tx).name) = NoTx THEN [call EXCEPT !.at = "active"]
               ELSE NoCall
    /\ UNCHANGED walletAll

(* The name_new is one of the wallet's, and its hash is of this name. *)
CanFirstUpdate(t) ==
    /\ NameInput(t)[1] \in wallet.txs /\ Out(NameInput(t)).op = "new"
    /\ <<Out(NameInput(t)).rand, Out(NameInput(t)).name>> = NewHash(t)
    /\ CreateWithInputTx(t)

name_firstupdate ==
    /\ call.at = "active" /\ stage = "idle"
    /\ call' = NoCall
    /\ IF CanFirstUpdate(call.tx) THEN CommitTransaction(call.tx) ELSE UNCHANGED walletAll

(* name_update spends the last operation on the name. *)
CanUpdate(t) ==
    /\ t \in Commands /\ NameOut(t).op = "update" /\ NothingPending(t)
    /\ LET last == GetTxOfName(NameOut(t).name)
       IN  last \in wallet.txs /\ NameInput(t)[1] = last
    /\ CreateWithInputTx(t)

name_update(t) ==
    /\ stage = "idle" /\ ~IsLoading /\ call = NoCall
    /\ CanUpdate(t) /\ CommitTransaction(t)
    /\ UNCHANGED call

(* The transactions of Commands also come from the network, in a message of *)
(* their own or in a block: a copy of the wallet makes the same ones.       *)
NamesNext ==
    \/ WalletStep /\ UNCHANGED call
    \/ WalletRestart /\ call' = NoCall
    \/ CheckActive \/ name_firstupdate
    \/ \E t \in Commands : CheckPending(t) \/ name_update(t)

NamesSpec == NamesInit /\ [][NamesNext]_nameVars

-----------------------------------------------------------------------------
(* An operation on the name waits in the pool and mapNamePending does not  *)
(* say so.                                                                  *)
PendingLost(n) ==
    \E t \in mapTransactions : isNameTx[t] /\ NameOut(t).op # "new" /\ NameOut(t).name = n
                                  /\ t \notin mapNamePending[n]

(* UpdateRefusedOnlyWhenLost: when name_update finds no pending operation   *)
(* on the name, the pool takes the update: the checks of the command are as *)
(* good as those of the pool, after whatever reorganisations, restarts,     *)
(* failed commits and deleted transactions, but for an operation that       *)
(* mapNamePending has lost.                                                 *)
UpdateRefusedOnlyWhenLost ==
    stage = "idle" /\ ~IsLoading =>
        \A t \in Commands : CanUpdate(t) =>
            Reacceptable(t) \/ PendingLost(NameOut(t).name)

(* How name_update builds its transaction: one output with the new value,   *)
(* MIN_AMOUNT locked in it, and one name input; SelectCoins covers the fee. *)
UpdatesAsMade ==
    \A t \in Commands : NameOut(t).op = "update" =>
        /\ CheckTransaction(t) /\ NameInputs(t) = {NameInput(t)}
        /\ NameOut(t).nValue >= MIN_AMOUNT /\ TxFee(t) >= 0
        /\ \A o \in vin[t] : o[2] <= Len(vout[o[1]])

(* The key of a name coin of the wallet signs no update of another name:    *)
(* below the libcoin fork the pool would take one.                          *)
MatchingSpends ==
    \A t \in Tx : \A o \in vin[t] \cap Mine :
        /\ isNameTx[t] /\ NameOut(t).op = "update"
        /\ Out(o).op \in {"firstupdate", "update"}
        => Out(o).name = NameOut(t).name

(* The coins SelectCoins has found to pay for an update are there: that is  *)
(* not for the checks of name_update to say, and deletetransaction or a     *)
(* copy of the wallet can make it false.                                    *)
PaymentInOrder ==
    \A t \in Commands : CanUpdate(t) =>
        \A o \in vin[t] \ {NameInput(t)} :
            /\ ~Forgotten(o) /\ mapNextTx[o] = NoTx
            /\ HasTxIndex(dbTx, o[1]) \/ o[1] \in mapTransactions

(* UpdateMustNotFail: "This must not fail. The transaction has already been *)
(* signed and recorded." (CommitTransaction): the pool takes an update that *)
(* name_update makes.                                                       *)
UpdateMustNotFail ==
    stage = "idle" /\ ~IsLoading =>
        \A t \in Commands : CanUpdate(t) => PoolAdmits(t) /\ CheckInputs(t)

(* NoOwnRival: "there are pending operations on that name" is what          *)
(* name_firstupdate answers rather than register a name the wallet is       *)
(* already registering: no two of its name_firstupdates of a name wait in   *)
(* the pool.                                                                *)
NoOwnRival ==
    stage = "idle" =>
        \A t, u \in mapTransactions \cap wallet.txs \cap Commands :
            /\ NameOut(t).op = "firstupdate" /\ NameOut(u).op = "firstupdate"
            /\ NameOut(t).name = NameOut(u).name
            => t = u
=============================================================================
