----------------------------- MODULE NameClock -----------------------------
(***************************************************************************)
(* The life of one name against the block height: what validation, the     *)
(* RPC commands' test for a taken name and the "expires_in" field say of   *)
(* it while the expiration depth grows from EXPIRE_UNIT to 3 * EXPIRE_UNIT *)
(* and the network fee falls.                                              *)
(***************************************************************************)
EXTENDS NameRules

CONSTANT MaxHeight  \* where the chain stops

ASSUME MaxHeightAssumption == MaxHeight \in Nat

VARIABLES nBestHeight,  \* pindexBest->nHeight
          nNameHeight   \* height of the name's last entry, -1 when it has none

clockVars == <<nBestHeight, nNameHeight>>

ClockInit == nBestHeight = 0 /\ nNameHeight = -1

(* A block without an operation on the name. *)
QuietBlock ==
    /\ nBestHeight < MaxHeight
    /\ nBestHeight' = nBestHeight + 1
    /\ UNCHANGED nNameHeight

(* Mutant: the name gets the height of the block after. *)
FirstUpdate_Ahead ==
    /\ nBestHeight < MaxHeight
    /\ nBestHeight' = nBestHeight + 1
    /\ ~(nNameHeight >= 0 /\ NameUnexpired(nNameHeight, nBestHeight'))
    /\ nNameHeight' = nBestHeight' + 1

(* A block with a name_firstupdate: not "on an unexpired name". *)
FirstUpdate ==
    /\ nBestHeight < MaxHeight
    /\ nBestHeight' = nBestHeight + 1
    /\ ~(nNameHeight >= 0 /\ NameUnexpired(nNameHeight, nBestHeight'))
    /\ nNameHeight' = nBestHeight'

(* A block with a name_update: its input is found within the depth. *)
Update ==
    /\ nBestHeight < MaxHeight
    /\ nBestHeight' = nBestHeight + 1
    /\ nNameHeight >= 0
    /\ nBestHeight' - nNameHeight < GetExpirationDepth(nBestHeight')
    /\ nNameHeight' = nBestHeight'

ClockNext == QuietBlock \/ FirstUpdate \/ Update

ClockSpec == ClockInit /\ [][ClockNext]_clockVars

-----------------------------------------------------------------------------
(* The test of GetTxOfName, by which name_firstupdate refuses a taken name *)
(* and name_update refuses an expired one.                                 *)
ActiveForRpc ==
    nNameHeight >= 0 /\ ~(nNameHeight + GetExpirationDepth(nBestHeight) < nBestHeight)

(* The "expires_in" field of name_show, name_list, name_history, name_scan *)
(* and name_filter; the name is reported expired when it is not positive.  *)
expires_in == nNameHeight + GetDisplayExpirationDepth(nNameHeight) - nBestHeight

Expired == nNameHeight >= 0 /\ ~NameUnexpired(nNameHeight, nBestHeight)

(* ClockTypeOK: the name is never younger than the chain. *)
ClockTypeOK == nBestHeight \in 0 .. MaxHeight /\ nNameHeight \in -1 .. nBestHeight

(* ExpiredStaysExpired: the growth of the expiration depth from block       *)
(* 2 * EXPIRE_UNIT on never revives a name: the holder of an expired name   *)
(* does not get it back by waiting, only a name_firstupdate makes it live.  *)
ExpiredStaysExpired == [][Expired /\ nNameHeight' = nNameHeight => Expired']_clockVars

(* NetworkFeeNeverRises: neither the halving nor the fourfold speed-up from *)
(* block 2 * EXPIRE_UNIT makes a later registration dearer.                 *)
NetworkFeeNeverRises ==
    [][0 <= GetNetworkFee(nBestHeight') /\ GetNetworkFee(nBestHeight') <= GetNetworkFee(nBestHeight)]_clockVars

(* FreeForRpcIsFree: a name that GetTxOfName calls free is free for the     *)
(* next block, so the name_firstupdate that the RPC goes on to send is not  *)
(* refused as "on an unexpired name".                                       *)
FreeForRpcIsFree ==
    nNameHeight >= 0 /\ ~ActiveForRpc => ~NameUnexpired(nNameHeight, nBestHeight + 1)

(* DisplayedExpiry: "expires_in" runs out exactly when validation lets the  *)
(* name go, except for an operation at height EXPIRE_UNIT itself.           *)
DisplayedExpiry ==
    nNameHeight >= 0 /\ nNameHeight # EXPIRE_UNIT => (expires_in <= 0 <=> Expired)

(* DisplayedExpiryAlways: the same for every name, which is what the RPC    *)
(* commands tell their users.                                               *)
DisplayedExpiryAlways == nNameHeight >= 0 => (expires_in <= 0 <=> Expired)
=============================================================================
