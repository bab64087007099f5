----------------------------- MODULE NameRules -----------------------------
(***************************************************************************)
(* The height-dependent consensus rules of namecoin.cpp and main.cpp, as   *)
(* operators of the block height.                                          *)
(*                                                                         *)
(* The code writes the heights as literals.  They are CONSTANTS here, in   *)
(* the proportions of the code, so that TLC can reach each of them:        *)
(*   EXPIRE_UNIT          12000   (24000 and 48000 are its multiples)      *)
(*   BUG_WORKAROUND_BLOCK 150000  the libcoin hard fork                    *)
(*   STRICT_BLOCK         212500  the strict-checks fork                   *)
(*   FEE_PERIOD           8192    1 << 13, one halving of the network fee  *)
(*   FEE_START            50 COIN                                          *)
(*   SUBSIDY              50 COIN                                          *)
(*   HALVING              210000                                           *)
(***************************************************************************)
EXTENDS Integers

CONSTANTS EXPIRE_UNIT, BUG_WORKAROUND_BLOCK, STRICT_BLOCK,
          FEE_PERIOD, FEE_START, SUBSIDY, HALVING

ASSUME RulesAssumption ==
    /\ EXPIRE_UNIT \in Nat \ {0}
    /\ BUG_WORKAROUND_BLOCK \in Nat
    /\ STRICT_BLOCK \in Nat
    /\ BUG_WORKAROUND_BLOCK <= STRICT_BLOCK
    /\ FEE_PERIOD \in Nat \ {0}
    /\ FEE_START \in Nat
    /\ SUBSIDY \in Nat
    /\ HALVING \in Nat \ {0}

postLibcoinFork(nHeight) == nHeight >= BUG_WORKAROUND_BLOCK

doStrictChecks(nHeight) == nHeight >= STRICT_BLOCK

(* Mutant: the depth jumps instead of growing. *)
GetExpirationDepth_Jumps(nHeight) ==
    IF nHeight < 2 * EXPIRE_UNIT THEN EXPIRE_UNIT ELSE 3 * EXPIRE_UNIT

(* How many blocks a name lives, for validation: pass the chain height. *)
GetExpirationDepth(nHeight) ==
    IF nHeight < 2 * EXPIRE_UNIT THEN EXPIRE_UNIT
    ELSE IF nHeight < 4 * EXPIRE_UNIT THEN nHeight - EXPIRE_UNIT
    ELSE 3 * EXPIRE_UNIT

(* Mutant: the old names' shorter life is forgotten. *)
GetDisplayExpirationDepth_Always(nHeight) == 3 * EXPIRE_UNIT

(* How many blocks a name lives, for display: pass the name's height. *)
GetDisplayExpirationDepth(nHeight) ==
    IF nHeight < EXPIRE_UNIT THEN EXPIRE_UNIT ELSE 3 * EXPIRE_UNIT

(* The network fee falls linearly within a period and halves from one      *)
(* period to the next; from 2 * EXPIRE_UNIT on heights count four times.   *)
(* Mutant: the speed-up counts from the wrong height. *)
FeeHeight_Restarts(nHeight) ==
    IF nHeight >= 2 * EXPIRE_UNIT THEN (nHeight - 2 * EXPIRE_UNIT) * 4 ELSE nHeight

FeeHeight(nHeight) ==
    IF nHeight >= 2 * EXPIRE_UNIT
    THEN nHeight + (nHeight - 2 * EXPIRE_UNIT) * 3
    ELSE nHeight

(* nStart >> k *)
HalvedFee[k \in Nat] == IF k = 0 THEN FEE_START ELSE HalvedFee[k - 1] \div 2

GetNetworkFee(nHeight) ==
    LET h    == FeeHeight(nHeight)
        nRes == HalvedFee[h \div FEE_PERIOD]
    IN  IF h \div FEE_PERIOD >= 60 THEN 0
        ELSE nRes - (nRes \div (2 * FEE_PERIOD)) * (h % FEE_PERIOD)

(* nSubsidy >> k *)
HalvedSubsidy[k \in Nat] == IF k = 0 THEN SUBSIDY ELSE HalvedSubsidy[k - 1] \div 2

(* The coinbase may pay the subsidy and the fees of the block. *)
GetBlockValue(nHeight, nFees) == HalvedSubsidy[nHeight \div HALVING] + nFees

(* The test for "this name is taken" made on a name_firstupdate. *)
NameUnexpired(nPrevHeight, nHeight) ==
    nHeight - nPrevHeight < GetExpirationDepth(nHeight)
=============================================================================
