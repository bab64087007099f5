------------------------------ MODULE MCClock ------------------------------
(***************************************************************************)
(* One name over the whole schedule: EXPIRE_UNIT = 6, so the depth grows   *)
(* from height 12 to 24; the fee halves every 4 blocks, and from           *)
(* height 12 on every block, until the shift reaches 60.                   *)
(***************************************************************************)
EXTENDS NameClock
=============================================================================
