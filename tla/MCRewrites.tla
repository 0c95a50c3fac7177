----------------------------- MODULE MCRewrites -----------------------------
(***************************************************************************)
(* The units of MCLifting, of MCBatching, of MCBorrow and of MCCQueue.     *)
(***************************************************************************)
EXTENDS MCLifting, Rewrites

Loops == INSTANCE MCBatching
MCBatchUnits == Loops!MCBatchUnits
Lends == INSTANCE MCBorrow
LendingUnits == Lends!MCBorrowUnits
CarryingUnits == Lends!CarryingUnits
CLifts == INSTANCE MCCQueue
CQueueUnits == CLifts!MCCUnits
=============================================================================
