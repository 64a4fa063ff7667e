---------------------------- MODULE MCLedgerTail ----------------------------
(* The instances of MCLedger, with a dashboard that follows the table.     *)
EXTENDS MCLedger, LedgerTail
=============================================================================
