-------------------------- MODULE MCLedgerReaders --------------------------
(* The accounts and transfers of MCLedger, with a reader.                   *)
EXTENDS MCLedger, LedgerReaders
=============================================================================
