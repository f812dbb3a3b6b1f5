SPECIFICATION LedgerSpec
CHECK_DEADLOCK FALSE
CONSTANTS
  vault = vault
  payee = payee
  LedgerAddresses = {vault, payee}
  Genesis = vault
  Transfers <- MCTransfers
  Bodies <- MCBodies
  LedgerMaxHeight = 2
  LedgerMaxFaults = 0
  MaxCrashes = 1
INVARIANT CommittedPreserved
