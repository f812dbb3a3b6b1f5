SPECIFICATION SpecR
CHECK_DEADLOCK FALSE
CONSTANTS
  NoRead = NoRead
  vault = vault
  payee = payee
  LedgerAddresses = {vault, payee}
  Genesis = vault
  Transfers <- MCTransfers
  Bodies <- MCBodies
  LedgerMaxHeight = 2
  LedgerMaxFaults = 0
  MaxCrashes = 0
INVARIANT TransferAtomic
