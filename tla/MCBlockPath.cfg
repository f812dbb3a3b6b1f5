SPECIFICATION PathSpec
CONSTANTS
  alice = alice
  bob = bob
  Txs <- MCTxs
  Adders = {a1, a2}
  NoTx = NoTx
  MaxSize = 1
  MaxPerAddress = 2
  MaxNonceGap = 2
  MaxBlock = 2
  MaxBytes = 2
  MaxNonce = 2
  VmLimb = 64
  VmMaxStack = 2
  VmMemory = 9
  VmCodes <- MCCodes
  VmLimits = {3, 40}
  VmHashes <- MCHashes
  ExBlocks <- MCBlocksOfTxs
  ExCalls <- MCCalls
  ExBalances <- MCBalances
  ExGasLimit = 40
  ExBaseGas = 5
  ExCreationGas = 6
  ExMinBalance = 1
  ExMaxRuns = 3
  ApiMaxHeight = 3
  ApiTxs = {1}
  ApiAccounts <- MCAccounts
  ApiAddresses = {1,2}
  ApiLimits = {1,2,3}
  ApiPageCap = 2
  GateThreads = {t1,t2}
  GateClients = {1}
  GateKeys = {1}
  GateMax = 2
  GateWindow = 2
  GateTime = 4
  GateMaxRequests = 4
  WsClients = {c1,c2}
  WsMaxEvents = 2
  WsMaxMessages = 1
  RegThreads = {1,2}
  RegAddresses = {1}
  RegOwners = {1,2}
  RegCodes = {1,2}
  RegMaxEvents = 1
  WasmThreads = {1,2}
  WasmModules = {1}
  WasmLimits = {12,30}
  WasmArgs = {0,1}
  WasmBaseGas = 10
  WasmByteGas = 2
  WasmMaxCalls = 3
  PreInputs <- MCInputs
  PreLimits = {0,100,3000,200000}
  ToolTxs <- MCToolTxs
  ToolMaxSize = 3
  ToolMaxAge = 1
  ToolPerAddress = 2
  ToolTime = 3
  v1 = v1
  v2 = v2
  ob = ob
  Nodes = {v1, v2}
  Validators <- TwoValidators
  None = None
  SavedHeight = 1
  AppliedHeight = 0
  MaxRound = 1
  MaxHeight = 2
  MaxFaults = 1
  vault = vault
  payee = payee
  LedgerAddresses = {vault, payee}
  Genesis = vault
  Transfers <- MCTransfers
  Bodies <- MCBodies
  LedgerMaxHeight = 3
  LedgerMaxFaults = 1
  MaxCrashes = 1
  SnapMaxHeight = 3
  SnapBatch = 2
  SnapKeep = 1
  SnapMaxCalls = 5
  CacheUsers = {u1, u2}
  CacheBlocks <- MCBlocks
  CacheSize = 1
  CacheTtl = TRUE
  CacheMaxCalls = 5
  MerkleLeaves = {101, 102}
  MerkleMaxLeaves = 5
  SmtDepth = 2
  SmtValues = {201}
INVARIANT CapacityBound
INVARIANT IndexComplete
INVARIANT QuotaSound
INVARIANT SelectedInOrder
INVARIANT GasPaysForSteps
INVARIANT PagesSkipNoBlock
INVARIANT WsNoGap
INVARIANT PruneFits
INVARIANT OneBlockPerRound
INVARIANT CommitNeedsTwoQuorums
INVARIANT ChainLinked
INVARIANT RecoverableTip
INVARIANT TransferAtomic
INVARIANT StoredBlockApplied
INVARIANT AtMostOneUnsaved
INVARIANT ListedSnapshotComplete
INVARIANT RestoreLeavesPrefix
INVARIANT TreesSound
