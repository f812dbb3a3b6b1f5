SPECIFICATION NodePartsSpec
CHECK_DEADLOCK FALSE
CONSTANTS
  alice = alice
  bob = bob
  People = {alice, bob}
  Token = Token
  Staking = Staking
  Bridge = Bridge
  Vesting = Vesting
  Nobody = Nobody
  Supply = 7
  FounderAmount = 3
  VaultAmount = 2
  MinStake = 2
  Timeout = 1
  Cliff = 1
  Duration = 3
  Payees = {alice, bob, Staking}
  MaxCalls = 6
  Amounts = {1, 2}
  Approvals = {2}
  MaxTime = 3
  ValUsers = {u1, u2}
  ValRequests <- MCRequests
  ValMax = 1
  ValMinStake = 20
  ValPowerUnit = 10
  ValMaxIds = 2
  ValCpus <- MCCpus
  SafetyHeights = {1}
  SafetyRounds = {0, 1}
  SafetyHashes = {1, 2}
  SafetyThreads = {t1}
  SafetyMaxCalls = 2
  AggVoters = {1, 2, 3, 4, 5}
  AggQuorum = 2
  RoundHeights = {1}
  RoundNumbers = {0}
  RoundLimits <- MCLimits
  RoundBase = 2
  RoundMaxTime = 4
  RoundMaxChanges = 2
  SenHeights = {0, 1}
  SenRounds = {1}
  SenIds = {1, 2}
  SenHashes = {1, 2}
  SenCacheSize = 1
  SenSet = 2
  SenMaxMissed = 1
  SenHistory = 2
  SenWorkers = {1, 2}
  SenMaxCalls = 3
  VaultUsers = {1, 2}
  VaultAddresses = {1, 2, 3}
  VaultGenesis = 1
  VaultFounder = 2
  VaultFounderShare = 5
  VaultGenesisBalance = 12
  VaultAmounts = {0, 2}
  VaultFees = {1, 10}
  VaultBurns = {10, 20}
  VaultMinBalance = 1
  VaultMaxCalls = 3
  DormAddresses = {1}
  DormUsers = {1}
  DormThreshold = 2
  DormGrace = 1
  DormMaxTime = 5
  DormWord = 16
  BookAmounts = {5}
  BookLoads = {0, 50}
  BookMaxCalls = 4
  WalAppenders = {w1}
  WalFlushers = {w2, w3}
  WalFirstLsn = 9
  WalMaxPending = 2
  WalMaxFile = 2
  WalMaxEntries = 3
  WalMaxFaults = 1
INVARIANT StakesBacked
INVARIANT BridgeBacked
INVARIANT SetHoldsHighestStakes
INVARIANT TimeoutDueOrTorn
INVARIANT EvidenceJustified
INVARIANT DormantBurnedOnlyAfterGrace
INVARIANT WalSavesAccounted
