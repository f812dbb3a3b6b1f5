SPECIFICATION ServicesSpec
CHECK_DEADLOCK FALSE
CONSTANTS
  Clients = {cl1, cl2}
  Operators = {op}
  Shards <- MCShards
  Amounts <- MCAmounts
  MaxAmount = 2
  BridgeTimeout = 1
  MaxId = 2
  MaxTime = 3
  MaxReverts = 1
  c1 = c1
  c2 = c2
  engine = engine
  sentinel = sentinel
  Nobody = Nobody
  Conns = {c1, c2}
  Subscribers = {engine, sentinel}
  AddressOf <- MCAddressOf
  MaxPeers = 2
  MaxIds = 2
  MaxMessages = 2
  MaxOps = 1
INVARIANT PendingIndex
INVARIANT BridgedTotal
INVARIANT ConnectedHasTask
INVARIANT OneStream
PROPERTY AbstractSpec
PROPERTY EventuallySettled
PROPERTY ReceivedIsDelivered
