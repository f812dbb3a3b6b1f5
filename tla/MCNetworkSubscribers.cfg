SPECIFICATION Spec
CHECK_DEADLOCK FALSE
CONSTANTS
  c1 = c1
  c2 = c2
  engine = engine
  sentinel = sentinel
  Nobody = Nobody
  Conns = {c1, c2}
  Subscribers = {engine, sentinel}
  AddressOf <- MCAddressOf
  MaxPeers = 2
  MaxIds = 1
  MaxMessages = 1
  MaxOps = 0
PROPERTY EngineHears
