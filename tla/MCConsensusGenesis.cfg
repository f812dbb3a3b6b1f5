\* One validator whose storage holds the genesis block and nothing else.
SPECIFICATION EngineFairSpec
CONSTANTS
    v1 = v1
    v2 = v2
    ob = ob
    Nodes = {v1}
    Validators <- OneValidator
    None = None
    SavedHeight = 0
    AppliedHeight = 0
    MaxRound = 0
    MaxHeight = 1
    MaxFaults = 0
PROPERTY Progress
CHECK_DEADLOCK FALSE
