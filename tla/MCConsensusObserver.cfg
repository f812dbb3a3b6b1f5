\* One validator and one engine outside the validator set, one timeout.
SPECIFICATION EngineSpec
CONSTANTS
    v1 = v1
    v2 = v2
    ob = ob
    Nodes = {v1, ob}
    Validators <- OneValidator
    None = None
    SavedHeight = 1
    AppliedHeight = 0
    MaxRound = 1
    MaxHeight = 1
    MaxFaults = 0
INVARIANT Agreement
CHECK_DEADLOCK FALSE
