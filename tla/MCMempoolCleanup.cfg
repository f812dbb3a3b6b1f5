SPECIFICATION Spec
CONSTANTS
    alice = alice
    bob = bob
    Txs <- MCTwoSenders
    Adders = {a1}
    NoTx = NoTx
    MaxSize = 2
    MaxPerAddress = 2
    MaxNonceGap = 2
    MaxBlock = 1
    MaxBytes = 2
    MaxNonce = 2
INVARIANTS
    CleanupKeepsValid
