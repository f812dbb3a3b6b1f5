--------------------------- MODULE LedgerReaders ---------------------------
(* The ledger with a task that reads accounts while blocks are applied: the *)
(* mempool validates every submitted transaction with get_nonce and         *)
(* get_balance, on the API's threads.                                       *)
EXTENDS Ledger

CONSTANT NoRead   \* no read is between its storage read and its cache insert

VARIABLE read     \* the account a get_account call holds: [address, account]

InitR == LedgerInit /\ read = NoRead

(* get_account misses the cache and the dirty accounts and reads storage.   *)
StartRead ==
    /\ read = NoRead
    /\ \E a \in DOMAIN StorageMap \ (DOMAIN state.cache \cup DOMAIN state.dirty) :
         read' = [address |-> a, account |-> StorageMap[a]]
    /\ UNCHANGED ledgerVars

(* It then puts what it read into both caches, whatever happened since.     *)
FinishRead ==
    /\ read # NoRead
    /\ accountCache' = Put(accountCache, read.address, read.account)
    /\ state' = [state EXCEPT !.cache = Put(@, read.address, read.account)]
    /\ read' = NoRead
    /\ UNCHANGED <<disk, durable, committer, announced, ledgerFaults, crashes>>

(* A restart ends the read in flight.                                       *)
Restarted == crashes' # crashes /\ state' = FreshState

NextR == \/ LedgerNext /\ read' = IF Restarted THEN NoRead ELSE read
         \/ StartRead
         \/ FinishRead

SpecR == InitR /\ [][NextR]_<<ledgerVars, read>>
=============================================================================
