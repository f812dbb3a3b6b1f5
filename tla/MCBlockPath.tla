---------------------------- MODULE MCBlockPath ----------------------------
(***************************************************************************)
(* The parts a transaction passes on its way into the chain: the API       *)
(* servers, the mempool and its helpers, the executor with its virtual     *)
(* machine, what runs contracts, the consensus engines of two validators,  *)
(* and the storage layer.  They are checked side by side: a behaviour of   *)
(* this specification is a behaviour of one of them, unit says of which,   *)
(* and the others stay in their initial state.                             *)
(***************************************************************************)
EXTENDS MCMempool, PoolTools, Api, ApiGate, WebSockets, Executor, ContractRegistry, Runtimes,
        MCConsensusEngine, MCLedger, Snapshots, Caches, Merkle

VARIABLE unit

(* Programs: every opcode first, after one and after two pushes, and loops. *)
MCOps == Opcodes \cup {"unknown"}
MCCodes ==
    {<<a, b>> : a \in {"PC", "Gas", "Stop", "unknown", "Invalid", "Push1"}, b \in MCOps}
    \cup {<<"PC", a, b>> : a \in MCOps, b \in MCOps}
    \cup {<<"PC", "Gas", a, b>> : a \in MCOps, b \in MCOps}
    \cup {<<"JumpDest", "PC", "IsZero", "Jump">>, <<"PC", "PC", "PC", "PC">>,
          <<"JumpDest", "PC", "PC", "IsZero", "JumpI">>}
MCHashes == {WordOne, <<1, 2, 3, 4>>}

(* Transfers, calls and creations, alone and in pairs.                      *)
ExTx(f, t, a, fee, n, code) ==
    [from |-> f, to |-> t, amount |-> a, fee |-> fee, nonce |-> n, signature |-> code]
MCExTxs ==
    {ExTx(1, 2, 2, 1, 0, <<>>), ExTx(1, 2, 2, 9, 0, <<>>), ExTx(2, 1, 0, 0, 1, <<>>),
     ExTx(3, 1, 1, 0, 0, <<>>), ExTx(1, 0, 1, 1, 0, <<"JumpDest", "PC", "IsZero", "Jump">>),
     ExTx(1, 0, 1, 0, 1, <<"PC", "PC", "Return">>),
     ExTx(1, 0, 1, 0, 0, <<"PC", "PC", "MStore", "PC", "PC", "Return">>),
     ExTx(2, 100, 1, 0, 1, <<>>), ExTx(1, 100, 0, 0, 2, <<>>), ExTx(2, 101, 2, 1, 1, <<>>)}
MCBlocksOfTxs == {<<t>> : t \in MCExTxs} \cup {<<t, u>> : t \in MCExTxs, u \in MCExTxs}
MCCalls == {[code |-> <<"PC", "PC", "Return">>, gas |-> 20],
            [code |-> <<"PC", "Not", "PC", "MStore">>, gas |-> 9]}
MCBalances == <<6, 4>>

MCAccounts == [a \in {1} |-> [balance |-> 5, nonce |-> 1]]

MCInputs == [len : {0, 4, 32, 128, 193}, rounds : {7}]

ToolTx(i, f, n, fee, size, t) ==
    [id |-> i, from |-> f, nonce |-> n, fee |-> fee, size |-> size, time |-> t]
MCToolTxs == {ToolTx(1, 1, 1, 5, 1, 0), ToolTx(2, 1, 2, 8, 4, 1), ToolTx(3, 1, 3, 2, 1, 1),
              ToolTx(4, 2, 1, 2, 1, 0), ToolTx(5, 2, 2, 9, 4, 2)}

MCBlocks == {[height |-> 1, hash |-> 1], [height |-> 1, hash |-> 4],
             [height |-> 2, hash |-> 2], [height |-> 3, hash |-> 3]}
-----------------------------------------------------------------------------
apis == <<apiVars, gateVars, wsVars>>
machines == <<exVars, regVars, wasmVars>>
stores == <<ledgerVars, snapVars, cacheVars, merkleVars>>
path == <<vars, toolVars, apis, machines, engineVars, stores>>

(* Choices an initial state leaves open are made in the units they matter   *)
(* to, so that the others do not multiply.                                  *)
PathInit ==
    /\ unit \in {"mempool", "tools", "requests", "state", "pages", "gate", "websockets", "vm",
                 "executor", "registry", "wasm", "precompiles", "engine", "ledger", "snapshots",
                 "caches", "merkle"}
    /\ Init /\ ToolInit
    /\ ApiInit /\ (unit # "pages" => walk.limit = 1)
    /\ GateInit /\ WsInit
    /\ ExIdle /\ IF unit = "vm" THEN VmInit ELSE ExInit
    /\ RegInit /\ WasmInit
    /\ EngineInit /\ LedgerInit /\ SnapInit /\ CacheInit /\ MerkleInit

ApisNext ==
    \/ unit = "requests" /\ ApiRequestNext /\ UNCHANGED <<gateVars, wsVars>>
    \/ unit = "state" /\ ApiStateNext /\ UNCHANGED <<gateVars, wsVars>>
    \/ unit = "pages" /\ ApiWalkNext /\ UNCHANGED <<gateVars, wsVars>>
    \/ unit = "gate" /\ GateNext /\ UNCHANGED <<apiVars, wsVars>>
    \/ unit = "websockets" /\ WsNext /\ UNCHANGED <<apiVars, gateVars>>

MachinesNext ==
    \/ unit = "vm" /\ VmNext
       /\ UNCHANGED <<stateAccounts, account_cache, codes, exBlock, exIndex, exAt, context,
                      exResult, exRuns, regVars, wasmVars>>
    \/ unit = "executor" /\ ExNext /\ UNCHANGED <<regVars, wasmVars>>
    \/ unit = "registry" /\ RegNext /\ UNCHANGED <<exVars, wasmVars>>
    \/ unit = "wasm" /\ WasmNext /\ UNCHANGED <<exVars, regVars>>
    \/ unit = "precompiles" /\ PrecompileNext /\ UNCHANGED <<exVars, regVars>>

StoresNext ==
    \/ unit = "ledger" /\ LedgerNext /\ UNCHANGED <<snapVars, cacheVars, merkleVars>>
    \/ unit = "snapshots" /\ SnapNext /\ UNCHANGED <<ledgerVars, cacheVars, merkleVars>>
    \/ unit = "caches" /\ CacheNext /\ UNCHANGED <<ledgerVars, snapVars, merkleVars>>
    \/ unit = "merkle" /\ MerkleNext /\ UNCHANGED <<ledgerVars, snapVars, cacheVars>>

(* Every part but the mempool may come to rest.                             *)
Rests == unit # "mempool" /\ UNCHANGED path

PathNext ==
    /\ UNCHANGED unit
    /\ \/ unit = "mempool" /\ Next
          /\ UNCHANGED <<toolVars, apis, machines, engineVars, stores>>
       \/ unit = "tools" /\ ToolNext /\ UNCHANGED <<vars, apis, machines, engineVars, stores>>
       \/ ApisNext /\ UNCHANGED <<vars, toolVars, machines, engineVars, stores>>
       \/ MachinesNext /\ UNCHANGED <<vars, toolVars, apis, engineVars, stores>>
       \/ unit = "engine" /\ EngineNext /\ UNCHANGED <<vars, toolVars, apis, machines, stores>>
       \/ StoresNext /\ UNCHANGED <<vars, toolVars, apis, machines, engineVars>>
       \/ Rests

PathSpec == PathInit /\ [][PathNext]_<<unit, path>>
=============================================================================
