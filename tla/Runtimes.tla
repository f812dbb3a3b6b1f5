------------------------------ MODULE Runtimes ------------------------------
(***************************************************************************)
(* WasmRuntime (execution/wasm_runtime.rs), whose calls share one gas      *)
(* meter, and the precompiled contracts (execution/precompiles.rs).        *)
(***************************************************************************)
EXTENDS Integers, FiniteSets

CONSTANTS WasmThreads, WasmModules,
          WasmLimits,      \* gas limits of the calls
          WasmArgs,        \* lengths of the arguments
          WasmBaseGas,     \* 10_000
          WasmByteGas,     \* 10
          WasmMaxCalls,    \* bound: calls
          PreInputs,       \* inputs of a precompile: records [len, rounds]
          PreLimits        \* gas limits given to a precompile

VARIABLES wasmModules,     \* modules
          instance_cache,
          gas_meter,       \* None, or the meter of the last call to set it
          wasmThread,      \* thread -> its call
          wasmCalls,
          preResult        \* the last answer of a precompile

wasmVars == <<wasmModules, instance_cache, gas_meter, wasmThread, wasmCalls, preResult>>

WasmFunctions == {"add", "transfer", "other"}
WasmIdle == [at |-> "idle", result |-> "none"]
NoMeter == [limit |-> -1, used |-> 0]

WasmTypeOK ==
    /\ wasmModules \subseteq WasmModules /\ instance_cache \subseteq wasmModules
    /\ gas_meter = NoMeter \/ gas_meter.used \in 0..gas_meter.limit
    /\ \A t \in WasmThreads : wasmThread[t].at \in {"idle", "meter", "instance", "create", "execute"}

WasmInit ==
    /\ wasmModules = {} /\ instance_cache = {}
    /\ gas_meter = NoMeter
    /\ wasmThread = [t \in WasmThreads |-> WasmIdle]
    /\ wasmCalls = 0
    /\ preResult = [status |-> "none", used |-> 0, length |-> 0]

(* load_module: every module validates.                                     *)
load_module(m) ==
    /\ wasmModules' = wasmModules \cup {m}
    /\ UNCHANGED <<instance_cache, gas_meter, wasmThread, wasmCalls, preResult>>

clear_cache ==
    /\ instance_cache' = {}
    /\ UNCHANGED <<wasmModules, gas_meter, wasmThread, wasmCalls, preResult>>

WasmMoves(t, call) == wasmThread' = [wasmThread EXCEPT ![t] = call]

(* call: a module that was loaded; then the meter, the instance, and the    *)
(* function, each under a lock of its own.                                  *)
WasmCall(t, m, function, args, limit) ==
    /\ wasmThread[t].at = "idle" /\ wasmCalls < WasmMaxCalls
    /\ wasmCalls' = wasmCalls + 1
    /\ WasmMoves(t, IF m \in wasmModules
                    THEN [at |-> "meter", module |-> m, function |-> function, args |-> args,
                          limit |-> limit]
                    ELSE [WasmIdle EXCEPT !.result = "ModuleNotFound"])
    /\ UNCHANGED <<wasmModules, instance_cache, gas_meter, preResult>>

SetMeter(t) ==
    /\ wasmThread[t].at = "meter"
    /\ gas_meter' = [limit |-> wasmThread[t].limit, used |-> 0]
    /\ WasmMoves(t, [wasmThread[t] EXCEPT !.at = "instance"])
    /\ UNCHANGED <<wasmModules, instance_cache, wasmCalls, preResult>>

get_or_create_instance(t) ==
    /\ \/ /\ wasmThread[t].at = "instance"
          /\ WasmMoves(t, [wasmThread[t] EXCEPT !.at = IF wasmThread[t].module \in instance_cache
                                                       THEN "execute" ELSE "create"])
          /\ UNCHANGED instance_cache
       \/ /\ wasmThread[t].at = "create"
          /\ instance_cache' = instance_cache \cup {wasmThread[t].module}
          /\ WasmMoves(t, [wasmThread[t] EXCEPT !.at = "execute"])
    /\ UNCHANGED <<wasmModules, gas_meter, wasmCalls, preResult>>

estimate_gas(args) == WasmBaseGas + WasmByteGas * args

(* execute_function: the cost goes to whichever meter is there.             *)
execute_function(t) ==
    LET cost == estimate_gas(wasmThread[t].args)
    IN /\ wasmThread[t].at = "execute"
       /\ IF gas_meter.used + cost <= gas_meter.limit
          THEN /\ gas_meter' = [gas_meter EXCEPT !.used = @ + cost]
               /\ WasmMoves(t, [WasmIdle EXCEPT !.result =
                                   IF wasmThread[t].function = "other" THEN "FunctionNotFound"
                                   ELSE "ok"])
          ELSE /\ WasmMoves(t, [WasmIdle EXCEPT !.result = "OutOfGas"])
               /\ UNCHANGED gas_meter
       /\ UNCHANGED <<wasmModules, instance_cache, wasmCalls, preResult>>
-----------------------------------------------------------------------------
(* A precompile: the gas an input costs and the length of the output.       *)
PreWords(in) == (in.len + 31) \div 32
EcRecoverPrecompile(in) == [cost |-> 3000, length |-> IF in.len = 128 THEN 32 ELSE 0]
Sha256Precompile(in) == [cost |-> 60 + 12 * PreWords(in), length |-> 32]
Ripemd160Precompile(in) == [cost |-> 600 + 120 * PreWords(in), length |-> 32]
IdentityPrecompile(in) == [cost |-> 15 + 3 * PreWords(in), length |-> in.len]
ModExpPrecompile(in) == [cost |-> 100000, length |-> 0]
EcAddPrecompile(in) == [cost |-> 500, length |-> 64]
EcMulPrecompile(in) == [cost |-> 40000, length |-> 64]
EcPairingPrecompile(in) == [cost |-> 100000 + 80000 * (in.len \div 192), length |-> 32]
Blake2FPrecompile(in) == [cost |-> IF in.len < 4 THEN 0 ELSE in.rounds, length |-> 64]

(* PrecompileManager::new registers one precompile for each of the          *)
(* addresses 1 to 9.                                                        *)
Precompiles(in) ==
    <<EcRecoverPrecompile(in), Sha256Precompile(in), Ripemd160Precompile(in),
      IdentityPrecompile(in), ModExpPrecompile(in), EcAddPrecompile(in), EcMulPrecompile(in),
      EcPairingPrecompile(in), Blake2FPrecompile(in)>>

(* PrecompileManager::execute                                               *)
execute_precompile(address, in, limit) ==
    /\ preResult' =
         IF address \notin DOMAIN Precompiles(in)
         THEN [status |-> "NotFound", used |-> 0, length |-> 0]
         ELSE LET p == Precompiles(in)[address]
              IN IF p.cost > limit THEN [status |-> "OutOfGas", used |-> 0, length |-> 0]
                 ELSE [status |-> "ok", used |-> p.cost, length |-> p.length]
    /\ UNCHANGED <<wasmModules, instance_cache, gas_meter, wasmThread, wasmCalls>>

WasmNext ==
    \/ \E m \in WasmModules : load_module(m)
    \/ clear_cache
    \/ \E t \in WasmThreads :
         \/ \E m \in WasmModules, f \in WasmFunctions, n \in WasmArgs, limit \in WasmLimits :
              WasmCall(t, m, f, n, limit)
         \/ SetMeter(t) \/ get_or_create_instance(t) \/ execute_function(t)

PrecompileNext ==
    \E address \in 0..10, in \in PreInputs, limit \in PreLimits :
        execute_precompile(address, in, limit)
=============================================================================
