------------------------------ MODULE ApiGate ------------------------------
(***************************************************************************)
(* The rate limiter, the API keys and the request metrics                  *)
(* (api/middleware.rs), each used by several threads.  create_router       *)
(* builds a limiter and layers none of the three on the routes, so no      *)
(* request passes them: the module says what they do once they are.        *)
(***************************************************************************)
EXTENDS Integers, Sequences, FiniteSets
LOCAL INSTANCE SequencesExt

CONSTANTS GateThreads,
          GateClients,     \* client addresses of get_client_ip
          GateKeys,        \* API keys
          GateMax,         \* max_requests
          GateWindow,      \* window_secs
          GateTime,        \* bound: the clock
          GateMaxRequests  \* bound: requests

VARIABLES gateClock,
          requests,   \* RateLimiter.requests: client -> the times admitted
          api_keys,   \* ApiKeyAuth.api_keys
          metrics,    \* Metrics: total, by method, by path, by status
          gate,       \* thread -> its request
          gateCount

gateVars == <<gateClock, requests, api_keys, metrics, gate, gateCount>>

GateIdle == [at |-> "idle"]

GateTypeOK ==
    /\ gateClock \in 0..GateTime
    /\ requests \in [GateClients -> Seq(0..GateTime)]
    /\ api_keys \subseteq GateKeys
    /\ \A t \in GateThreads : gate[t].at \in
          {"idle", "limit", "key", "total", "method", "path", "status"}

GateInit ==
    /\ gateClock = 0
    /\ requests = [c \in GateClients |-> <<>>]
    /\ api_keys = {}
    /\ metrics = [total |-> 0, method |-> 0, path |-> 0, status |-> 0]
    /\ gate = [t \in GateThreads |-> GateIdle]
    /\ gateCount = 0

GateTick ==
    /\ gateClock < GateTime /\ gateClock' = gateClock + 1
    /\ UNCHANGED <<requests, api_keys, metrics, gate, gateCount>>

GateMoves(t, call) == gate' = [gate EXCEPT ![t] = call]

(* rate_limit_middleware: the client's address, and the time of the check,  *)
(* which is read before the lock on requests is taken.                      *)
rate_limit_middleware(t, client, key) ==
    /\ gate[t].at = "idle" /\ gateCount < GateMaxRequests
    /\ gateCount' = gateCount + 1
    /\ GateMoves(t, [at |-> "limit", client |-> client, key |-> key, now |-> gateClock])
    /\ UNCHANGED <<gateClock, requests, api_keys, metrics>>

(* RateLimiter::check under the lock.  duration_since of a later instant is *)
(* zero.                                                                    *)
Within(now, time) == now - time < GateWindow
GateFull(entry) == Len(entry) >= GateMax

check(t) ==
    LET call == gate[t]
        c == call.client
        entry == SelectSeq(requests[c], LAMBDA time : Within(call.now, time))
    IN /\ call.at = "limit"
       /\ IF GateFull(entry)
          THEN /\ requests' = [requests EXCEPT ![c] = entry]
               /\ GateMoves(t, GateIdle)
          ELSE /\ requests' = [requests EXCEPT ![c] = Append(entry, call.now)]
               /\ GateMoves(t, [call EXCEPT !.at = "key"])
       /\ UNCHANGED <<gateClock, api_keys, metrics, gateCount>>

(* api_key_middleware: a request whose key is not in the table goes no      *)
(* further; metrics_middleware records what the handler answered.           *)
api_key_middleware(t) ==
    /\ gate[t].at = "key"
    /\ GateMoves(t, IF gate[t].key \in api_keys THEN [at |-> "total"] ELSE GateIdle)
    /\ UNCHANGED <<gateClock, requests, api_keys, metrics, gateCount>>

add_key(key) ==
    /\ api_keys' = api_keys \cup {key}
    /\ UNCHANGED <<gateClock, requests, metrics, gate, gateCount>>

remove_key(key) ==
    /\ api_keys' = api_keys \ {key}
    /\ UNCHANGED <<gateClock, requests, metrics, gate, gateCount>>

(* Metrics::record: four counters, each under its own lock.                 *)
RecordSteps == <<"total", "method", "path", "status">>
record(t) ==
    \E i \in DOMAIN RecordSteps :
        /\ gate[t].at = RecordSteps[i]
        /\ metrics' = [metrics EXCEPT ![RecordSteps[i]] = @ + 1]
        /\ GateMoves(t, IF i = 4 THEN GateIdle ELSE [at |-> RecordSteps[i + 1]])
        /\ UNCHANGED <<gateClock, requests, api_keys, gateCount>>

GateNext ==
    \/ GateTick
    \/ \E k \in GateKeys : add_key(k) \/ remove_key(k)
    \/ \E t \in GateThreads :
         \/ \E c \in GateClients, k \in GateKeys : rate_limit_middleware(t, c, k)
         \/ check(t) \/ api_key_middleware(t) \/ record(t)
=============================================================================
