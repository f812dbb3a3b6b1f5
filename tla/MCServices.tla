----------------------------- MODULE MCServices -----------------------------
(***************************************************************************)
(* The two services whose tasks never end: the shard bridge with its       *)
(* reaper, and the peer-to-peer network.  They do not call one another, so *)
(* a behaviour of this specification is a behaviour of one of them: unit   *)
(* says of which, and the other stays in its initial state.                *)
(***************************************************************************)
EXTENDS MCNetwork, Bridge

VARIABLE unit

MCShards == {1, 2}
MCAmounts == {1, 3}

ServicesInit == unit \in {"bridge", "network"} /\ BridgeInit /\ Init

ServicesNext ==
    /\ UNCHANGED unit
    /\ \/ unit = "bridge" /\ BridgeNext /\ UNCHANGED vars
       \/ unit = "network" /\ Next /\ UNCHANGED bridgeVars

(* BridgeFairness where the bridge runs, Fairness where the network does.   *)
ServicesFairness ==
    /\ WF_bridgeVars(unit = "bridge" /\ Tick)
    /\ WF_bridgeVars(unit = "bridge" /\ Reaper)
    /\ \A c \in Clients :
         WF_bridgeVars(unit = "bridge" /\ (InitiateInsert(c) \/ InitiatePush(c)))
    /\ \A r \in Operators : WF_bridgeVars(unit = "bridge" /\ mark_reverted(r))
    /\ WF_vars(unit = "network" /\ Pump)
    /\ \A s \in Subscribers : WF_vars(unit = "network" /\ Subscribe(s))

servicesVars == <<unit, bridgeVars, vars>>
ServicesSpec == ServicesInit /\ [][ServicesNext]_servicesVars /\ ServicesFairness
=============================================================================
