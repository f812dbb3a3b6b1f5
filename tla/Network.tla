------------------------------ MODULE Network ------------------------------
(***************************************************************************)
(* The peer table (network/peer.rs) and the P2PNetwork (network/p2p.rs):   *)
(* connection tasks that add, handshake, mark and remove a peer in         *)
(* separately locked steps, the operator's disconnect and ban, and the one *)
(* channel that carries received messages to whoever subscribed first.     *)
(***************************************************************************)
EXTENDS Integers, Sequences, FiniteSets, Maps

CONSTANTS Conns,        \* connection tasks
          Subscribers,  \* the callers of subscribe: engine, sentinel, ...
          Nobody,       \* the message receiver has not been taken
          AddressOf(_), \* the remote address of a connection
          MaxPeers,     \* config.max_peers
          MaxIds,       \* bound: peer ids handed out
          MaxMessages,  \* bound: messages received
          MaxOps        \* bound: disconnects, bans, stops, dropped receivers

NoAddress == "none"

ASSUME NetworkAssumption ==
    /\ Nobody \notin Subscribers
    /\ \A c \in Conns : AddressOf(c) # NoAddress
    /\ MaxPeers \in Nat /\ MaxIds \in Nat /\ MaxMessages \in Nat /\ MaxOps \in Nat

VARIABLES peers,      \* PeerManager.peers: id -> [address, connected]
          byAddress,  \* PeerManager.address_to_id
          nextId,     \* PeerManager.next_peer_id
          banned,     \* PeerManager.banned_peers, the ones not yet expired
          conn,       \* conn[c]: the step of handle_connection and its peer id
          admin,      \* the remove_peer of disconnect or ban: its address to unindex
          queue,      \* the message channel
          owner,      \* the subscriber that took its receiver
          pumping,    \* the forwarding task of that subscriber is running
          listening,  \* subscribers that still hold the receiver they got
          delivered,  \* delivered[s]: what subscriber s has been handed
          received,   \* history: every message put on the channel
          ops

table == <<peers, byAddress, nextId, banned>>
channel == <<queue, owner, pumping, listening, delivered, received>>
vars == <<table, conn, admin, channel, ops>>

Addresses == { AddressOf(c) : c \in Conns }
Ids == 1 .. MaxIds
Messages == 1 .. MaxMessages   \* a message is told by its place of arrival

Steps == {"closed", "banned?", "known?", "room?", "insert", "index",
          "handshake", "mark", "loop", "remove", "unindex"}

TypeOK ==
    /\ DOMAIN peers \subseteq Ids
    /\ \A i \in DOMAIN peers :
         peers[i] \in [address : Addresses, connected : BOOLEAN]
    /\ DOMAIN byAddress \subseteq Addresses
    /\ \A a \in DOMAIN byAddress : byAddress[a] \in Ids
    /\ nextId \in 1 .. MaxIds + 1
    /\ banned \subseteq Addresses
    /\ conn \in [Conns -> [step : Steps, id : 0 .. MaxIds]]
    /\ admin \in Addresses \cup {NoAddress}
    /\ queue \in Seq(Messages) /\ received \in Seq(Messages)
    /\ owner \in Subscribers \cup {Nobody}
    /\ pumping \in BOOLEAN /\ listening \subseteq Subscribers
    /\ delivered \in [Subscribers -> Seq(Messages)]
    /\ ops \in 0 .. MaxOps

Init == /\ peers = <<>> /\ byAddress = <<>> /\ nextId = 1 /\ banned = {}
        /\ conn = [c \in Conns |-> [step |-> "closed", id |-> 0]]
        /\ admin = NoAddress
        /\ queue = <<>> /\ received = <<>>
        /\ owner = Nobody /\ pumping = FALSE /\ listening = {}
        /\ delivered = [s \in Subscribers |-> <<>>]
        /\ ops = 0
-----------------------------------------------------------------------------
At(c, step) == conn[c].step = step
Go(c, step) == conn' = [conn EXCEPT ![c].step = step]

(* An error before the message loop ends the task: what add_peer put into   *)
(* the table stays there.                                                   *)
Fail(c) == conn' = [conn EXCEPT ![c] = [step |-> "closed", id |-> 0]]

(* A TCP connection is accepted or opened; stop does not end the accept     *)
(* loop, which tests for a state that lasts only inside stop.               *)
Open(c) == /\ At(c, "closed") /\ Go(c, "banned?")
           /\ UNCHANGED <<table, admin, channel, ops>>

CheckBan(c) ==
    /\ At(c, "banned?")
    /\ IF AddressOf(c) \in banned THEN Fail(c) ELSE Go(c, "known?")
    /\ UNCHANGED <<table, admin, channel, ops>>

CheckAddress(c) ==
    /\ At(c, "known?")
    /\ IF AddressOf(c) \in DOMAIN byAddress THEN Fail(c) ELSE Go(c, "room?")
    /\ UNCHANGED <<table, admin, channel, ops>>

(* The capacity check and, under the next lock, the new id.                 *)
CheckRoom(c) ==
    /\ At(c, "room?") /\ nextId <= MaxIds
    /\ IF Cardinality(DOMAIN peers) >= MaxPeers
       THEN Fail(c) /\ UNCHANGED nextId
       ELSE /\ conn' = [conn EXCEPT ![c] = [step |-> "insert", id |-> nextId]]
            /\ nextId' = nextId + 1
    /\ UNCHANGED <<peers, byAddress, banned, admin, channel, ops>>

InsertPeer(c) ==
    /\ At(c, "insert") /\ Go(c, "index")
    /\ peers' = Put(peers, conn[c].id, [address |-> AddressOf(c), connected |-> FALSE])
    /\ UNCHANGED <<byAddress, nextId, banned, admin, channel, ops>>

IndexAddress(c) ==
    /\ At(c, "index") /\ Go(c, "handshake")
    /\ byAddress' = Put(byAddress, AddressOf(c), conn[c].id)
    /\ UNCHANGED <<peers, nextId, banned, admin, channel, ops>>

(* perform_handshake: a timeout, a closed stream, another message or        *)
(* another genesis is an error.                                             *)
Handshake(c) ==
    /\ At(c, "handshake")
    /\ Fail(c) \/ Go(c, "mark")
    /\ UNCHANGED <<table, admin, channel, ops>>

(* update_peer_state is an error when the peer has been removed meanwhile.  *)
MarkConnected(c) ==
    /\ At(c, "mark")
    /\ IF conn[c].id \in DOMAIN peers
       THEN Go(c, "loop") /\ peers' = [peers EXCEPT ![conn[c].id].connected = TRUE]
       ELSE Fail(c) /\ UNCHANGED peers
    /\ UNCHANGED <<byAddress, nextId, banned, admin, channel, ops>>

(* handle_message passes every consensus, block or transaction message on.  *)
(* A removed or banned peer's task keeps reading.                           *)
Receive(c) ==
    /\ At(c, "loop") /\ Len(received) < MaxMessages
    /\ LET m == Len(received) + 1
       IN  received' = Append(received, m) /\ queue' = Append(queue, m)
    /\ UNCHANGED <<table, conn, admin, owner, pumping, listening, delivered, ops>>

(* The loop breaks on a closed stream, a read or a write error.             *)
AfterBreakMutant == "closed"
AfterBreak == "remove"

LeaveLoop(c) == /\ At(c, "loop") /\ Go(c, AfterBreak)
                /\ UNCHANGED <<table, admin, channel, ops>>

(* remove_peer: the entry under one lock, its address under another.        *)
AfterRemove(id) == IF id \in DOMAIN peers THEN "unindex" ELSE "closed"

RemovePeer(c) ==
    /\ At(c, "remove") /\ Go(c, AfterRemove(conn[c].id))
    /\ peers' = Drop(peers, conn[c].id)
    /\ UNCHANGED <<byAddress, nextId, banned, admin, channel, ops>>

Unindex(c) ==
    /\ At(c, "unindex") /\ Fail(c)
    /\ byAddress' = Drop(byAddress, AddressOf(c))
    /\ UNCHANGED <<peers, nextId, banned, admin, channel, ops>>
-----------------------------------------------------------------------------
(* The first half of remove_peer for the operator's disconnect or ban.      *)
AdminRemove(id) ==
    /\ peers' = Drop(peers, id)
    /\ admin' = IF id \in DOMAIN peers THEN peers[id].address ELSE NoAddress

(* disconnect removes whatever peer it is given, connected or not: one that  *)
(* add_peer has inserted and not yet indexed as well, whose address is then  *)
(* indexed without an entry and refused from then on.                       *)
Disconnect(id) ==
    /\ admin = NoAddress /\ ops < MaxOps
    /\ id \in DOMAIN peers
    /\ AdminRemove(id)
    /\ ops' = ops + 1
    /\ UNCHANGED <<byAddress, nextId, banned, conn, channel>>

Ban(a) ==
    /\ admin = NoAddress /\ ops < MaxOps
    /\ banned' = banned \cup {a}
    /\ IF a \in DOMAIN byAddress THEN AdminRemove(byAddress[a])
                                 ELSE UNCHANGED <<peers, admin>>
    /\ ops' = ops + 1
    /\ UNCHANGED <<byAddress, nextId, conn, channel>>

AdminUnindex ==
    /\ admin # NoAddress
    /\ byAddress' = Drop(byAddress, admin)
    /\ admin' = NoAddress
    /\ UNCHANGED <<peers, nextId, banned, conn, channel, ops>>

(* A ban runs out; cleanup_banned forgets it.                               *)
BanExpires(a) == /\ a \in banned /\ banned' = banned \ {a}
                 /\ UNCHANGED <<peers, byAddress, nextId, conn, admin, channel, ops>>

(* stop: every loop subscribes to the shutdown anew on each turn, so a task *)
(* that is handling a message misses it.                                    *)
Stop == /\ ops < MaxOps /\ ops' = ops + 1
        /\ \E hit \in SUBSET { c \in Conns : At(c, "loop") } :
             conn' = [c \in Conns |-> IF c \in hit
                                      THEN [conn[c] EXCEPT !.step = AfterBreak]
                                      ELSE conn[c]]
        /\ UNCHANGED <<table, admin, channel>>
-----------------------------------------------------------------------------
(* subscribe takes the receiver if it is still there.                       *)
TakesMutant(s) == TRUE
Takes(s) == owner = Nobody

Subscribe(s) ==
    /\ s \notin listening /\ delivered[s] = <<>> /\ owner # s
    /\ listening' = listening \cup {s}
    /\ IF Takes(s) THEN owner' = s /\ pumping' = TRUE
                   ELSE UNCHANGED <<owner, pumping>>
    /\ UNCHANGED <<table, conn, admin, queue, delivered, received, ops>>

(* The task that subscribe spawned moves one message after the other; when  *)
(* its subscriber is gone the message is lost and the task ends.            *)
GoesOnMutant == FALSE
GoesOn == owner \in listening

Pump ==
    /\ pumping /\ queue # <<>>
    /\ queue' = Tail(queue)
    /\ delivered' = IF owner \in listening
                    THEN [delivered EXCEPT ![owner] = Append(@, Head(queue))]
                    ELSE delivered
    /\ pumping' = GoesOn
    /\ UNCHANGED <<table, conn, admin, owner, listening, received, ops>>

Unsubscribe(s) ==
    /\ s \in listening /\ ops < MaxOps
    /\ listening' = listening \ {s} /\ ops' = ops + 1
    /\ UNCHANGED <<table, conn, admin, queue, owner, pumping, delivered,
                   received>>

ConnStep(c) ==
    \/ Open(c) \/ CheckBan(c) \/ CheckAddress(c) \/ CheckRoom(c)
    \/ InsertPeer(c) \/ IndexAddress(c) \/ Handshake(c) \/ MarkConnected(c)
    \/ Receive(c) \/ LeaveLoop(c) \/ RemovePeer(c) \/ Unindex(c)

Next == \/ \E c \in Conns : ConnStep(c)
        \/ \E i \in DOMAIN peers : Disconnect(i)
        \/ \E a \in Addresses : Ban(a) \/ BanExpires(a)
        \/ AdminUnindex \/ Stop \/ Pump
        \/ \E s \in Subscribers : Subscribe(s) \/ Unsubscribe(s)

(* The forwarding task and the tasks that subscribe at startup are run.     *)
Fairness == WF_vars(Pump) /\ \A s \in Subscribers : WF_vars(Subscribe(s))

Spec == Init /\ [][Next]_vars /\ Fairness
-----------------------------------------------------------------------------
(* Every peer that connected_peers lists has a connection task that will    *)
(* remove it, whatever disconnects, bans and reconnects raced with it.      *)
ConnectedHasTask ==
    \A i \in DOMAIN peers : peers[i].connected =>
        \E c \in Conns : conn[c].id = i /\ conn[c].step \in {"loop", "remove"}

BeginsWith(t, s) == Len(s) <= Len(t) /\ s = SubSeq(t, 1, Len(s))

(* One subscriber is handed the received messages, in order and without a   *)
(* gap, and the others nothing.                                             *)
OneStream ==
    \A s \in Subscribers :
        IF s = owner THEN BeginsWith(received, delivered[s]) ELSE delivered[s] = <<>>

(* Every message received from a peer is handed to the subscriber that owns *)
(* the channel, unless that subscriber drops its receiver.                  *)
ReceivedIsDelivered ==
    \A n \in 1 .. MaxMessages :
        Len(received) >= n ~>
            \/ \E s \in Subscribers : Len(delivered[s]) >= n
            \/ owner \notin listening

(* What the engine is written for: the messages received from the network   *)
(* reach the given subscriber, as long as it listens.                       *)
Hears(s) ==
    \A n \in 1 .. MaxMessages :
        Len(received) >= n ~> (Len(delivered[s]) >= n \/ s \notin listening)
=============================================================================
