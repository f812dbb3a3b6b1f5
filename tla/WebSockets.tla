----------------------------- MODULE WebSockets -----------------------------
(***************************************************************************)
(* WebSocketServer (api/websocket.rs): the accept task, a task per         *)
(* connection with its sender task, and the task that broadcasts the       *)
(* events of the consensus engine and of the network.                      *)
(*                                                                         *)
(* A message is its place among the events that were broadcast, and an     *)
(* answer to a client is 0.  Topics are not kept by the server, so a       *)
(* subscription is only answered.                                          *)
(***************************************************************************)
EXTENDS Integers, Sequences, FiniteSets

CONSTANTS WsClients,     \* the clients, each connecting at most once
          WsMaxEvents,   \* bound: events broadcast
          WsMaxMessages  \* bound: messages sent by a client

VARIABLES wsServer,       \* the accept task: down, spawned, accepting, stopped
          wsBroadcasting, \* broadcast_events: not started, runs, or has panicked
          wsOpen,         \* its channels that are not closed
          connections,    \* conn_id -> the client that holds the receiver
          next_conn_id,
          wsConn,         \* client -> its connection
          wsQueue,        \* client -> its unbounded channel
          wsGot,          \* client -> what was written to its socket
          wsEvents,       \* number of events broadcast
          wsJoined        \* ghost: client -> the events before it was registered

wsVars == <<wsServer, wsBroadcasting, wsOpen, connections, next_conn_id, wsConn, wsQueue, wsGot,
            wsEvents, wsJoined>>

(* The events broadcast_events passes on from its two channels; it drops    *)
(* the others.                                                              *)
PassedOn == [consensus |-> {"BlockCommitted", "NewRound", "QuorumReached"},
             network |-> {"NewTransaction", "PeerConnected", "PeerDisconnected"}]
Answered == {"Subscribe", "Unsubscribe", "Ping"}
Ignored == {"Other"}
NotConnected == [at |-> "off", id |-> 0, sent |-> 0, sender |-> FALSE]

WsTypeOK ==
    /\ wsServer \in {"down", "spawned", "accepting", "stopped"}
    /\ wsBroadcasting \in {"no", "runs", "dead"}
    /\ \A id \in DOMAIN connections : id < next_conn_id /\ connections[id] \in WsClients
    /\ \A c \in WsClients : wsConn[c].at \in {"off", "shaken", "open", "closing", "closed"}

WsInit ==
    /\ wsServer = "down" /\ wsBroadcasting = "no" /\ wsOpen = DOMAIN PassedOn
    /\ connections = [id \in {} |-> 0]
    /\ next_conn_id = 1
    /\ wsConn = [c \in WsClients |-> NotConnected]
    /\ wsQueue = [c \in WsClients |-> <<>>]
    /\ wsGot = [c \in WsClients |-> <<>>]
    /\ wsEvents = 0
    /\ wsJoined = [c \in WsClients |-> 0]

(* start: bind may fail; else the two tasks are spawned.                    *)
WsStart ==
    /\ wsServer = "down" /\ wsServer' = "spawned"
    /\ UNCHANGED <<wsBroadcasting, wsOpen, connections, next_conn_id, wsConn, wsQueue, wsGot,
                   wsEvents, wsJoined>>

(* Each task subscribes when it first runs.                                 *)
AcceptSubscribes ==
    /\ wsServer = "spawned" /\ wsServer' = "accepting"
    /\ UNCHANGED <<wsBroadcasting, wsOpen, connections, next_conn_id, wsConn, wsQueue, wsGot,
                   wsEvents, wsJoined>>

BroadcastSubscribes ==
    /\ wsServer # "down" /\ wsBroadcasting = "no" /\ wsBroadcasting' = "runs"
    /\ UNCHANGED <<wsServer, wsOpen, connections, next_conn_id, wsConn, wsQueue, wsGot, wsEvents,
                   wsJoined>>

(* stop: only an accept task that has subscribed hears of it; the           *)
(* connections and the broadcast go on.                                     *)
WsStop ==
    /\ wsServer = "accepting" /\ wsServer' = "stopped"
    /\ UNCHANGED <<wsBroadcasting, wsOpen, connections, next_conn_id, wsConn, wsQueue, wsGot,
                   wsEvents, wsJoined>>

(* handle_connection: a handshake that fails leaves nothing; one that       *)
(* succeeds takes an id, and then enters its sender in the table.           *)
NextConnIdMutant(id) == id
NextConnId(id) == id + 1

handle_connection(c) ==
    /\ wsServer = "accepting" /\ wsConn[c].at = "off"
    /\ wsConn' = [wsConn EXCEPT ![c].at = "shaken", ![c].id = next_conn_id]
    /\ next_conn_id' = NextConnId(next_conn_id)
    /\ UNCHANGED <<wsServer, wsBroadcasting, wsOpen, connections, wsQueue, wsGot, wsEvents, wsJoined>>

WsRegister(c) ==
    /\ wsConn[c].at = "shaken"
    /\ connections' = [id \in DOMAIN connections \cup {wsConn[c].id} |->
                          IF id = wsConn[c].id THEN c ELSE connections[id]]
    /\ wsConn' = [wsConn EXCEPT ![c].at = "open", ![c].sender = TRUE]
    /\ wsJoined' = [wsJoined EXCEPT ![c] = wsEvents]
    /\ UNCHANGED <<wsServer, wsBroadcasting, wsOpen, next_conn_id, wsQueue, wsGot, wsEvents>>

(* The sender task writes the head of the channel, or ends on an error,     *)
(* which drops the channel and what is in it.                               *)
SendTask(c) ==
    /\ wsConn[c].sender
    /\ \/ /\ wsQueue[c] # <<>>
          /\ wsGot' = [wsGot EXCEPT ![c] = Append(@, Head(wsQueue[c]))]
          /\ wsQueue' = [wsQueue EXCEPT ![c] = Tail(@)]
          /\ UNCHANGED wsConn
       \/ /\ wsQueue[c] # <<>>
          /\ wsConn' = [wsConn EXCEPT ![c].sender = FALSE]
          /\ wsQueue' = [wsQueue EXCEPT ![c] = <<>>]
          /\ UNCHANGED wsGot
    /\ UNCHANGED <<wsServer, wsBroadcasting, wsOpen, connections, next_conn_id, wsEvents, wsJoined>>

(* send_to and broadcast: a message for the connections of some ids, lost   *)
(* where the channel has been dropped.                                      *)
WsSent(ids, m) ==
    LET receivers == {connections[id] : id \in ids \cap DOMAIN connections}
    IN [c \in WsClients |-> IF c \in receivers /\ wsConn[c].sender
                            THEN Append(wsQueue[c], m) ELSE wsQueue[c]]

(* handle_message: the answer goes through the table, by the id.            *)
handle_message(c, kind) ==
    /\ wsConn[c].at = "open" /\ wsConn[c].sent < WsMaxMessages
    /\ wsConn' = [wsConn EXCEPT ![c].sent = @ + 1]
    /\ wsQueue' = IF kind \in Answered THEN WsSent({wsConn[c].id}, 0) ELSE wsQueue
    /\ UNCHANGED <<wsServer, wsBroadcasting, wsOpen, connections, next_conn_id, wsGot, wsEvents,
                   wsJoined>>

(* The end of the receive loop: the sender task is aborted, then the entry  *)
(* is removed.                                                              *)
WsCloses(c) ==
    /\ wsConn[c].at = "open"
    /\ wsConn' = [wsConn EXCEPT ![c].at = "closing", ![c].sender = FALSE]
    /\ wsQueue' = [wsQueue EXCEPT ![c] = <<>>]
    /\ UNCHANGED <<wsServer, wsBroadcasting, wsOpen, connections, next_conn_id, wsGot, wsEvents,
                   wsJoined>>

WsRemoves(c) ==
    /\ wsConn[c].at = "closing"
    /\ wsConn' = [wsConn EXCEPT ![c].at = "closed"]
    /\ connections' = [id \in DOMAIN connections \ {wsConn[c].id} |-> connections[id]]
    /\ UNCHANGED <<wsServer, wsBroadcasting, wsOpen, next_conn_id, wsQueue, wsGot, wsEvents, wsJoined>>

(* broadcast_events: an event that is passed on is put in the channel of    *)
(* every connection in the table, under one read lock.                      *)
broadcast_events(channel, kind) ==
    /\ wsBroadcasting = "runs" /\ channel \in wsOpen /\ kind \in PassedOn[channel]
    /\ wsEvents < WsMaxEvents
    /\ wsEvents' = wsEvents + 1
    /\ wsQueue' = WsSent(DOMAIN connections, wsEvents + 1)
    /\ UNCHANGED <<wsServer, wsBroadcasting, wsOpen, connections, next_conn_id, wsConn, wsGot, wsJoined>>

(* The engine stops, or the network's receiver went to another subscriber.  *)
(* With both channels closed, select! has no branch left and panics; the    *)
(* connections go on.                                                       *)
ChannelCloses(channel) ==
    /\ channel \in wsOpen /\ wsOpen' = wsOpen \ {channel}
    /\ UNCHANGED <<wsServer, wsBroadcasting, connections, next_conn_id, wsConn, wsQueue, wsGot,
                   wsEvents, wsJoined>>

BroadcastPanics ==
    /\ wsBroadcasting = "runs" /\ wsOpen = {} /\ wsBroadcasting' = "dead"
    /\ UNCHANGED <<wsServer, wsOpen, connections, next_conn_id, wsConn, wsQueue, wsGot,
                   wsEvents, wsJoined>>

WsNext ==
    \/ WsStart \/ AcceptSubscribes \/ BroadcastSubscribes \/ WsStop
    \/ \E c \in WsClients :
         \/ handle_connection(c) \/ WsRegister(c) \/ SendTask(c)
         \/ \E kind \in Answered \cup Ignored : handle_message(c, kind)
         \/ WsCloses(c) \/ WsRemoves(c)
    \/ \E channel \in DOMAIN PassedOn :
         ChannelCloses(channel) \/ \E kind \in PassedOn[channel] : broadcast_events(channel, kind)
    \/ BroadcastPanics
-----------------------------------------------------------------------------
EventsOf(seq) == SelectSeq(seq, LAMBDA m : m # 0)

(* What a connection whose sender task runs has been sent and what waits in *)
(* its channel are together the events broadcast since it was registered,   *)
(* all of them and in order, whoever else connected, asked, failed or left  *)
(* meanwhile.  About handle_connection, broadcast and send_to sharing the   *)
(* table of senders.                                                        *)
WsNoGap ==
    \A c \in WsClients : wsConn[c].sender =>
        LET events == EventsOf(wsGot[c] \o wsQueue[c])
        IN /\ Len(events) = wsEvents - wsJoined[c]
           /\ \A i \in DOMAIN events : events[i] = wsJoined[c] + i
=============================================================================
