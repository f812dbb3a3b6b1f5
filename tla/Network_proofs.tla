--------------------------- MODULE Network_proofs ---------------------------
(***************************************************************************)
(* Proofs about the peer table and the message channel, for any number of  *)
(* connections, addresses, peers, subscribers and messages.                *)
(*                                                                         *)
(* The table: a connection that was given a peer id is the only one with   *)
(* it, so the entry it marks connected is its own to remove.  The channel: *)
(* while the forwarding task runs, what it has delivered and what still    *)
(* waits is what was received.                                             *)
(*                                                                         *)
(* The last part is about the sentinel, for any messages, cache sizes and  *)
(* restarts: the evidence it holds is justified by what it was sent.       *)
(***************************************************************************)
EXTENDS Network, Sentinel, TLAPS

\* The steps at which a connection owns the id that add_peer gave it.
Owning == {"insert", "index", "handshake", "mark", "loop", "remove"}

\* Ids are handed out once.
IdsApart ==
    /\ \A c \in Conns : conn[c].step \in Owning => conn[c].id \in 1 .. nextId - 1
    /\ \A c, d \in Conns :
         conn[c].step \in Owning /\ conn[d].step \in Owning /\ conn[c].id = conn[d].id => c = d
    /\ \A i \in DOMAIN peers : i < nextId

\* Before the first half of add_peer there is no entry under the new id.
NotYetAdded == \A c \in Conns : At(c, "insert") => conn[c].id \notin DOMAIN peers

TableInv == IdsApart /\ NotYetAdded /\ ConnectedHasTask

\* What the subscriber that owns the channel has been handed and what waits
\* for it are the messages received, as long as the forwarding task runs.
StreamInv ==
    /\ owner = Nobody => ~pumping /\ queue = received
    /\ pumping => owner \in Subscribers /\ delivered[owner] \o queue = received
    /\ OneStream

USE DEF Ids, Messages

LEMMA EmptyMap == DOMAIN <<>> = {}
  OBVIOUS

-----------------------------------------------------------------------------
(* Types. *)

ConnRecords == [Conns -> [step : Steps, id : 0 .. MaxIds]]

LEMMA GoType ==
  ASSUME TypeOK, NEW c \in Conns, NEW step \in Steps, Go(c, step)
  PROVE  conn' \in ConnRecords
  BY ZenonT(60) DEF TypeOK, Go, ConnRecords

LEMMA FailType ==
  ASSUME TypeOK, NEW c \in Conns, Fail(c)
  PROVE  conn' \in ConnRecords
  <1>1. [step |-> "closed", id |-> 0] \in [step : Steps, id : 0 .. MaxIds]
    BY NetworkAssumption DEF Steps
  <1>2. QED
    BY <1>1, Zenon DEF TypeOK, Fail, ConnRecords

\* What a step leaves of the connections.
LEMMA GoFacts ==
  ASSUME TypeOK, NEW c \in Conns, NEW step, Go(c, step)
  PROVE  /\ conn'[c].step = step /\ conn'[c].id = conn[c].id
         /\ \A d \in Conns : d # c => conn'[d] = conn[d]
  BY Zenon DEF TypeOK, Go

LEMMA FailFacts ==
  ASSUME TypeOK, NEW c \in Conns, Fail(c)
  PROVE  /\ conn'[c].step = "closed"
         /\ \A d \in Conns : d # c => conn'[d] = conn[d]
  BY Zenon DEF TypeOK, Fail

LEMMA InitType == Init => TypeOK
  <1> SUFFICES ASSUME Init PROVE TypeOK
    BY Zenon
  <1>1. DOMAIN peers = {} /\ DOMAIN byAddress = {}
    BY EmptyMap, Zenon DEF Init
  <1>2. conn \in ConnRecords
    BY NetworkAssumption DEF Init, ConnRecords, Steps
  <1>3. nextId \in 1 .. MaxIds + 1 /\ ops \in 0 .. MaxOps
    BY NetworkAssumption DEF Init
  <1>4. queue \in Seq(Messages) /\ received \in Seq(Messages)
        /\ delivered \in [Subscribers -> Seq(Messages)]
    BY DEF Init
  <1>5. QED
    BY <1>1, <1>2, <1>3, <1>4, Zenon DEF Init, TypeOK, ConnRecords

\* The connection tasks keep the types.
LEMMA ConnStepType ==
  ASSUME TypeOK, IdsApart, NEW c \in Conns, ConnStep(c)
  PROVE  TypeOK'
  <1> USE NetworkAssumption DEF ConnRecords
  <1>1. AddressOf(c) \in Addresses
    BY Zenon DEF Addresses
  <1>2. CASE Open(c)
    BY <1>2, GoType, Zenon DEF TypeOK, Open, Steps, table, channel
  <1>3. CASE CheckBan(c)
    <2>1. conn' \in ConnRecords
      BY <1>3, GoType, FailType, Zenon DEF CheckBan, Steps
    <2>2. QED
      BY <1>3, <2>1, Zenon DEF TypeOK, CheckBan, table, channel
  <1>4. CASE CheckAddress(c)
    <2>1. conn' \in ConnRecords
      BY <1>4, GoType, FailType, Zenon DEF CheckAddress, Steps
    <2>2. QED
      BY <1>4, <2>1, Zenon DEF TypeOK, CheckAddress, table, channel
  <1>5. CASE CheckRoom(c)
    <2>1. nextId \in 0 .. MaxIds /\ nextId + 1 \in 1 .. MaxIds + 1
      BY <1>5 DEF CheckRoom, TypeOK
    <2>2. [step |-> "insert", id |-> nextId] \in [step : Steps, id : 0 .. MaxIds]
      BY <2>1, Zenon DEF Steps
    <2>3. conn' \in ConnRecords
      BY <1>5, <2>2, FailType, Zenon DEF CheckRoom, TypeOK
    <2>4. nextId' \in 1 .. MaxIds + 1
      BY <1>5, <2>1, Zenon DEF CheckRoom, TypeOK
    <2>5. QED
      BY <1>5, <2>3, <2>4, Zenon DEF TypeOK, CheckRoom, channel
  <1>6. CASE InsertPeer(c)
    <2>1. conn[c].id \in Ids
      BY <1>6 DEF InsertPeer, IdsApart, Owning, At, TypeOK
    <2>2. conn' \in ConnRecords
      BY <1>6, GoType, Zenon DEF InsertPeer, Steps
    <2>3. [address |-> AddressOf(c), connected |-> FALSE]
            \in [address : Addresses, connected : BOOLEAN]
      BY <1>1, Zenon
    <2>4. QED
      BY <1>6, <2>1, <2>2, <2>3, Zenon DEF TypeOK, InsertPeer, channel, Put
  <1>7. CASE IndexAddress(c)
    <2>1. conn[c].id \in Ids
      BY <1>7 DEF IndexAddress, IdsApart, Owning, At, TypeOK
    <2>2. conn' \in ConnRecords
      BY <1>7, GoType, Zenon DEF IndexAddress, Steps
    <2>3. QED
      BY <1>1, <1>7, <2>1, <2>2, Zenon DEF TypeOK, IndexAddress, channel, Put
  <1>8. CASE Handshake(c)
    <2>1. conn' \in ConnRecords
      BY <1>8, GoType, FailType, Zenon DEF Handshake, Steps
    <2>2. QED
      BY <1>8, <2>1, Zenon DEF TypeOK, Handshake, table, channel
  <1>9. CASE MarkConnected(c)
    <2>1. conn' \in ConnRecords
      BY <1>9, GoType, FailType, Zenon DEF MarkConnected, Steps
    <2>2. /\ DOMAIN peers' = DOMAIN peers
          /\ \A i \in DOMAIN peers : peers'[i] \in [address : Addresses, connected : BOOLEAN]
      <3>1. CASE conn[c].id \in DOMAIN peers
        <4>1. \A i \in DOMAIN peers :
                peers'[i] = IF i = conn[c].id THEN [peers[i] EXCEPT !.connected = TRUE] ELSE peers[i]
          BY <1>9, <3>1, Zenon DEF MarkConnected
        <4>2. DOMAIN peers' = DOMAIN peers
          BY <1>9, <3>1, Zenon DEF MarkConnected
        <4>3. QED
          BY <4>1, <4>2, ZenonT(60) DEF TypeOK
      <3>2. CASE conn[c].id \notin DOMAIN peers
        BY <1>9, <3>2, Zenon DEF TypeOK, MarkConnected
      <3>3. QED
        BY <3>1, <3>2, Zenon
    <2>3. QED
      BY <1>9, <2>1, <2>2, Zenon DEF TypeOK, MarkConnected, channel
  <1>10. CASE Receive(c)
    <2>1. Len(received) + 1 \in Messages
      BY <1>10 DEF TypeOK, Receive
    <2>2. QED
      BY <1>10, <2>1 DEF TypeOK, Receive, table
  <1>11. CASE LeaveLoop(c)
    BY <1>11, GoType, Zenon DEF TypeOK, LeaveLoop, AfterBreak, Steps, table, channel
  <1>12. CASE RemovePeer(c)
    <2>1. conn' \in ConnRecords
      BY <1>12, GoType, Zenon DEF RemovePeer, AfterRemove, Steps
    <2>2. QED
      BY <1>12, <2>1, Zenon DEF TypeOK, RemovePeer, channel, Drop
  <1>13. CASE Unindex(c)
    BY <1>13, FailType, Zenon DEF TypeOK, Unindex, channel, Drop
  <1>14. QED
    BY <1>2, <1>3, <1>4, <1>5, <1>6, <1>7, <1>8, <1>9, <1>10, <1>11, <1>12, <1>13, Zenon DEF ConnStep

\* The operator and the subscribers keep the types.
LEMMA OtherStepType ==
  ASSUME TypeOK, Next, ~(\E c \in Conns : ConnStep(c))
  PROVE  TypeOK'
  <1> USE NetworkAssumption
  <1>1. ASSUME NEW i \in DOMAIN peers, Disconnect(i)
        PROVE  TypeOK'
    <2>1. admin' \in Addresses
      BY <1>1, Zenon DEF Disconnect, AdminRemove, TypeOK
    <2>2. ops' \in 0 .. MaxOps
      BY <1>1 DEF Disconnect, TypeOK
    <2>3. QED
      BY <1>1, <2>1, <2>2, Zenon DEF TypeOK, Disconnect, AdminRemove, channel, Drop
  <1>2. ASSUME NEW a \in Addresses, Ban(a)
        PROVE  TypeOK'
    <2>1. admin' \in Addresses \cup {NoAddress}
      BY <1>2, Zenon DEF Ban, AdminRemove, TypeOK
    <2>2. ops' \in 0 .. MaxOps
      BY <1>2 DEF Ban, TypeOK
    <2>3. /\ DOMAIN peers' \subseteq DOMAIN peers
          /\ \A i \in DOMAIN peers' : peers'[i] = peers[i]
      BY <1>2, Zenon DEF Ban, AdminRemove, Drop
    <2>4. QED
      BY <1>2, <2>1, <2>2, <2>3, Zenon DEF TypeOK, Ban, channel
  <1>3. ASSUME NEW a \in Addresses, BanExpires(a)
        PROVE  TypeOK'
    BY <1>3, Zenon DEF TypeOK, BanExpires, channel
  <1>4. CASE AdminUnindex
    BY <1>4, Zenon DEF TypeOK, AdminUnindex, channel, Drop
  <1>5. CASE Stop
    <2>1. conn' \in ConnRecords
      <3>1. \A c \in Conns : [conn[c] EXCEPT !.step = AfterBreak] \in [step : Steps, id : 0 .. MaxIds]
        <4> TAKE c \in Conns
        <4>1. conn[c] \in [step : Steps, id : 0 .. MaxIds]
          BY Zenon DEF TypeOK
        <4>2. AfterBreak \in Steps
          BY Zenon DEF AfterBreak, Steps
        <4>3. QED
          BY <4>1, <4>2, Zenon
      <3>2. PICK hit : conn' = [c \in Conns |-> IF c \in hit
                                               THEN [conn[c] EXCEPT !.step = AfterBreak]
                                               ELSE conn[c]]
        BY <1>5, Zenon DEF Stop
      <3>3. \A c \in Conns : (IF c \in hit THEN [conn[c] EXCEPT !.step = AfterBreak] ELSE conn[c])
                                \in [step : Steps, id : 0 .. MaxIds]
        BY <3>1, Zenon DEF TypeOK
      <3>4. QED
        BY <3>2, <3>3, Zenon DEF ConnRecords
    <2>2. ops' \in 0 .. MaxOps
      BY <1>5 DEF Stop, TypeOK
    <2>3. QED
      BY <1>5, <2>1, <2>2, Zenon DEF TypeOK, Stop, table, channel, ConnRecords
  <1>6. CASE Pump
    <2>1. Head(queue) \in Messages /\ Tail(queue) \in Seq(Messages)
      BY <1>6 DEF Pump, TypeOK
    <2>2. delivered' \in [Subscribers -> Seq(Messages)]
      BY <1>6, <2>1 DEF Pump, TypeOK
    <2>3. QED
      BY <1>6, <2>1, <2>2 DEF TypeOK, Pump, GoesOn, table
  <1>7. ASSUME NEW s \in Subscribers, Subscribe(s)
        PROVE  TypeOK'
    BY <1>7, Zenon DEF TypeOK, Subscribe, table
  <1>8. ASSUME NEW s \in Subscribers, Unsubscribe(s)
        PROVE  TypeOK'
    <2>1. ops' \in 0 .. MaxOps
      BY <1>8 DEF Unsubscribe, TypeOK
    <2>2. QED
      BY <1>8, <2>1, Zenon DEF TypeOK, Unsubscribe, table
  <1>9. QED
    BY <1>1, <1>2, <1>3, <1>4, <1>5, <1>6, <1>7, <1>8, Zenon DEF Next

-----------------------------------------------------------------------------
(* The peer table. *)

LEMMA InitTable == Init => TableInv
  <1> SUFFICES ASSUME Init PROVE TableInv
    BY Zenon
  <1>1. DOMAIN peers = {}
    BY EmptyMap, Zenon DEF Init
  <1>2. \A c \in Conns : conn[c].step = "closed"
    BY Zenon DEF Init
  <1>3. QED
    BY <1>1, <1>2, Zenon DEF TableInv, IdsApart, NotYetAdded, ConnectedHasTask, Owning, At

\* A step that leaves the entries alone and moves one connection on, not across
\* a boundary of the invariant.
LEMMA QuietTable ==
  ASSUME TypeOK, TableInv, UNCHANGED <<peers, nextId>>,
         NEW c \in Conns,
         \A d \in Conns : d # c => conn'[d] = conn[d],
         \/ conn[c].step \notin Owning /\ conn'[c].step \notin Owning
         \/ conn[c].step = "handshake" /\ conn'[c].step = "closed"
         \/ /\ <<conn[c].step, conn'[c].step>> \in
                  {<<"index", "handshake">>, <<"handshake", "mark">>, <<"loop", "remove">>}
            /\ conn'[c].id = conn[c].id
         \/ conn[c].step = "mark" /\ conn[c].id \notin DOMAIN peers /\ conn'[c].step = "closed"
  PROVE  TableInv'
  <1> USE DEF TableInv, Owning
  <1>1. IdsApart'
    BY DEF IdsApart
  <1>2. NotYetAdded'
    BY DEF NotYetAdded, At
  <1>3. ConnectedHasTask'
    BY DEF ConnectedHasTask
  <1>4. QED
    BY <1>1, <1>2, <1>3, Zenon

\* A new id is larger than all that are in use.
LEMMA CheckRoomTable ==
  ASSUME TypeOK, TableInv, NEW c \in Conns, CheckRoom(c)
  PROVE  TableInv'
  <1> USE DEF Owning
  <1>1. CASE Cardinality(DOMAIN peers) >= MaxPeers
    <2>1. conn[c].step = "room?" /\ conn'[c].step = "closed"
          /\ \A d \in Conns : d # c => conn'[d] = conn[d]
      BY <1>1, FailFacts, Zenon DEF CheckRoom, At
    <2>2. QED
      BY <1>1, <2>1, QuietTable, Zenon DEF CheckRoom
  <1>2. CASE ~(Cardinality(DOMAIN peers) >= MaxPeers)
    <2>1. /\ conn[c].step = "room?" /\ conn'[c].step = "insert" /\ conn'[c].id = nextId
          /\ \A d \in Conns : d # c => conn'[d] = conn[d]
          /\ nextId' = nextId + 1 /\ nextId \in Nat /\ nextId >= 1
          /\ UNCHANGED peers
          /\ \A d \in Conns : conn[d].id \in Nat
          /\ \A i \in DOMAIN peers : i \in Nat
      BY <1>2 DEF CheckRoom, At, TypeOK
    <2>2. IdsApart'
      BY <2>1 DEF TableInv, IdsApart
    <2>3. NotYetAdded'
      BY <2>1 DEF TableInv, NotYetAdded, IdsApart, At
    <2>4. ConnectedHasTask'
      BY <2>1 DEF TableInv, ConnectedHasTask
    <2>5. QED
      BY <2>2, <2>3, <2>4, Zenon DEF TableInv
  <1>3. QED
    BY <1>1, <1>2, Zenon

\* The new entry is under an id that nothing refers to yet.
LEMMA InsertPeerTable ==
  ASSUME TypeOK, TableInv, NEW c \in Conns, InsertPeer(c)
  PROVE  TableInv'
  <1> USE DEF Owning
  <1> DEFINE i == conn[c].id
  <1>1. /\ conn[c].step = "insert" /\ conn'[c].step = "index" /\ conn'[c].id = i
        /\ \A d \in Conns : d # c => conn'[d] = conn[d]
        /\ UNCHANGED nextId
    BY GoFacts, Zenon DEF InsertPeer, At
  <1>2. i \in 1 .. nextId - 1 /\ i \notin DOMAIN peers
    BY <1>1, Zenon DEF TableInv, IdsApart, NotYetAdded, At
  <1>3. /\ DOMAIN peers' = DOMAIN peers \cup {i}
        /\ ~peers'[i].connected
        /\ \A j \in DOMAIN peers : peers'[j] = peers[j]
    BY <1>2, Zenon DEF InsertPeer, Put
  <1>4. nextId \in Nat
    BY DEF TypeOK
  <1> HIDE DEF i
  <1>5. IdsApart'
    BY <1>1, <1>2, <1>3, <1>4 DEF TableInv, IdsApart, i
  <1>6. NotYetAdded'
    BY <1>1, <1>2, <1>3 DEF TableInv, IdsApart, NotYetAdded, At, i
  <1>7. ConnectedHasTask'
    BY <1>1, <1>2, <1>3 DEF TableInv, ConnectedHasTask
  <1>8. QED
    BY <1>5, <1>6, <1>7, Zenon DEF TableInv

\* The entry that is marked is this connection's own.
LEMMA MarkConnectedTable ==
  ASSUME TypeOK, TableInv, NEW c \in Conns, MarkConnected(c)
  PROVE  TableInv'
  <1> USE DEF Owning
  <1>1. CASE conn[c].id \notin DOMAIN peers
    <2>1. conn[c].step = "mark" /\ conn'[c].step = "closed"
          /\ \A d \in Conns : d # c => conn'[d] = conn[d]
      BY <1>1, FailFacts, Zenon DEF MarkConnected, At
    <2>2. QED
      BY <1>1, <2>1, QuietTable, Zenon DEF MarkConnected
  <1>2. CASE conn[c].id \in DOMAIN peers
    <2>1. /\ conn[c].step = "mark" /\ conn'[c].step = "loop" /\ conn'[c].id = conn[c].id
          /\ \A d \in Conns : d # c => conn'[d] = conn[d]
          /\ UNCHANGED nextId
      BY <1>2, GoFacts, Zenon DEF MarkConnected, At
    <2>2. /\ DOMAIN peers' = DOMAIN peers
          /\ \A i \in DOMAIN peers : i # conn[c].id => peers'[i] = peers[i]
      BY <1>2, Zenon DEF MarkConnected
    <2>3. IdsApart'
      BY <2>1, <2>2 DEF TableInv, IdsApart
    <2>4. NotYetAdded'
      BY <2>1, <2>2 DEF TableInv, NotYetAdded, At
    <2>5. ConnectedHasTask'
      BY <2>1, <2>2 DEF TableInv, ConnectedHasTask
    <2>6. QED
      BY <2>3, <2>4, <2>5, Zenon DEF TableInv
  <1>3. QED
    BY <1>1, <1>2, Zenon

\* Taking an entry out: a connection that removes it may end.
LEMMA TakenOut ==
  ASSUME TypeOK, TableInv, NEW i,
         DOMAIN peers' = DOMAIN peers \ {i},
         \A j \in DOMAIN peers' : peers'[j] = peers[j],
         UNCHANGED nextId,
         \A d \in Conns : conn'[d].id = conn[d].id,
         \A d \in Conns : conn'[d].step # conn[d].step =>
            conn[d].step = "remove" /\ conn'[d].step \in {"unindex", "closed"} /\ conn[d].id = i
  PROVE  TableInv'
  <1> USE DEF Owning
  <1>1. IdsApart'
    BY DEF TableInv, IdsApart
  <1>2. NotYetAdded'
    BY DEF TableInv, NotYetAdded, At
  <1>3. ConnectedHasTask'
    BY DEF TableInv, ConnectedHasTask
  <1>4. QED
    BY <1>1, <1>2, <1>3, Zenon DEF TableInv

LEMMA RemovePeerTable ==
  ASSUME TypeOK, TableInv, NEW c \in Conns, RemovePeer(c)
  PROVE  TableInv'
  <1>1. /\ conn[c].step = "remove" /\ conn'[c].id = conn[c].id
        /\ conn'[c].step \in {"unindex", "closed"}
        /\ \A d \in Conns : d # c => conn'[d] = conn[d]
        /\ UNCHANGED nextId
    BY GoFacts, Zenon DEF RemovePeer, AfterRemove, At
  <1>2. /\ DOMAIN peers' = DOMAIN peers \ {conn[c].id}
        /\ \A j \in DOMAIN peers' : peers'[j] = peers[j]
    BY Zenon DEF RemovePeer, Drop
  <1>3. QED
    BY <1>1, <1>2, TakenOut

\* disconnect and ban take out any entry, one that add_peer has not indexed
\* yet as well.
LEMMA AdminRemoveTable ==
  ASSUME TypeOK, TableInv, NEW i, AdminRemove(i), UNCHANGED <<nextId, conn>>
  PROVE  TableInv'
  <1>1. /\ DOMAIN peers' = DOMAIN peers \ {i}
        /\ \A j \in DOMAIN peers' : peers'[j] = peers[j]
    BY Zenon DEF AdminRemove, Drop
  <1>2. QED
    BY <1>1, TakenOut, Zenon

\* stop moves any number of connections from the loop to the removal.
LEMMA StopTable ==
  ASSUME TypeOK, TableInv, Stop
  PROVE  TableInv'
  <1> USE DEF Owning
  <1>1. \A c \in Conns : /\ conn'[c].id = conn[c].id
                          /\ \/ conn'[c].step = conn[c].step
                             \/ conn[c].step = "loop" /\ conn'[c].step = "remove"
    <2>1. PICK hit \in SUBSET {c \in Conns : At(c, "loop")} :
            conn' = [c \in Conns |-> IF c \in hit THEN [conn[c] EXCEPT !.step = AfterBreak]
                                                  ELSE conn[c]]
      BY Zenon DEF Stop
    <2>2. QED
      BY <2>1 DEF TypeOK, AfterBreak, At
  <1>2. UNCHANGED <<peers, nextId>>
    BY Zenon DEF Stop, table
  <1>3. IdsApart'
    BY <1>1, <1>2 DEF TableInv, IdsApart
  <1>4. NotYetAdded'
    BY <1>1, <1>2, Zenon DEF TableInv, NotYetAdded, At
  <1>5. ConnectedHasTask'
    BY <1>1, <1>2 DEF TableInv, ConnectedHasTask
  <1>6. QED
    BY <1>3, <1>4, <1>5, Zenon DEF TableInv

LEMMA ConnStepTable ==
  ASSUME TypeOK, TableInv, NEW c \in Conns, ConnStep(c)
  PROVE  TableInv'
  <1>1. CASE Open(c)
    <2>1. conn[c].step = "closed" /\ conn'[c].step = "banned?"
          /\ \A d \in Conns : d # c => conn'[d] = conn[d]
      BY <1>1, GoFacts, Zenon DEF Open, At
    <2>2. QED
      BY <1>1, <2>1, QuietTable, Zenon DEF Open, table, Owning
  <1>2. CASE CheckBan(c)
    <2>1. conn[c].step = "banned?" /\ conn'[c].step \in {"known?", "closed"}
          /\ \A d \in Conns : d # c => conn'[d] = conn[d]
      BY <1>2, GoFacts, FailFacts, Zenon DEF CheckBan, At
    <2>2. QED
      BY <1>2, <2>1, QuietTable, Zenon DEF CheckBan, table, Owning
  <1>3. CASE CheckAddress(c)
    <2>1. conn[c].step = "known?" /\ conn'[c].step \in {"room?", "closed"}
          /\ \A d \in Conns : d # c => conn'[d] = conn[d]
      BY <1>3, GoFacts, FailFacts, Zenon DEF CheckAddress, At
    <2>2. QED
      BY <1>3, <2>1, QuietTable, Zenon DEF CheckAddress, table, Owning
  <1>4. CASE Handshake(c)
    <2>1. /\ conn[c].step = "handshake"
          /\ \/ conn'[c].step = "closed"
             \/ conn'[c].step = "mark" /\ conn'[c].id = conn[c].id
          /\ \A d \in Conns : d # c => conn'[d] = conn[d]
      <3>1. CASE Fail(c)
        BY <1>4, <3>1, FailFacts, Zenon DEF Handshake, At
      <3>2. CASE Go(c, "mark")
        BY <1>4, <3>2, GoFacts, Zenon DEF Handshake, At
      <3>3. QED
        BY <1>4, <3>1, <3>2, Zenon DEF Handshake
    <2>2. QED
      BY <1>4, <2>1, QuietTable, Zenon DEF Handshake, table
  <1>5. CASE LeaveLoop(c)
    <2>1. conn[c].step = "loop" /\ conn'[c].step = "remove" /\ conn'[c].id = conn[c].id
          /\ \A d \in Conns : d # c => conn'[d] = conn[d]
      BY <1>5, GoFacts, Zenon DEF LeaveLoop, AfterBreak, At
    <2>2. QED
      BY <1>5, <2>1, QuietTable, Zenon DEF LeaveLoop, table
  <1>6. CASE Receive(c)
    BY <1>6 DEF Receive, table, TableInv, IdsApart, NotYetAdded, ConnectedHasTask, At
  <1>7. CASE Unindex(c)
    <2>1. conn[c].step = "unindex" /\ conn'[c].step = "closed"
          /\ \A d \in Conns : d # c => conn'[d] = conn[d]
      BY <1>7, FailFacts, Zenon DEF Unindex, At
    <2>2. QED
      BY <1>7, <2>1, QuietTable, Zenon DEF Unindex, Owning
  <1>8. CASE IndexAddress(c)
    <2>1. conn[c].step = "index" /\ conn'[c].step = "handshake" /\ conn'[c].id = conn[c].id
          /\ \A d \in Conns : d # c => conn'[d] = conn[d]
      BY <1>8, GoFacts, Zenon DEF IndexAddress, At
    <2>2. QED
      BY <1>8, <2>1, QuietTable, Zenon DEF IndexAddress
  <1>9. QED
    BY <1>1, <1>2, <1>3, <1>4, <1>5, <1>6, <1>7, <1>8, CheckRoomTable, InsertPeerTable,
       MarkConnectedTable, RemovePeerTable, Zenon DEF ConnStep

LEMMA StepTable ==
  ASSUME TypeOK, TableInv, [Next]_vars
  PROVE  TableInv'
  <1>1. CASE UNCHANGED <<peers, nextId, conn>>
    BY <1>1 DEF TableInv, IdsApart, NotYetAdded, ConnectedHasTask, At
  <1>2. CASE AdminUnindex
    BY <1>1, <1>2, Zenon DEF AdminUnindex
  <1>3. ASSUME NEW a \in Addresses, Ban(a) \/ BanExpires(a)
        PROVE  TableInv'
    BY <1>1, <1>3, AdminRemoveTable, Zenon DEF Ban, BanExpires
  <1>4. ASSUME NEW i \in DOMAIN peers, Disconnect(i)
        PROVE  TableInv'
    BY <1>4, AdminRemoveTable, Zenon DEF Disconnect
  <1>5. CASE Pump
    BY <1>1, <1>5, Zenon DEF Pump, table
  <1>6. ASSUME NEW s \in Subscribers, Subscribe(s) \/ Unsubscribe(s)
        PROVE  TableInv'
    BY <1>1, <1>6, Zenon DEF Subscribe, Unsubscribe, table
  <1>7. CASE UNCHANGED vars
    BY <1>1, <1>7, Zenon DEF vars, table
  <1>8. QED
    BY <1>2, <1>3, <1>4, <1>5, <1>6, <1>7, ConnStepTable, StopTable, Zenon DEF Next

-----------------------------------------------------------------------------
(* The message channel. *)

LEMMA PrefixElements ==
  ASSUME NEW S, NEW s \in Seq(S), NEW t \in Seq(S)
  PROVE  BeginsWith(t, s) <=> Len(s) <= Len(t) /\ \A i \in 1 .. Len(s) : s[i] = t[i]
  <1>1. CASE Len(s) <= Len(t)
    <2>1. SubSeq(s, 1, Len(s)) = s
      OBVIOUS
    <2>2. SubSeq(t, 1, Len(s)) \in Seq(S) /\ Len(SubSeq(t, 1, Len(s))) = Len(s)
          /\ \A i \in 1 .. Len(s) : SubSeq(t, 1, Len(s))[i] = t[i]
      BY <1>1
    <2>3. s = SubSeq(t, 1, Len(s)) <=> \A i \in 1 .. Len(s) : s[i] = t[i]
      BY <2>2
    <2>4. QED
      BY <1>1, <2>1, <2>3, Zenon DEF BeginsWith
  <1>2. CASE ~(Len(s) <= Len(t))
    BY <1>2, Zenon DEF BeginsWith
  <1>3. QED
    BY <1>1, <1>2, Zenon

LEMMA PrefixOfAppend ==
  ASSUME NEW S, NEW s \in Seq(S), NEW t \in Seq(S), NEW m \in S, BeginsWith(t, s)
  PROVE  BeginsWith(Append(t, m), s)
  <1>1. /\ Append(t, m) \in Seq(S) /\ Len(Append(t, m)) = Len(t) + 1
        /\ \A i \in 1 .. Len(t) : Append(t, m)[i] = t[i]
    OBVIOUS
  <1>2. Len(s) <= Len(t) /\ \A i \in 1 .. Len(s) : s[i] = t[i]
    BY PrefixElements, Zenon
  <1>3. Len(s) \in Nat /\ Len(t) \in Nat
    OBVIOUS
  <1>4. Len(s) <= Len(Append(t, m)) /\ \A i \in 1 .. Len(s) : s[i] = Append(t, m)[i]
    BY <1>1, <1>2, <1>3
  <1>5. QED
    BY <1>1, <1>4, PrefixElements, Zenon

LEMMA PrefixOfConcat ==
  ASSUME NEW S, NEW s \in Seq(S), NEW q \in Seq(S)
  PROVE  BeginsWith(s \o q, s)
  <1>1. /\ s \o q \in Seq(S) /\ Len(s \o q) = Len(s) + Len(q)
        /\ \A i \in 1 .. Len(s) : (s \o q)[i] = s[i]
    OBVIOUS
  <1>2. Len(s) \in Nat /\ Len(q) \in Nat
    OBVIOUS
  <1>3. Len(s) <= Len(s \o q) /\ \A i \in 1 .. Len(s) : s[i] = (s \o q)[i]
    BY <1>1, <1>2
  <1>4. QED
    BY <1>1, <1>3, PrefixElements, Zenon

LEMMA MoveHead ==
  ASSUME NEW S, NEW s \in Seq(S), NEW q \in Seq(S), q # <<>>
  PROVE  Append(s, Head(q)) \o Tail(q) = s \o q
  OBVIOUS

LEMMA AppendAfter ==
  ASSUME NEW S, NEW s \in Seq(S), NEW q \in Seq(S), NEW m \in S
  PROVE  s \o Append(q, m) = Append(s \o q, m)
  OBVIOUS

LEMMA InitStream == Init => StreamInv
  BY NetworkAssumption, Zenon DEF Init, StreamInv, OneStream

\* A received message joins both the channel and the history.
LEMMA ReceiveStream ==
  ASSUME TypeOK, StreamInv, NEW c \in Conns, Receive(c)
  PROVE  StreamInv'
  <1> DEFINE m == Len(received) + 1
  <1>1. m \in Messages
    BY NetworkAssumption DEF TypeOK, Receive
  <1>2. received' = Append(received, m) /\ queue' = Append(queue, m)
        /\ UNCHANGED <<owner, pumping, delivered>>
    BY Zenon DEF Receive
  <1> HIDE DEF m
  <1>3. owner = Nobody => ~pumping /\ queue' = received'
    BY <1>2, Zenon DEF StreamInv
  <1>4. pumping => owner \in Subscribers /\ delivered[owner] \o queue' = received'
    <2> SUFFICES ASSUME pumping PROVE owner \in Subscribers /\ delivered[owner] \o queue' = received'
      BY Zenon
    <2>1. owner \in Subscribers /\ delivered[owner] \o queue = received
      BY Zenon DEF StreamInv
    <2>2. delivered[owner] \in Seq(Messages) /\ queue \in Seq(Messages)
      BY <2>1, Zenon DEF TypeOK
    <2>3. delivered[owner] \o Append(queue, m) = Append(delivered[owner] \o queue, m)
      <3> DEFINE d == delivered[owner]
      <3>1. d \in Seq(Messages)
        BY <2>2, Zenon
      <3> HIDE DEF d, Messages
      <3>2. d \o Append(queue, m) = Append(d \o queue, m)
        BY <1>1, <2>2, <3>1, AppendAfter
      <3>3. QED
        BY <3>2, Zenon DEF d
    <2>4. QED
      BY <1>2, <2>1, <2>3, Zenon
  <1>5. \A s \in Subscribers :
          IF s = owner THEN BeginsWith(received', delivered[s]) ELSE delivered[s] = <<>>
    <2> TAKE s \in Subscribers
    <2>1. CASE s = owner
      <3>1. BeginsWith(received, delivered[s])
        BY <2>1, Zenon DEF StreamInv, OneStream
      <3>2. delivered[s] \in Seq(Messages) /\ received \in Seq(Messages)
        BY Zenon DEF TypeOK
      <3>3. QED
        BY <1>1, <1>2, <2>1, <3>1, <3>2, PrefixOfAppend, Zenon
    <2>2. CASE s # owner
      BY <2>2, Zenon DEF StreamInv, OneStream
    <2>3. QED
      BY <2>1, <2>2, Zenon
  <1>6. QED
    BY <1>2, <1>3, <1>4, <1>5, Zenon DEF StreamInv, OneStream

\* The first subscriber takes a channel that holds all that was received.
LEMMA SubscribeStream ==
  ASSUME TypeOK, StreamInv, NEW s \in Subscribers, Subscribe(s)
  PROVE  StreamInv'
  <1>1. CASE owner # Nobody
    BY <1>1, Zenon DEF Subscribe, Takes, StreamInv, OneStream
  <1>2. CASE owner = Nobody
    <2>1. /\ owner' = s /\ pumping' = TRUE /\ delivered[s] = <<>> /\ queue = received
          /\ UNCHANGED <<queue, delivered, received>>
      BY <1>2, Zenon DEF Subscribe, Takes, StreamInv
    <2>2. received \in Seq(Messages) /\ <<>> \in Seq(Messages)
      BY DEF TypeOK
    <2>3. <<>> \o received = received
      BY <2>2
    <2>4. BeginsWith(received, <<>>)
      BY <2>2, <2>3, PrefixOfConcat, Zenon
    <2>5. \A t \in Subscribers : delivered[t] = <<>>
      BY <1>2, NetworkAssumption, Zenon DEF StreamInv, OneStream
    <2>6. s # Nobody
      BY NetworkAssumption, Zenon
    <2>7. QED
      BY <2>1, <2>3, <2>4, <2>5, <2>6, Zenon DEF StreamInv, OneStream
  <1>3. QED
    BY <1>1, <1>2, Zenon

\* A delivered message moves from the head of the channel to the end of what
\* its owner has; one that meets no receiver ends the forwarding.
LEMMA PumpStream ==
  ASSUME TypeOK, StreamInv, Pump
  PROVE  StreamInv'
  <1>1. /\ pumping /\ queue # <<>> /\ owner \in Subscribers
        /\ delivered[owner] \o queue = received
        /\ queue' = Tail(queue) /\ UNCHANGED <<owner, received>>
        /\ pumping' = (owner \in listening)
    BY Zenon DEF Pump, StreamInv, GoesOn
  <1>2. /\ queue \in Seq(Messages) /\ delivered[owner] \in Seq(Messages)
        /\ Tail(queue) \in Seq(Messages) /\ Head(queue) \in Messages
        /\ owner # Nobody
    BY <1>1, NetworkAssumption DEF TypeOK
  <1>3. CASE owner \in listening
    <2> DEFINE d == Append(delivered[owner], Head(queue))
    <2>1. /\ delivered'[owner] = d
          /\ \A s \in Subscribers : s # owner => delivered'[s] = delivered[s]
      BY <1>1, <1>3, Zenon DEF Pump, TypeOK
    <2>2. d \in Seq(Messages) /\ d \o Tail(queue) = received
      BY <1>1, <1>2, MoveHead, SMTT(30)
    <2> HIDE DEF d
    <2>3. BeginsWith(received, d)
      BY <1>2, <2>2, PrefixOfConcat, Zenon
    <2>4. QED
      BY <1>1, <1>2, <2>1, <2>2, <2>3, Zenon DEF StreamInv, OneStream
  <1>4. CASE owner \notin listening
    BY <1>1, <1>2, <1>4, Zenon DEF StreamInv, OneStream, Pump
  <1>5. QED
    BY <1>3, <1>4, Zenon

LEMMA StepStream ==
  ASSUME TypeOK, StreamInv, [Next]_vars
  PROVE  StreamInv'
  <1>1. CASE UNCHANGED <<queue, owner, pumping, delivered, received>>
    BY <1>1, Zenon DEF StreamInv, OneStream
  <1>2. ASSUME NEW c \in Conns, ConnStep(c), ~Receive(c)
        PROVE  StreamInv'
    <2>1. UNCHANGED channel
      BY <1>2, Zenon DEF ConnStep, Open, CheckBan, CheckAddress, CheckRoom, InsertPeer, IndexAddress,
         Handshake, MarkConnected, LeaveLoop, RemovePeer, Unindex
    <2>2. QED
      BY <1>1, <2>1, Zenon DEF channel
  <1>3. ASSUME NEW i \in DOMAIN peers, Disconnect(i)
        PROVE  StreamInv'
    BY <1>1, <1>3, Zenon DEF Disconnect, channel
  <1>4. ASSUME NEW a \in Addresses, Ban(a) \/ BanExpires(a)
        PROVE  StreamInv'
    BY <1>1, <1>4, Zenon DEF Ban, BanExpires, channel
  <1>5. CASE AdminUnindex \/ Stop
    BY <1>1, <1>5, Zenon DEF AdminUnindex, Stop, channel
  <1>6. ASSUME NEW s \in Subscribers, Unsubscribe(s)
        PROVE  StreamInv'
    BY <1>1, <1>6, Zenon DEF Unsubscribe
  <1>7. CASE UNCHANGED vars
    BY <1>1, <1>7, Zenon DEF vars, channel
  <1>8. QED
    BY <1>2, <1>3, <1>4, <1>5, <1>6, <1>7, ReceiveStream, SubscribeStream, PumpStream, Zenon DEF Next

-----------------------------------------------------------------------------
(* The theorems. *)

LEMMA StepType ==
  ASSUME TypeOK, TableInv, [Next]_vars
  PROVE  TypeOK'
  <1>1. CASE UNCHANGED vars
    BY <1>1, Zenon DEF vars, table, channel, TypeOK
  <1>2. CASE Next
    BY <1>2, ConnStepType, OtherStepType, Zenon DEF TableInv
  <1>3. QED
    BY <1>1, <1>2, Zenon

\* Every value of the peer manager and of the network has its type.
THEOREM TypeCorrect == Spec => []TypeOK
  <1>1. Init => TypeOK /\ TableInv
    BY InitType, InitTable, Zenon
  <1>2. TypeOK /\ TableInv /\ [Next]_vars => (TypeOK /\ TableInv)'
    BY StepType, StepTable, Zenon
  <1>3. QED
    BY <1>1, <1>2, PTL DEF Spec

LEMMA TableAlways == Spec => []TableInv
  <1>1. Init => TableInv
    BY InitTable, Zenon
  <1>2. TypeOK /\ TableInv /\ [Next]_vars => TableInv'
    BY StepTable, Zenon
  <1>3. QED
    BY <1>1, <1>2, TypeCorrect, PTL DEF Spec

\* A peer the table calls connected has a connection task in its message loop
\* or about to call remove_peer.
THEOREM ConnectedAlwaysHasTask == Spec => []ConnectedHasTask
  <1>1. TableInv => ConnectedHasTask
    BY Zenon DEF TableInv
  <1>2. QED
    BY <1>1, TableAlways, PTL

\* subscribe hands the receiver out once: its owner gets a gapless prefix of
\* the received messages, in order, and nobody else gets any.
THEOREM OneStreamHolds == Spec => []OneStream
  <1>1. Init => StreamInv
    BY InitStream, Zenon
  <1>2. TypeOK /\ StreamInv /\ [Next]_vars => StreamInv'
    BY StepStream, Zenon
  <1>3. StreamInv => OneStream
    BY Zenon DEF StreamInv
  <1>4. QED
    BY <1>1, <1>2, <1>3, TypeCorrect, PTL DEF Spec

-----------------------------------------------------------------------------
(***************************************************************************)
(* The sentinel.  A cache entry holds only hashes that were delivered for  *)
(* its key, whatever the cache forgot, so a hash it finds there is a real  *)
(* first one; and evidence travels through the file with the deliveries    *)
(* that justify it behind it, because deliveries are never undone.         *)
(***************************************************************************)
SenMessages == [height : SenHeights, round : SenRounds, id : SenIds, hash : SenHashes]

Justified ==
    {e \in [kind : {"proposal", "vote"}, id : SenIds, height : SenHeights, round : SenRounds,
            hash1 : SenHashes, hash2 : SenHashes] :
        /\ e.hash1 # e.hash2
        /\ SenSent(e.kind, e.height, e.round, e.id, e.hash2)
        /\ \E id \in SenIds : SenSent(e.kind, e.height, e.round, id, e.hash1)
                              /\ (e.kind = "vote" => id = e.id)}

ProposalEntries ==
    {c \in [key : SenHeights \X SenRounds, hashes : SUBSET SenHashes] :
        \A h \in c.hashes : \E id \in SenIds : SenSent("proposal", c.key[1], c.key[2], id, h)}

VoteEntries ==
    {c \in [key : SenHeights \X SenRounds \X SenIds, hashes : SUBSET SenHashes] :
        \A h \in c.hashes : SenSent("vote", c.key[1], c.key[2], c.key[3], h)}

SenInv ==
    /\ DOMAIN sen = {"height", "proposals", "votes", "evidence", "missed", "anomalies", "reports"}
    /\ DOMAIN senFile = {"at", "height", "anomalies", "evidence"}
    /\ DOMAIN senSaving = {"at", "height", "anomalies", "evidence"}
    /\ sen.proposals \in Seq(ProposalEntries) /\ sen.votes \in Seq(VoteEntries)
    /\ sen.evidence \in Seq(Justified)
    /\ senFile.evidence \in Seq(Justified) /\ senSaving.evidence \in Seq(Justified)

LEMMA SeqGrows == ASSUME NEW A, NEW B, A \subseteq B PROVE Seq(A) \subseteq Seq(B)
OBVIOUS

LEMMA SeqParts ==
    ASSUME NEW S
    PROVE  /\ \A e \in S : <<e>> \in Seq(S)
           /\ \A a, b \in Seq(S) : a \o b \in Seq(S)
OBVIOUS

(* A hash seen under a key is held by an entry of the cache for that key.   *)
LEMMA SeenFacts ==
    ASSUME NEW S, NEW cache \in Seq(S), NEW key
    PROVE  \A h \in Seen(cache, key) : \E c \in S : c.key = key /\ h \in c.hashes
<1>1. \A i \in DOMAIN cache : cache[i] \in S
  OBVIOUS
<1> QED BY <1>1, Zenon DEF Seen

(* What one delivery adds justifies no less than before.                    *)
LEMMA DeliveriesStay ==
    ASSUME senDelivered \subseteq senDelivered'
    PROVE  /\ Seq(ProposalEntries) \subseteq Seq(ProposalEntries')
           /\ Seq(VoteEntries) \subseteq Seq(VoteEntries')
           /\ Seq(Justified) \subseteq Seq(Justified')
<1>1. ASSUME NEW k, NEW h, NEW r, NEW i, NEW b, SenSent(k, h, r, i, b) PROVE SenSent(k, h, r, i, b)'
  BY <1>1, Zenon DEF SenSent
<1>2. ProposalEntries \subseteq ProposalEntries'
  BY <1>1, Zenon DEF ProposalEntries
<1>3. VoteEntries \subseteq VoteEntries'
  BY <1>1, Zenon DEF VoteEntries
<1>4. Justified \subseteq Justified'
  BY <1>1, Zenon DEF Justified
<1> QED BY <1>2, <1>3, <1>4, SeqGrows, Zenon

(* The cache keeps the entries it had, some of them, and the one it notes.  *)
LEMMA NotedKeeps ==
    ASSUME NEW S, NEW cache \in Seq(S), NEW key, NEW hash,
           [key |-> key, hashes |-> Seen(cache, key) \cup {hash}] \in S
    PROVE  Noted(cache, key, hash) \in Seq(S)
<1> DEFINE entry == [key |-> key, hashes |-> Seen(cache, key) \cup {hash}]
           held == {i \in DOMAIN cache : cache[i].key = key}
           at == CHOOSE i \in held : TRUE
<1>1. ForgetKey(cache, key) \in Seq(S)
  <2>1. CASE held = {}
    BY <2>1, Zenon DEF ForgetKey
  <2>2. CASE held # {}
    <3>1. at \in DOMAIN cache
      BY <2>2, Zenon
    <3>2. ForgetKey(cache, key) = SubSeq(cache, 1, at - 1) \o SubSeq(cache, at + 1, Len(cache))
      BY <2>2, Zenon DEF ForgetKey
    <3> HIDE DEF at
    <3>3. SubSeq(cache, 1, at - 1) \in Seq(S) /\ SubSeq(cache, at + 1, Len(cache)) \in Seq(S)
      BY <3>1
    <3> QED BY <3>2, <3>3
  <2> QED BY <2>1, <2>2, Zenon
<1> DEFINE all == <<entry>> \o ForgetKey(cache, key)
<1>2. all \in Seq(S)
  <2> HIDE DEF entry
  <2>1. entry \in S
    BY Zenon DEF entry
  <2> QED BY <1>1, <2>1
<1>3. Noted(cache, key, hash) = SubSeq(all, 1, IF Len(all) < SenCacheSize THEN Len(all) ELSE SenCacheSize)
  BY Zenon DEF Noted
<1> HIDE DEF all
<1> QED BY <1>2, <1>3, SenAssumption

LEMMA NoneCounted == Cardinality({}) = 0
BY Zenon DEF Cardinality

(* Evidence accuses with a hash of the cache and the one delivered.         *)
LEMMA EvidenceFacts ==
    ASSUME NEW kind \in {"proposal", "vote"}, NEW m \in SenMessages, NEW hashes \in SUBSET SenHashes,
           SenSent(kind, m.height, m.round, m.id, m.hash)',
           \A h \in hashes : \E id \in SenIds : SenSent(kind, m.height, m.round, id, h)'
                                               /\ (kind = "vote" => id = m.id)
    PROVE  Evidence(kind, m, hashes) \in Seq(Justified')
<1>1. CASE ~SenIsDouble(hashes, m.hash)
  BY <1>1 DEF Evidence
<1>2. CASE SenIsDouble(hashes, m.hash)
  <2> DEFINE first == CHOOSE h \in hashes : TRUE
             e == [kind |-> kind, id |-> m.id, height |-> m.height, round |-> m.round,
                   hash1 |-> first, hash2 |-> m.hash]
  <2>1. hashes # {} /\ m.hash \notin hashes
    BY <1>2, NoneCounted DEF SenIsDouble
  <2>2. first \in hashes
    BY <2>1, Zenon
  <2>3. Evidence(kind, m, hashes) = <<e>>
    BY <1>2, Zenon DEF Evidence
  <2> HIDE DEF first
  <2>4. e \in Justified'
    BY <2>1, <2>2, Zenon DEF Justified, SenMessages
  <2> HIDE DEF e
  <2> QED BY <2>3, <2>4, SeqParts, Zenon
<1> QED BY <1>1, <1>2, Zenon

LEMMA ProposalKeeps ==
    ASSUME SenInv, NEW m \in SenMessages, handle_proposal(m)
    PROVE  SenInv'
<1> DEFINE key == <<m.height, m.round>>
           seen == Seen(sen.proposals, key)
           found == Evidence("proposal", m, seen)
<1>1. /\ senDelivered' = senDelivered \cup {[kind |-> "proposal", m |-> m]}
      /\ UNCHANGED <<senFile, senSaving>>
      /\ sen'.proposals = Noted(sen.proposals, key, m.hash) /\ sen'.votes = sen.votes
      /\ sen'.evidence = sen.evidence \o found /\ DOMAIN sen' = DOMAIN sen
  BY Zenon DEF handle_proposal, SenCalled, SenInv
<1>2. /\ Seq(ProposalEntries) \subseteq Seq(ProposalEntries')
      /\ Seq(VoteEntries) \subseteq Seq(VoteEntries')
      /\ Seq(Justified) \subseteq Seq(Justified')
  BY <1>1, DeliveriesStay, Zenon
<1>3. SenSent("proposal", m.height, m.round, m.id, m.hash)'
  <2>1. m = [height |-> m.height, round |-> m.round, id |-> m.id, hash |-> m.hash]
    BY Zenon DEF SenMessages
  <2> QED BY <1>1, <2>1, Zenon DEF SenSent
<1>4. sen.proposals \in Seq(ProposalEntries')
  BY <1>2, Zenon DEF SenInv
<1>5. /\ seen \in SUBSET SenHashes
      /\ \A h \in seen : \E id \in SenIds : SenSent("proposal", m.height, m.round, id, h)'
  <2>1. \A h \in seen : \E c \in ProposalEntries' : c.key = key /\ h \in c.hashes
    BY <1>4, SeenFacts
  <2>2. ASSUME NEW h \in seen
        PROVE  h \in SenHashes /\ \E id \in SenIds : SenSent("proposal", m.height, m.round, id, h)'
    <3>1. PICK c \in ProposalEntries' : c.key = key /\ h \in c.hashes
      BY <2>1, Zenon
    <3>2. c.key[1] = m.height /\ c.key[2] = m.round
      BY <3>1
    <3> QED BY <3>1, <3>2, Zenon DEF ProposalEntries
  <2> QED BY <2>2, Zenon
<1>6. found \in Seq(Justified')
  BY <1>3, <1>5, EvidenceFacts, Zenon
<1>7. sen'.proposals \in Seq(ProposalEntries')
  <2>1. m.height \in SenHeights /\ m.round \in SenRounds /\ m.id \in SenIds /\ m.hash \in SenHashes
    BY Zenon DEF SenMessages
  <2>2. [key |-> key, hashes |-> seen \cup {m.hash}] \in ProposalEntries'
    BY <1>3, <1>5, <2>1, Zenon DEF ProposalEntries
  <2> QED BY <1>1, <1>4, <2>2, NotedKeeps, Zenon
<1>8. sen'.evidence \in Seq(Justified')
  <2> HIDE DEF found
  <2>1. sen.evidence \in Seq(Justified')
    BY <1>2, Zenon DEF SenInv
  <2> QED BY <1>1, <1>6, <2>1, SeqParts, Zenon
<1> QED BY <1>1, <1>2, <1>7, <1>8, Zenon DEF SenInv

LEMMA VoteKeeps ==
    ASSUME SenInv, NEW m \in SenMessages, handle_vote(m)
    PROVE  SenInv'
<1> DEFINE key == <<m.height, m.round, m.id>>
           seen == Seen(sen.votes, key)
           found == Evidence("vote", m, seen)
<1>1. /\ senDelivered' = senDelivered \cup {[kind |-> "vote", m |-> m]}
      /\ UNCHANGED <<senFile, senSaving>>
      /\ sen'.votes = Noted(sen.votes, key, m.hash) /\ sen'.proposals = sen.proposals
      /\ sen'.evidence = sen.evidence \o found /\ DOMAIN sen' = DOMAIN sen
  BY Zenon DEF handle_vote, SenCalled, SenInv
<1>2. /\ Seq(ProposalEntries) \subseteq Seq(ProposalEntries')
      /\ Seq(VoteEntries) \subseteq Seq(VoteEntries')
      /\ Seq(Justified) \subseteq Seq(Justified')
  BY <1>1, DeliveriesStay, Zenon
<1>3. SenSent("vote", m.height, m.round, m.id, m.hash)'
  <2>1. m = [height |-> m.height, round |-> m.round, id |-> m.id, hash |-> m.hash]
    BY Zenon DEF SenMessages
  <2> QED BY <1>1, <2>1, Zenon DEF SenSent
<1>4. sen.votes \in Seq(VoteEntries')
  BY <1>2, Zenon DEF SenInv
<1>5. /\ seen \in SUBSET SenHashes
      /\ \A h \in seen : SenSent("vote", m.height, m.round, m.id, h)'
  <2>1. \A h \in seen : \E c \in VoteEntries' : c.key = key /\ h \in c.hashes
    BY <1>4, SeenFacts
  <2>2. ASSUME NEW h \in seen
        PROVE  h \in SenHashes /\ SenSent("vote", m.height, m.round, m.id, h)'
    <3>1. PICK c \in VoteEntries' : c.key = key /\ h \in c.hashes
      BY <2>1, Zenon
    <3>2. c.key[1] = m.height /\ c.key[2] = m.round /\ c.key[3] = m.id
      BY <3>1
    <3> QED BY <3>1, <3>2, Zenon DEF VoteEntries
  <2> QED BY <2>2, Zenon
<1>6. m.height \in SenHeights /\ m.round \in SenRounds /\ m.id \in SenIds /\ m.hash \in SenHashes
  BY Zenon DEF SenMessages
<1>7. found \in Seq(Justified')
  BY <1>3, <1>5, <1>6, EvidenceFacts, Zenon
<1>8. sen'.votes \in Seq(VoteEntries')
  <2>1. [key |-> key, hashes |-> seen \cup {m.hash}] \in VoteEntries'
    BY <1>3, <1>5, <1>6, Zenon DEF VoteEntries
  <2> QED BY <1>1, <1>4, <2>1, NotedKeeps, Zenon
<1>9. sen'.evidence \in Seq(Justified')
  <2> HIDE DEF found
  <2>1. sen.evidence \in Seq(Justified')
    BY <1>2, Zenon DEF SenInv
  <2> QED BY <1>1, <1>7, <2>1, SeqParts, Zenon
<1> QED BY <1>1, <1>2, <1>8, <1>9, Zenon DEF SenInv

LEMMA SenNextKeeps == SenInv /\ [SenNext \/ SenTaskNext]_senVars => SenInv'
<1> SUFFICES ASSUME SenInv, [SenNext \/ SenTaskNext]_senVars PROVE SenInv'
  BY Zenon
<1>1. CASE \E h \in SenHeights, r \in SenRounds, id \in SenIds, b \in SenHashes :
             LET m == [height |-> h, round |-> r, id |-> id, hash |-> b]
             IN handle_proposal(m) \/ handle_vote(m)
  <2>1. PICK m \in SenMessages : handle_proposal(m) \/ handle_vote(m)
    BY <1>1, Zenon DEF SenMessages
  <2> QED BY <2>1, ProposalKeeps, VoteKeeps, Zenon
<1>2. ASSUME UNCHANGED <<senDelivered>>,
             DOMAIN sen' = DOMAIN sen /\ DOMAIN senFile' = DOMAIN senFile,
             DOMAIN senSaving' = DOMAIN senSaving,
             sen'.proposals \in {sen.proposals, <<>>}, sen'.votes \in {sen.votes, <<>>},
             {sen'.evidence, senFile'.evidence, senSaving'.evidence} \subseteq
                 {<<>>, sen.evidence, senFile.evidence, senSaving.evidence}
      PROVE  SenInv'
  <2>1. /\ Seq(ProposalEntries) \subseteq Seq(ProposalEntries')
        /\ Seq(VoteEntries) \subseteq Seq(VoteEntries')
        /\ Seq(Justified) \subseteq Seq(Justified')
    BY <1>2, DeliveriesStay, Zenon
  <2>2. /\ <<>> \in Seq(ProposalEntries') /\ sen.proposals \in Seq(ProposalEntries')
        /\ <<>> \in Seq(VoteEntries') /\ sen.votes \in Seq(VoteEntries')
    BY <2>1 DEF SenInv
  <2>3. /\ <<>> \in Seq(Justified') /\ sen.evidence \in Seq(Justified')
        /\ senFile.evidence \in Seq(Justified') /\ senSaving.evidence \in Seq(Justified')
    BY <2>1 DEF SenInv
  <2>4. /\ sen'.evidence \in Seq(Justified') /\ senFile'.evidence \in Seq(Justified')
        /\ senSaving'.evidence \in Seq(Justified')
    BY <1>2, <2>3, Zenon
  <2> QED BY <1>2, <2>2, <2>4, Zenon DEF SenInv
<1>3. CASE SaveReads
  BY <1>2, <1>3, Zenon DEF SaveReads, SenInv
<1>4. CASE SaveTruncates
  BY <1>2, <1>4, Zenon DEF SaveTruncates, NoFile, SenInv
<1>5. CASE save_state
  BY <1>2, <1>5, Zenon DEF save_state, NoFile, SenInv
<1>6. CASE load_state
  BY <1>2, <1>6, Zenon DEF load_state, SenInv
<1>7. CASE SenRestarts
  BY <1>2, <1>7, Zenon DEF SenRestarts, FreshSentinel, NoFile, SenInv
<1>8. CASE SenTaskNext \/ UNCHANGED senVars
  <2>1. UNCHANGED <<sen, senFile, senSaving, senDelivered>>
    BY <1>8, Zenon DEF SenTaskNext, start_watching, watch_loop, StopSignals, stop_watching, senVars
  <2> QED BY <1>2, <2>1, Zenon
<1> QED BY <1>1, <1>3, <1>4, <1>5, <1>6, <1>7, <1>8, Zenon DEF SenNext

(* Whatever the caches forget, whatever file a restart loads back and       *)
(* however saves interleave with the detectors, DoubleVote evidence names   *)
(* two votes of the validator it accuses.  About handle_vote, save_state    *)
(* and load_state.                                                          *)
THEOREM EvidenceAlwaysJustified == SenSpec => []EvidenceJustified
<1>1. SenInit => SenInv
  <2> SUFFICES ASSUME SenInit PROVE SenInv
    BY Zenon
  <2>1. sen = FreshSentinel /\ senFile = NoFile /\ senSaving = NoFile
    BY Zenon DEF SenInit
  <2>2. /\ sen.proposals = <<>> /\ sen.votes = <<>> /\ sen.evidence = <<>>
        /\ DOMAIN sen = {"height", "proposals", "votes", "evidence", "missed", "anomalies", "reports"}
    BY <2>1, Zenon DEF FreshSentinel
  <2>3. /\ senFile.evidence = <<>> /\ senSaving.evidence = <<>>
        /\ DOMAIN senFile = {"at", "height", "anomalies", "evidence"}
        /\ DOMAIN senSaving = {"at", "height", "anomalies", "evidence"}
    BY <2>1, Zenon DEF NoFile
  <2> QED BY <2>2, <2>3 DEF SenInv
<1>2. SenInv => EvidenceJustified
  <2> SUFFICES ASSUME SenInv, NEW i \in DOMAIN sen.evidence PROVE sen.evidence[i] \in Justified
    BY Zenon DEF EvidenceJustified, Justified, SenSent
  <2> QED BY DEF SenInv
<1> QED BY <1>1, <1>2, SenNextKeeps, PTL DEF SenSpec

=============================================================================
