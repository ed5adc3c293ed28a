----------------------- MODULE WingMeterClient_proofs -----------------------
(***************************************************************************)
(* Proofs about the metering client: its types, that packets are decoded   *)
(* with the groups they were sent for, and that a subscribed client always *)
(* has a way back to its meters.                                           *)
(***************************************************************************)
EXTENDS WingMeterClient, TLAPS

USE SetsAssumption

(* What subscribing does to the variables it sets. *)
LEMMA SubscribeStep ==
    ASSUME TypeOK, NEW more \in SUBSET Extras, SubscribeWith(more)
    PROVE  /\ wanted' = TRUE /\ keepalive' = TRUE
           /\ reportId' \in Ids /\ reportId' # reportId
           /\ \A p \in packets : p.id # reportId'
           /\ layout' = {"base"} \cup more
           /\ layout' \in SUBSET (Extras \cup {"base"})
           /\ \/ /\ tcp # None /\ sock[tcp] = "open"
                 /\ stream' = [on |-> tcp, id |-> reportId', groups |-> layout']
              \/ /\ ~(tcp # None /\ sock[tcp] = "open")
                 /\ stream' = stream
                 /\ stream # None => stream.id # reportId'
           /\ stream' \in Streams \cup {None}
  <1>1. PICK id \in FreshId :
            /\ wanted' = TRUE /\ keepalive' = TRUE
            /\ reportId' = id
            /\ layout' = {"base"} \cup more
            /\ stream' = IF tcp # None /\ sock[tcp] = "open"
                         THEN [on |-> tcp, id |-> id, groups |-> {"base"} \cup more]
                         ELSE stream
    BY DEF SubscribeWith
  <1>2. /\ id \in Ids /\ id # reportId
        /\ \A p \in packets : p.id # id
        /\ stream # None => stream.id # id
    BY <1>1 DEF FreshId
  <1>3. {"base"} \cup more \in SUBSET (Extras \cup {"base"})
    OBVIOUS
  <1>4. tcp # None => tcp \in Sockets
    BY DEF TypeOK
  <1>5. stream' \in Streams \cup {None}
    <2>1. CASE tcp # None /\ sock[tcp] = "open"
      BY <1>1, <1>2, <1>3, <1>4, <2>1 DEF Streams
    <2>2. CASE ~(tcp # None /\ sock[tcp] = "open")
      BY <1>1, <2>2 DEF TypeOK
    <2> QED BY <2>1, <2>2
  <1>6. CASE tcp # None /\ sock[tcp] = "open"
    BY <1>1, <1>2, <1>3, <1>5, <1>6
  <1>7. CASE ~(tcp # None /\ sock[tcp] = "open")
    BY <1>1, <1>2, <1>3, <1>5, <1>7
  <1> QED BY <1>6, <1>7

LEMMA FaultStep ==
    ASSUME TypeOK, NEW f \in Faults, Fault(f)
    PROVE  faults' \in [Faults -> Nat]
  <1>1. faults \in [Faults -> Nat]
    BY DEF TypeOK
  <1>2. faults[f] + 1 \in Nat
    BY <1>1
  <1> QED BY <1>1, <1>2 DEF Fault

LEMMA CutType ==
    ASSUME TypeOK, NEW s, Cut(s)
    PROVE  stream' \in Streams \cup {None}
  BY DEF TypeOK, Cut

-----------------------------------------------------------------------------
(* Types. *)

LEMMA TypeInit == Init => TypeOK
  <1> SUFFICES ASSUME Init PROVE TypeOK
    OBVIOUS
  <1>1. faults \in [Faults -> Nat]
    BY DEF Init
  <1>2. sock \in [Sockets -> {"unused", "connecting", "open", "closing"}]
    BY DEF Init
  <1>3. /\ layout \in SUBSET (Extras \cup {"base"}) /\ packets \in SUBSET Packets
        /\ asked \in SUBSET Extras /\ extras \in SUBSET Extras
        /\ callers \in SUBSET {"owner", "retry"}
    BY DEF Init
  <1>4. wanted <=> reportId # None
    BY DEF Init
  <1> QED BY <1>1, <1>2, <1>3, <1>4 DEF Init, TypeOK

LEMMA RejectedType ==
    ASSUME TypeOK, Rejected
    PROVE  /\ phase' \in {"idle", "tcp", "select", "bind"}
           /\ callers' \in SUBSET {"owner", "retry"}
           /\ retryTimer' \in BOOLEAN
           /\ explicit' \in BOOLEAN
  BY DEF TypeOK, Rejected

(* What Resolved leaves of the types it touches. *)
LEMMA ResolvedType ==
    ASSUME TypeOK, Resolved
    PROVE  /\ phase' \in {"idle", "tcp", "select", "bind"}
           /\ callers' \in SUBSET {"owner", "retry"}
           /\ retryTimer' \in BOOLEAN /\ explicit' \in BOOLEAN
           /\ keepalive' \in BOOLEAN /\ wanted' \in BOOLEAN
           /\ reportId' \in Ids \cup {None} /\ (wanted' <=> reportId' # None)
           /\ layout' \in SUBSET (Extras \cup {"base"})
           /\ stream' \in Streams \cup {None}
  <1>1. CASE "owner" \in callers \/ wanted
    <2>1. SubscribeWith(extras)
      BY <1>1 DEF Resolved
    <2>2. extras \in SUBSET Extras
      BY DEF TypeOK
    <2> QED BY <2>1, <2>2, SubscribeStep DEF Resolved, TypeOK
  <1>2. CASE ~("owner" \in callers \/ wanted)
    BY <1>2 DEF Resolved, TypeOK, subscription
  <1> QED BY <1>1, <1>2

LEMMA TypeStep == TypeOK /\ [Next]_vars => TypeOK'
  <1> SUFFICES ASSUME TypeOK, [Next]_vars PROVE TypeOK'
    OBVIOUS
  <1> USE DEF recovery, sockets, subscription, groups, life, console
  <1>1. CASE OwnerConnect
    BY <1>1 DEF OwnerConnect, Dial, TypeOK
  <1>2. CASE Disconnect
    <2>1. CASE tcp # None
      BY <1>2, <2>1, CutType DEF Disconnect, Forget, TypeOK
    <2>2. CASE tcp = None
      BY <1>2, <2>2 DEF Disconnect, Forget, TypeOK
    <2> QED BY <2>1, <2>2
  <1>3. ASSUME NEW x \in SUBSET Extras, SetExtraRequests(x) PROVE TypeOK'
    <2> DEFINE next == Sized(x, sizes)
    <2>1. next \in SUBSET Extras
      BY DEF Sized
    <2>2. CASE next = extras /\ UNCHANGED <<extras, subscription, stream>>
      BY <1>3, <2>2 DEF SetExtraRequests, TypeOK
    <2>3. CASE next # extras /\ extras' = next /\ wanted /\ SubscribeWith(next)
      <3>1. /\ wanted' = TRUE /\ keepalive' = TRUE /\ reportId' \in Ids
            /\ layout' \in SUBSET (Extras \cup {"base"}) /\ stream' \in Streams \cup {None}
        BY <2>1, <2>3, SubscribeStep
      <3>2. asked' \in SUBSET Extras /\ extras' \in SUBSET Extras
        BY <1>3, <2>1, <2>3 DEF SetExtraRequests
      <3>3. UNCHANGED <<recovery, sockets, sizes, life, packets, faults>>
        BY <1>3 DEF SetExtraRequests
      <3> QED BY <3>1, <3>2, <3>3 DEF TypeOK
    <2>4. CASE next # extras /\ extras' = next /\ ~wanted /\ UNCHANGED <<subscription, stream>>
      BY <1>3, <2>1, <2>4 DEF SetExtraRequests, TypeOK
    <2> QED BY <1>3, <2>2, <2>3, <2>4 DEF SetExtraRequests
  <1>4. CASE SetIoSizes
    <2>1. asked \in SUBSET Extras
      BY DEF TypeOK
    <2>2. CASE asked # {} /\ wanted
      <3>1. SubscribeWith(asked)
        BY <1>4, <2>2 DEF SetIoSizes
      <3>2. /\ wanted' = TRUE /\ keepalive' = TRUE /\ reportId' \in Ids
            /\ layout' \in SUBSET (Extras \cup {"base"}) /\ stream' \in Streams \cup {None}
        BY <2>1, <3>1, SubscribeStep
      <3>3. sizes' = TRUE /\ extras' = asked /\ UNCHANGED <<recovery, sockets, asked, life, packets, faults>>
        BY <1>4 DEF SetIoSizes
      <3> QED BY <2>1, <3>2, <3>3 DEF TypeOK
    <2>3. CASE ~(asked # {} /\ wanted)
      BY <1>4, <2>1, <2>3 DEF SetIoSizes, TypeOK
    <2> QED BY <2>2, <2>3
  <1>5. ASSUME NEW s \in Sockets, TcpConnected(s) PROVE TypeOK'
    BY <1>5 DEF TcpConnected, TypeOK
  <1>6. ASSUME NEW s \in Sockets, TcpRefused(s) PROVE TypeOK'
    <2>1. faults' \in [Faults -> Nat]
      BY <1>6, FaultStep DEF TcpRefused, Faults
    <2>2. CASE owner = "gone"
      <3>1. sock' \in [Sockets -> {"unused", "connecting", "open", "closing"}] /\ unheard' = TRUE
        BY <1>6, <2>2 DEF TcpRefused, TypeOK
      <3>2. UNCHANGED <<recovery, tcp, udp, subscription, groups, owner, awaited, console>>
        BY <1>6, <2>2 DEF TcpRefused
      <3> QED BY <2>1, <3>1, <3>2 DEF TypeOK
    <2>3. CASE owner # "gone"
      BY <1>6, <2>1, <2>3, RejectedType DEF TcpRefused, TypeOK
    <2> QED BY <2>2, <2>3
  <1>7. ASSUME NEW s \in Sockets, TcpDropped(s) PROVE TypeOK'
    <2>1. faults' \in [Faults -> Nat]
      BY <1>7, FaultStep DEF TcpDropped, Faults
    <2>2. stream' \in Streams \cup {None}
      BY <1>7, CutType DEF TcpDropped
    <2>3. unheard' \in BOOLEAN
      BY <1>7 DEF TcpDropped, TypeOK
    <2> QED BY <1>7, <2>1, <2>2, <2>3 DEF TcpDropped, TypeOK
  <1>8. ASSUME NEW s \in Sockets, TcpClosed(s) PROVE TypeOK'
    <2>1. sock' \in [Sockets -> {"unused", "connecting", "open", "closing"}]
      BY <1>8 DEF TcpClosed, TypeOK
    <2>2. tcp' = None /\ keepalive' \in BOOLEAN /\ retryTimer' \in BOOLEAN
      BY <1>8 DEF TcpClosed, TypeOK
    <2>3. /\ udp' \in BOOLEAN /\ owner' \in {"new", "running", "closing", "gone"}
          /\ awaited' \in Sockets \cup {None}
      BY <1>8 DEF TcpClosed, TypeOK
    <2>4. UNCHANGED <<explicit, phase, callers, wanted, reportId, layout, groups, unheard, console, faults>>
      BY <1>8 DEF TcpClosed
    <2> QED BY <2>1, <2>2, <2>3, <2>4 DEF TypeOK
  <1>9. CASE SelectChannel
    <2>1. CASE tcp = None
      <3>1. unheard' \in BOOLEAN
        BY <1>9, <2>1 DEF SelectChannel, TypeOK
      <3>2. Rejected /\ UNCHANGED <<subscription, stream>>
        BY <1>9, <2>1 DEF SelectChannel
      <3>3. UNCHANGED <<sockets, groups, owner, awaited, packets, faults>>
        BY <1>9 DEF SelectChannel
      <3>4. /\ phase' \in {"idle", "tcp", "select", "bind"}
            /\ callers' \in SUBSET {"owner", "retry"}
            /\ retryTimer' \in BOOLEAN /\ explicit' \in BOOLEAN
        BY <3>2, RejectedType
      <3> QED BY <3>1, <3>2, <3>3, <3>4 DEF TypeOK
    <2>2. CASE tcp # None /\ udp
      BY <1>9, <2>2, ResolvedType DEF SelectChannel, TypeOK
    <2>3. CASE tcp # None /\ ~udp
      <3>1. /\ phase' = "bind"
            /\ UNCHANGED <<explicit, callers, retryTimer, unheard, subscription, stream>>
        BY <1>9, <2>3 DEF SelectChannel
      <3>2. UNCHANGED <<sockets, groups, owner, awaited, packets, faults>>
        BY <1>9 DEF SelectChannel
      <3> QED BY <3>1, <3>2 DEF TypeOK
    <2> QED BY <2>1, <2>2, <2>3 DEF TypeOK
  <1>10. CASE BindUdp
    BY <1>10, ResolvedType DEF BindUdp, TypeOK
  <1>11. CASE BindFails
    <2>1. faults' \in [Faults -> Nat]
      BY <1>11, FaultStep DEF BindFails, Faults
    <2>2. CASE owner = "gone"
      <3>1. unheard' = TRUE /\ UNCHANGED <<recovery, sockets, subscription, groups, owner, awaited, console>>
        BY <1>11, <2>2 DEF BindFails
      <3> QED BY <2>1, <3>1 DEF TypeOK
    <2>3. CASE owner # "gone"
      <3>1. Rejected /\ unheard' = unheard
        BY <1>11, <2>3 DEF BindFails
      <3>2. UNCHANGED <<sockets, subscription, groups, owner, awaited, console>>
        BY <1>11 DEF BindFails
      <3>3. /\ phase' \in {"idle", "tcp", "select", "bind"} /\ callers' \in SUBSET {"owner", "retry"}
            /\ retryTimer' \in BOOLEAN /\ explicit' \in BOOLEAN
        BY <3>1, RejectedType
      <3> QED BY <2>1, <3>1, <3>2, <3>3 DEF TypeOK
    <2> QED BY <2>2, <2>3
  <1>12. CASE UdpFails
    <2>1. faults' \in [Faults -> Nat]
      BY <1>12, FaultStep DEF UdpFails, Faults
    <2>2. CASE owner = "gone"
      BY <1>12, <2>1, <2>2 DEF UdpFails, TypeOK
    <2>3. CASE owner # "gone" /\ ~explicit /\ tcp # None
      <3>1. stream' \in Streams \cup {None}
        BY <1>12, <2>3, CutType DEF UdpFails
      <3>2. sock' \in [Sockets -> {"unused", "connecting", "open", "closing"}]
        BY <1>12, <2>3 DEF UdpFails, TypeOK
      <3>3. retryTimer' \in BOOLEAN
        BY <1>12, <2>3 DEF UdpFails, TypeOK
      <3> QED BY <1>12, <2>1, <2>3, <3>1, <3>2, <3>3 DEF UdpFails, TypeOK
    <2>4. CASE owner # "gone" /\ ~(~explicit /\ tcp # None)
      <3>1. retryTimer' \in BOOLEAN
        BY <1>12, <2>4 DEF UdpFails, TypeOK
      <3>2. udp' = FALSE /\ UNCHANGED <<sock, stream, tcp, unheard>>
        BY <1>12, <2>4 DEF UdpFails
      <3>3. UNCHANGED <<explicit, phase, callers, subscription, groups, owner, awaited, packets>>
        BY <1>12 DEF UdpFails
      <3>4. /\ wanted' <=> reportId' # None
            /\ sock' \in [Sockets -> {"unused", "connecting", "open", "closing"}]
            /\ stream' \in Streams \cup {None}
        BY <3>2, <3>3 DEF TypeOK
      <3>5. /\ explicit' \in BOOLEAN /\ phase' \in {"idle", "tcp", "select", "bind"}
            /\ callers' \in SUBSET {"owner", "retry"}
            /\ tcp' \in Sockets \cup {None} /\ udp' \in BOOLEAN /\ unheard' \in BOOLEAN
        BY <3>2, <3>3 DEF TypeOK
      <3>6. /\ keepalive' \in BOOLEAN /\ wanted' \in BOOLEAN
            /\ reportId' \in Ids \cup {None} /\ layout' \in SUBSET (Extras \cup {"base"})
        BY <3>3 DEF TypeOK
      <3>7. /\ asked' \in SUBSET Extras /\ extras' \in SUBSET Extras /\ sizes' \in BOOLEAN
            /\ owner' \in {"new", "running", "closing", "gone"}
            /\ awaited' \in Sockets \cup {None} /\ packets' \in SUBSET Packets
        BY <3>3 DEF TypeOK
      <3> QED BY <2>1, <3>1, <3>4, <3>5, <3>6, <3>7 DEF TypeOK
    <2> QED BY <2>2, <2>3, <2>4
  <1>13. CASE Reconnect
    <2>1. UNCHANGED <<explicit, tcp, udp, subscription, groups, life, console, faults>>
      BY <1>13 DEF Reconnect
    <2>2. retryTimer' \in BOOLEAN
      BY <1>13 DEF Reconnect
    <2>3. /\ phase' \in {"idle", "tcp", "select", "bind"}
          /\ callers' \in SUBSET {"owner", "retry"}
          /\ sock' \in [Sockets -> {"unused", "connecting", "open", "closing"}]
      BY <1>13 DEF Reconnect, Dial, TypeOK
    <2> QED BY <2>1, <2>2, <2>3 DEF TypeOK
  <1>14. CASE StreamExpires
    BY <1>14 DEF StreamExpires, TypeOK
  <1>15. CASE ConsoleSends
    <2>1. stream \in Streams
      BY <1>15 DEF ConsoleSends, TypeOK
    <2>2. [id |-> stream.id, groups |-> stream.groups] \in Packets
      BY <2>1 DEF Streams, Packets
    <2> QED BY <1>15, <2>2 DEF ConsoleSends, TypeOK
  <1>16. ASSUME NEW p \in packets, PacketGone(p) PROVE TypeOK'
    BY <1>16 DEF PacketGone, TypeOK
  <1>17. CASE UNCHANGED vars
    BY <1>17 DEF vars, TypeOK
  <1> QED
    BY <1>1, <1>2, <1>3, <1>4, <1>5, <1>6, <1>7, <1>8, <1>9, <1>10, <1>11, <1>12,
       <1>13, <1>14, <1>15, <1>16, <1>17 DEF Next

(* Every variable keeps its type, and there is a report id exactly while   *)
(* there is a subscription.                                                *)
THEOREM TypeCorrect == Spec => []TypeOK
  BY TypeInit, TypeStep, PTL DEF Spec

-----------------------------------------------------------------------------
(* The id of the current subscription. *)

LEMMA IdsInit == Init => IdsNameGroups
  BY DEF Init, IdsNameGroups

(* Subscribing under a new id makes every packet in flight foreign. *)
LEMMA SubscribeIds ==
    ASSUME TypeOK, NEW more \in SUBSET Extras, SubscribeWith(more), packets' = packets
    PROVE  IdsNameGroups'
  <1>1. \A p \in packets' : p.id # reportId'
    BY SubscribeStep
  <1>2. stream' # None /\ stream'.id = reportId' => stream'.groups = layout'
    <2>1. CASE tcp # None /\ sock[tcp] = "open"
      <3>1. stream' = [on |-> tcp, id |-> reportId', groups |-> layout']
        BY <2>1, SubscribeStep
      <3> QED BY <3>1
    <2>2. CASE ~(tcp # None /\ sock[tcp] = "open")
      BY <2>2, SubscribeStep
    <2> QED BY <2>1, <2>2
  <1> QED BY <1>1, <1>2 DEF IdsNameGroups

LEMMA SameIds ==
    ASSUME IdsNameGroups, packets' \subseteq packets, stream' \in {stream, None},
           UNCHANGED <<reportId, layout>>
    PROVE  IdsNameGroups'
  BY DEF IdsNameGroups

(* No subscription: no packet and no stream has the id None. *)
LEMMA NoId ==
    ASSUME TypeOK, TypeOK', reportId' = None
    PROVE  IdsNameGroups'
  BY DEF TypeOK, IdsNameGroups, Packets, Streams

LEMMA ResolvedIds ==
    ASSUME TypeOK, IdsNameGroups, Resolved, packets' = packets
    PROVE  IdsNameGroups'
  <1>1. CASE "owner" \in callers \/ wanted
    <2>1. SubscribeWith(extras) /\ extras \in SUBSET Extras
      BY <1>1 DEF Resolved, TypeOK
    <2> QED BY <2>1, SubscribeIds
  <1>2. CASE ~("owner" \in callers \/ wanted)
    BY <1>2, SameIds DEF Resolved, subscription
  <1> QED BY <1>1, <1>2

LEMMA IdsStep == TypeOK /\ TypeOK' /\ IdsNameGroups /\ [Next]_vars => IdsNameGroups'
  <1> SUFFICES ASSUME TypeOK, TypeOK', IdsNameGroups, [Next]_vars PROVE IdsNameGroups'
    OBVIOUS
  <1> USE DEF recovery, sockets, subscription, groups, life, console
  <1>1. CASE OwnerConnect
    BY <1>1, SameIds DEF OwnerConnect
  <1>2. CASE Disconnect
    BY <1>2, NoId DEF Disconnect, Forget
  <1>3. ASSUME NEW x \in SUBSET Extras, SetExtraRequests(x) PROVE IdsNameGroups'
    <2>1. Sized(x, sizes) \in SUBSET Extras
      BY DEF Sized
    <2>2. packets' = packets
      BY <1>3 DEF SetExtraRequests
    <2>3. SubscribeWith(Sized(x, sizes)) \/ UNCHANGED <<subscription, stream>>
      BY <1>3 DEF SetExtraRequests
    <2> QED BY <2>1, <2>2, <2>3, SubscribeIds, SameIds
  <1>4. CASE SetIoSizes
    <2>1. asked \in SUBSET Extras /\ packets' = packets
      BY <1>4 DEF SetIoSizes, TypeOK
    <2>2. SubscribeWith(asked) \/ UNCHANGED <<subscription, stream>>
      BY <1>4 DEF SetIoSizes
    <2> QED BY <2>1, <2>2, SubscribeIds, SameIds
  <1>5. ASSUME NEW s \in Sockets, TcpConnected(s) PROVE IdsNameGroups'
    BY <1>5, SameIds DEF TcpConnected
  <1>6. ASSUME NEW s \in Sockets, TcpRefused(s) PROVE IdsNameGroups'
    BY <1>6, SameIds DEF TcpRefused
  <1>7. ASSUME NEW s \in Sockets, TcpDropped(s) PROVE IdsNameGroups'
    BY <1>7, SameIds DEF TcpDropped, Cut
  <1>8. ASSUME NEW s \in Sockets, TcpClosed(s) PROVE IdsNameGroups'
    BY <1>8, SameIds DEF TcpClosed
  <1>9. CASE SelectChannel
    <2>1. packets' = packets
      BY <1>9 DEF SelectChannel
    <2>2. Resolved \/ UNCHANGED <<subscription, stream>>
      BY <1>9 DEF SelectChannel
    <2> QED BY <2>1, <2>2, ResolvedIds, SameIds
  <1>10. CASE BindUdp
    BY <1>10, ResolvedIds DEF BindUdp
  <1>11. CASE BindFails
    BY <1>11, SameIds DEF BindFails
  <1>12. CASE UdpFails
    BY <1>12, SameIds DEF UdpFails, Cut
  <1>13. CASE Reconnect
    BY <1>13, SameIds DEF Reconnect
  <1>14. CASE StreamExpires
    BY <1>14, SameIds DEF StreamExpires
  <1>15. CASE ConsoleSends
    <2>1. /\ stream # None /\ stream' = stream /\ reportId' = reportId /\ layout' = layout
          /\ packets' = packets \cup {[id |-> stream.id, groups |-> stream.groups]}
      BY <1>15 DEF ConsoleSends
    <2> QED BY <2>1 DEF IdsNameGroups
  <1>16. ASSUME NEW p \in packets, PacketGone(p) PROVE IdsNameGroups'
    BY <1>16, SameIds DEF PacketGone
  <1>17. CASE UNCHANGED vars
    BY <1>17, SameIds DEF vars
  <1> QED
    BY <1>1, <1>2, <1>3, <1>4, <1>5, <1>6, <1>7, <1>8, <1>9, <1>10, <1>11, <1>12,
       <1>13, <1>14, <1>15, <1>16, <1>17 DEF Next

(* A packet the client accepts is decoded with the groups it was sent for, *)
(* across every resubscription and reconnection.                           *)
THEOREM PacketsDecodedRight == Spec => []DecodesRight
  <1>1. Init => TypeOK /\ IdsNameGroups
    BY TypeInit, IdsInit
  <1>2. TypeOK /\ IdsNameGroups /\ [Next]_vars => TypeOK' /\ IdsNameGroups'
    BY TypeStep, IdsStep
  <1>3. IdsNameGroups => DecodesRight
    BY DEF IdsNameGroups, DecodesRight, Accepts
  <1> QED BY <1>1, <1>2, <1>3, PTL DEF Spec

-----------------------------------------------------------------------------
(* The way back. *)

LEMMA WayBackInit == Init => WayBack
  BY DEF Init, WayBack, KeepsTrying, Sized

(* Subscribing over an open connection is streaming. *)
LEMMA SubscribeStreams ==
    ASSUME TypeOK, NEW more \in SUBSET Extras, SubscribeWith(more), extras' = more,
           tcp # None, sock[tcp] = "open",
           udp' = TRUE, tcp' = tcp, sock' = sock
    PROVE  Streaming'
  <1>1. /\ stream' = [on |-> tcp, id |-> reportId', groups |-> layout']
        /\ layout' = {"base"} \cup more
        /\ wanted' = TRUE /\ keepalive' = TRUE
    BY SubscribeStep
  <1>2. tcp \in Sockets /\ reportId' \in Ids /\ layout' \in SUBSET (Extras \cup {"base"})
    BY SubscribeStep DEF TypeOK
  <1>3. stream' # None
    BY <1>1, <1>2 DEF Streams
  <1>4. stream'.on = tcp /\ stream'.id = reportId' /\ stream'.groups = layout'
    BY <1>1
  <1> QED BY <1>1, <1>3, <1>4 DEF Streaming, Renewed

(* A change of the groups keeps a client that streams streaming. *)
LEMMA SubscribeKeepsTrying ==
    ASSUME TypeOK, KeepsTrying, wanted, NEW more \in SUBSET Extras, SubscribeWith(more),
           extras' = more, UNCHANGED <<recovery, sockets>>
    PROVE  KeepsTrying'
  <1> USE DEF recovery, sockets
  <1>1. CASE Streaming
    <2>1. tcp # None /\ sock[tcp] = "open" /\ udp
      BY <1>1 DEF Streaming
    <2>2. udp' = TRUE
      BY <2>1 DEF TypeOK
    <2> QED BY <2>1, <2>2, SubscribeStreams DEF KeepsTrying
  <1>2. CASE ~Streaming
    BY <1>2 DEF KeepsTrying
  <1> QED BY <1>1, <1>2

(* When connect() is resolved over a connection that still stands, or is   *)
(* about to report its end, a subscribed client streams or tries again.    *)
LEMMA ResolvedKeepsTrying ==
    ASSUME TypeOK, Resolved, UNCHANGED <<sock, tcp, groups>>, udp' = TRUE,
           tcp # None, sock[tcp] \in {"open", "closing"}
    PROVE  KeepsTrying'
  <1>1. CASE sock[tcp] = "closing"
    BY <1>1 DEF KeepsTrying, TypeOK
  <1>2. CASE sock[tcp] = "open" /\ ("owner" \in callers \/ wanted)
    <2>1. SubscribeWith(extras) /\ extras \in SUBSET Extras
      BY <1>2 DEF Resolved, TypeOK
    <2>2. Streaming'
      BY <1>2, <2>1, SubscribeStreams DEF groups
    <2> QED BY <2>2 DEF KeepsTrying
  <1>3. CASE ~("owner" \in callers \/ wanted)
    BY <1>3 DEF Resolved, subscription, KeepsTrying
  <1> QED BY <1>1, <1>2, <1>3

LEMMA WayBackStep ==
    TypeOK /\ TypeOK' /\ WayBack /\ [Next]_vars => WayBack'
  <1> SUFFICES ASSUME TypeOK, TypeOK', WayBack, [Next]_vars PROVE WayBack'
    OBVIOUS
  <1> DEFINE Tcp == tcp # None => sock[tcp] \in {"open", "closing"}
             Armed == phase \in {"select", "bind"} /\ tcp = None /\ ~explicit => retryTimer
             Again == phase # "idle" /\ wanted => "retry" \in callers
             OneDial == \A s, t \in Sockets :
                 sock[s] = "connecting" => phase = "tcp" /\ (sock[t] = "connecting" => s = t)
             New == owner = "new" =>
                 /\ ~wanted /\ ~retryTimer /\ ~udp /\ phase = "idle"
                 /\ \A s \in Sockets : sock[s] = "unused"
             Kept == extras = Sized(asked, sizes)
  <1>a. KeepsTrying /\ Tcp /\ Armed /\ Again /\ OneDial /\ New /\ Kept
    BY DEF WayBack
  <1>b. ASSUME KeepsTrying', Tcp', Armed', Again', OneDial', New', Kept' PROVE WayBack'
    BY <1>b DEF WayBack
  <1> HIDE DEF Tcp, Armed, Again, OneDial, New, Kept
  <1> USE DEF recovery, sockets, subscription, groups, life, console
  <1>1. CASE OwnerConnect
    <2>1. KeepsTrying'
      BY <1>1 DEF OwnerConnect, Dial, KeepsTrying
    <2>2. Tcp'
      BY <1>1, <1>a DEF OwnerConnect, Dial, Tcp, TypeOK
    <2>3. Armed'
      BY <1>1 DEF OwnerConnect, Dial, Armed
    <2>4. Again'
      BY <1>1, <1>a DEF OwnerConnect, Again, New
    <2>5. OneDial'
      BY <1>1, <1>a DEF OwnerConnect, Dial, OneDial, New, TypeOK
    <2>6. New' /\ Kept'
      BY <1>1, <1>a DEF OwnerConnect, New, Kept
    <2> QED BY <2>1, <2>2, <2>3, <2>4, <2>5, <2>6, <1>b
  <1>2. CASE Disconnect
    <2>1. KeepsTrying' /\ Armed'
      BY <1>2 DEF Disconnect, KeepsTrying, Armed
    <2>2. Tcp' /\ Again' /\ New'
      BY <1>2 DEF Disconnect, Forget, Tcp, Again, New
    <2>3. OneDial'
      BY <1>2, <1>a DEF Disconnect, OneDial, TypeOK
    <2>4. Kept'
      BY <1>2, <1>a DEF Disconnect, Kept
    <2> QED BY <2>1, <2>2, <2>3, <2>4, <1>b
  <1>3. ASSUME NEW x \in SUBSET Extras, SetExtraRequests(x) PROVE WayBack'
    <2> DEFINE next == Sized(x, sizes)
    <2>1. next \in SUBSET Extras
      BY DEF Sized
    <2>2. UNCHANGED <<recovery, sockets, sizes, life, packets, faults>>
      BY <1>3 DEF SetExtraRequests
    <2>3. extras' = next /\ asked' = x
      BY <1>3 DEF SetExtraRequests
    <2>4. wanted' = wanted
      BY <1>3, <2>1, SubscribeStep DEF SetExtraRequests, TypeOK
    <2>5. ASSUME UNCHANGED <<extras, subscription, stream>> PROVE KeepsTrying'
      BY <2>2, <2>5, <1>a DEF KeepsTrying, Streaming, Renewed
    <2>6. ASSUME wanted, SubscribeWith(next) PROVE KeepsTrying'
      BY <2>1, <2>2, <2>3, <2>6, <1>a, SubscribeKeepsTrying
    <2>7. ASSUME ~wanted PROVE KeepsTrying'
      BY <2>4, <2>7 DEF KeepsTrying
    <2>8. KeepsTrying'
      BY <1>3, <2>5, <2>6, <2>7 DEF SetExtraRequests
    <2>9. Kept'
      BY <2>2, <2>3 DEF Kept
    <2>10. Tcp' /\ Armed' /\ Again' /\ OneDial' /\ New'
      BY <2>2, <2>4, <1>a DEF Tcp, Armed, Again, OneDial, New
    <2> QED BY <2>8, <2>9, <2>10, <1>b
  <1>4. CASE SetIoSizes
    <2>1. asked \in SUBSET Extras /\ extras' = asked /\ asked' = asked /\ sizes' = TRUE
      BY <1>4 DEF SetIoSizes, TypeOK
    <2>2. UNCHANGED <<recovery, sockets, asked, life, packets, faults>>
      BY <1>4 DEF SetIoSizes
    <2>3. wanted' = wanted
      BY <1>4, <2>1, SubscribeStep DEF SetIoSizes, TypeOK
    <2>4. ASSUME asked # {}, wanted PROVE KeepsTrying'
      <3>1. SubscribeWith(asked)
        BY <1>4, <2>4 DEF SetIoSizes
      <3> QED BY <2>1, <2>2, <2>4, <3>1, <1>a, SubscribeKeepsTrying
    <2>5. ASSUME asked = {}, wanted PROVE KeepsTrying'
      <3>1. UNCHANGED <<subscription, stream>>
        BY <1>4, <2>5 DEF SetIoSizes
      <3>2. extras = {} /\ extras' = {}
        BY <2>1, <2>5, <1>a DEF Kept, Sized
      <3> QED BY <2>2, <3>1, <3>2, <1>a DEF KeepsTrying, Streaming, Renewed
    <2>6. ASSUME ~wanted PROVE KeepsTrying'
      BY <2>3, <2>6 DEF KeepsTrying
    <2>7. Kept'
      BY <2>1 DEF Kept, Sized
    <2>8. Tcp' /\ Armed' /\ Again' /\ OneDial' /\ New'
      BY <2>2, <2>3, <1>a DEF Tcp, Armed, Again, OneDial, New
    <2> QED BY <2>4, <2>5, <2>6, <2>7, <2>8, <1>b
  <1>5. ASSUME NEW s \in Sockets, TcpConnected(s) PROVE WayBack'
    <2>1. KeepsTrying'
      BY <1>5 DEF TcpConnected, KeepsTrying
    <2>2. Tcp'
      BY <1>5 DEF TcpConnected, Tcp, TypeOK
    <2>3. Armed'
      BY <1>5 DEF TcpConnected, Armed
    <2>4. Again' /\ New'
      BY <1>5, <1>a DEF TcpConnected, Again, OneDial, New
    <2>5. OneDial'
      BY <1>5, <1>a DEF TcpConnected, OneDial, TypeOK
    <2>6. Kept'
      BY <1>5, <1>a DEF TcpConnected, Kept
    <2> QED BY <2>1, <2>2, <2>3, <2>4, <2>5, <2>6, <1>b
  <1>6. ASSUME NEW s \in Sockets, TcpRefused(s) PROVE WayBack'
    <2>1. /\ sock[s] = "connecting" /\ sock' = [sock EXCEPT ![s] = "closing"]
          /\ UNCHANGED <<tcp, udp, subscription, groups, owner, awaited, console>>
      BY <1>6 DEF TcpRefused
    <2>2. Rejected \/ UNCHANGED recovery
      BY <1>6 DEF TcpRefused
    <2>3. sock'[s] = "closing"
      BY <2>1 DEF TypeOK
    <2>4. KeepsTrying'
      BY <2>3 DEF KeepsTrying
    <2>5. Tcp'
      BY <2>1, <1>a DEF Tcp, TypeOK
    <2>6. Armed' /\ Again'
      BY <2>1, <2>2, <1>a DEF Rejected, Armed, Again, OneDial
    <2>7. OneDial'
      BY <2>1, <2>2, <1>a DEF Rejected, OneDial, TypeOK
    <2>8. New' /\ Kept'
      BY <2>1, <1>a DEF New, Kept
    <2> QED BY <2>4, <2>5, <2>6, <2>7, <2>8, <1>b
  <1>7. ASSUME NEW s \in Sockets, TcpDropped(s) PROVE WayBack'
    <2>1. /\ sock[s] = "open" /\ sock' = [sock EXCEPT ![s] = "closing"]
          /\ UNCHANGED <<recovery, tcp, udp, subscription, groups, owner, awaited, packets>>
      BY <1>7 DEF TcpDropped
    <2>2. sock'[s] = "closing"
      BY <2>1 DEF TypeOK
    <2>3. KeepsTrying'
      BY <2>2 DEF KeepsTrying
    <2>4. Tcp' /\ Armed' /\ Again'
      BY <2>1, <1>a DEF Tcp, Armed, Again, TypeOK
    <2>5. OneDial' /\ New' /\ Kept'
      BY <2>1, <1>a DEF OneDial, New, Kept, TypeOK
    <2> QED BY <2>3, <2>4, <2>5, <1>b
  <1>8. ASSUME NEW s \in Sockets, TcpClosed(s) PROVE WayBack'
    <2>1. /\ sock[s] = "closing" /\ sock' = [sock EXCEPT ![s] = "unused"] /\ tcp' = None
          /\ retryTimer' = (retryTimer \/ ~explicit)
          /\ UNCHANGED <<explicit, phase, callers, wanted, reportId, layout, groups>>
      BY <1>8 DEF TcpClosed
    <2>2. KeepsTrying' /\ Tcp' /\ Armed'
      BY <2>1 DEF KeepsTrying, Tcp, Armed
    <2>3. Again' /\ Kept'
      BY <2>1, <1>a DEF Again, Kept
    <2>4. OneDial'
      BY <2>1, <1>a DEF OneDial, TypeOK
    <2>5. New'
      <3>1. owner # "new" /\ owner' # "new"
        BY <1>8, <2>1, <1>a DEF TcpClosed, New
      <3> QED BY <3>1 DEF New
    <2> QED BY <2>2, <2>3, <2>4, <2>5, <1>b
  <1>9. CASE SelectChannel
    <2>1. /\ phase = "select"
          /\ UNCHANGED <<sockets, groups, owner, awaited, packets, faults>>
      BY <1>9 DEF SelectChannel
    <2>2. Tcp' /\ Kept'
      BY <2>1, <1>a DEF Tcp, Kept
    <2>3. \A s \in Sockets : sock[s] # "connecting"
      BY <2>1, <1>a DEF OneDial
    <2>4. OneDial'
      BY <2>1, <2>3 DEF OneDial
    <2>5. New'
      BY <2>1, <1>a DEF New
    <2>6. CASE tcp = None
      <3>1. Rejected /\ UNCHANGED <<subscription, stream>>
        BY <1>9, <2>6 DEF SelectChannel
      <3>2. ~explicit => retryTimer'
        BY <2>1, <2>6, <3>1, <1>a DEF Rejected, Armed
      <3>3. KeepsTrying' /\ Armed' /\ Again'
        BY <3>1, <3>2 DEF Rejected, KeepsTrying, Armed, Again
      <3> QED BY <2>2, <2>4, <2>5, <3>3, <1>b
    <2>7. CASE tcp # None /\ udp
      <3>1. Resolved
        BY <1>9, <2>7 DEF SelectChannel
      <3>2. KeepsTrying'
        BY <2>1, <2>7, <3>1, <1>a, ResolvedKeepsTrying DEF Tcp, TypeOK
      <3>3. Armed' /\ Again'
        BY <3>1 DEF Resolved, Armed, Again
      <3> QED BY <2>2, <2>4, <2>5, <3>2, <3>3, <1>b
    <2>8. CASE tcp # None /\ ~udp
      <3>1. phase' = "bind" /\ UNCHANGED <<explicit, callers, retryTimer, subscription, stream>>
        BY <1>9, <2>8 DEF SelectChannel
      <3>2. KeepsTrying'
        BY <3>1 DEF KeepsTrying
      <3>3. Armed' /\ Again'
        BY <2>1, <2>8, <3>1, <1>a DEF Armed, Again
      <3> QED BY <2>2, <2>4, <2>5, <3>2, <3>3, <1>b
    <2> QED BY <2>6, <2>7, <2>8 DEF TypeOK
  <1>10. CASE BindUdp
    <2>1. /\ phase = "bind" /\ udp' = TRUE /\ Resolved
          /\ UNCHANGED <<sock, tcp, groups, life, packets, faults>>
      BY <1>10 DEF BindUdp
    <2>2. Tcp' /\ Kept'
      BY <2>1, <1>a DEF Tcp, Kept
    <2>3. OneDial'
      BY <2>1, <1>a DEF OneDial
    <2>4. New'
      BY <2>1, <1>a DEF New
    <2>5. Armed' /\ Again'
      BY <2>1 DEF Resolved, Armed, Again
    <2>6. ASSUME tcp = None PROVE KeepsTrying'
      BY <2>1, <2>6, <1>a DEF Armed, Resolved, KeepsTrying
    <2>7. ASSUME tcp # None PROVE KeepsTrying'
      BY <2>1, <2>7, <1>a, ResolvedKeepsTrying DEF Tcp
    <2> QED BY <2>2, <2>3, <2>4, <2>5, <2>6, <2>7, <1>b
  <1>11. CASE BindFails
    <2>1. /\ phase = "bind"
          /\ UNCHANGED <<sockets, subscription, groups, owner, awaited, console>>
      BY <1>11 DEF BindFails
    <2>2. Rejected \/ UNCHANGED recovery
      BY <1>11 DEF BindFails
    <2>3. KeepsTrying'
      <3>1. CASE Rejected
        <4>1. wanted /\ ~explicit => retryTimer'
          BY <2>1, <3>1, <1>a DEF Rejected, Again
        <4>2. wanted' = wanted /\ explicit' = explicit
          BY <2>1, <3>1 DEF Rejected
        <4> QED BY <4>1, <4>2 DEF KeepsTrying
      <3>2. CASE UNCHANGED recovery
        BY <2>1, <3>2 DEF KeepsTrying
      <3> QED BY <2>2, <3>1, <3>2
    <2>4. Armed' /\ Again'
      BY <2>1, <2>2, <1>a DEF Rejected, Armed, Again
    <2>5. OneDial'
      BY <2>1, <2>2, <1>a DEF OneDial
    <2>6. Tcp' /\ New' /\ Kept'
      BY <2>1, <1>a DEF Tcp, New, Kept
    <2> QED BY <2>3, <2>4, <2>5, <2>6, <1>b
  <1>12. CASE UdpFails
    <2>1. /\ udp
          /\ UNCHANGED <<explicit, phase, callers, tcp, subscription, groups, owner, awaited, packets>>
      BY <1>12 DEF UdpFails
    <2>2. Again' /\ New' /\ Kept'
      BY <2>1, <1>a DEF Again, New, Kept
    <2>3. CASE owner = "gone" \/ explicit
      <3>1. sock' = sock /\ retryTimer' = retryTimer /\ stream' = stream
        BY <1>12, <2>3 DEF UdpFails, TypeOK
      <3>2. KeepsTrying'
        <4>1. CASE explicit
          BY <2>1, <4>1 DEF KeepsTrying
        <4>2. CASE ~explicit
          <5>1. udp' = udp
            BY <1>12, <2>3, <4>2 DEF UdpFails
          <5> QED BY <2>1, <3>1, <5>1, <1>a DEF KeepsTrying, Streaming, Renewed
        <4> QED BY <4>1, <4>2
      <3>3. Tcp' /\ Armed'
        BY <2>1, <3>1, <1>a DEF Tcp, Armed
      <3>4. OneDial'
        BY <2>1, <3>1, <1>a DEF OneDial
      <3> QED BY <2>2, <3>2, <3>3, <3>4, <1>b
    <2>4. CASE owner # "gone" /\ ~explicit /\ tcp # None
      <3>1. sock' = [sock EXCEPT ![tcp] = "closing"] /\ tcp \in Sockets
        BY <1>12, <2>4 DEF UdpFails, TypeOK
      <3>2. sock'[tcp] = "closing" /\ tcp' = tcp
        BY <2>1, <3>1 DEF TypeOK
      <3>3. KeepsTrying'
        BY <3>1, <3>2 DEF KeepsTrying
      <3>4. Tcp' /\ Armed'
        BY <2>1, <2>4, <3>2 DEF Tcp, Armed
      <3>5. OneDial'
        BY <2>1, <3>1, <1>a DEF OneDial, TypeOK
      <3> QED BY <2>2, <3>3, <3>4, <3>5, <1>b
    <2>5. CASE owner # "gone" /\ ~explicit /\ tcp = None
      <3>1. sock' = sock /\ retryTimer'
        BY <1>12, <2>5 DEF UdpFails
      <3>2. KeepsTrying' /\ Tcp' /\ Armed'
        BY <2>1, <2>5, <3>1 DEF KeepsTrying, Tcp, Armed
      <3>3. OneDial'
        BY <2>1, <3>1, <1>a DEF OneDial
      <3> QED BY <2>2, <3>2, <3>3, <1>b
    <2> QED BY <2>3, <2>4, <2>5
  <1>13. CASE Reconnect
    <2>1. /\ Due /\ retryTimer
          /\ UNCHANGED <<explicit, tcp, udp, subscription, groups, life, console, faults>>
      BY <1>13 DEF Reconnect, Due
    <2>2. New' /\ Kept'
      BY <2>1, <1>a DEF New, Kept
    <2>3. CASE explicit
      <3>1. UNCHANGED <<phase, callers, sock>>
        BY <1>13, <2>3 DEF Reconnect
      <3>2. KeepsTrying' /\ Tcp' /\ Armed' /\ Again'
        BY <2>1, <2>3, <3>1, <1>a DEF KeepsTrying, Tcp, Armed, Again
      <3>3. OneDial'
        BY <3>1, <1>a DEF OneDial
      <3> QED BY <2>2, <3>2, <3>3, <1>b
    <2>4. CASE ~explicit /\ phase = "tcp"
      <3>1. callers' = callers \cup {"retry"} /\ UNCHANGED <<phase, sock>>
        BY <1>13, <2>4 DEF Reconnect
      <3>2. KeepsTrying' /\ Tcp' /\ Armed' /\ Again'
        BY <2>1, <2>4, <3>1, <1>a DEF KeepsTrying, Tcp, Armed, Again
      <3>3. OneDial'
        BY <3>1, <1>a DEF OneDial
      <3> QED BY <2>2, <3>2, <3>3, <1>b
    <2>5. CASE ~explicit /\ phase = "idle"
      <3>1. PICK s \in Sockets : Dial(s)
        BY <1>13, <2>5 DEF Reconnect
      <3>2. callers' = {"retry"}
        BY <1>13, <2>5 DEF Reconnect
      <3>3. KeepsTrying' /\ Armed' /\ Again'
        BY <3>1, <3>2 DEF Dial, KeepsTrying, Armed, Again
      <3>4. Tcp'
        BY <2>1, <3>1, <1>a DEF Dial, Tcp, TypeOK
      <3>5. \A t \in Sockets : sock[t] # "connecting"
        BY <2>5, <1>a DEF OneDial
      <3>6. OneDial'
        BY <3>1, <3>5 DEF Dial, OneDial, TypeOK
      <3> QED BY <2>2, <3>3, <3>4, <3>6, <1>b
    <2> QED BY <2>1, <2>3, <2>4, <2>5 DEF Due
  <1>14. ASSUME UNCHANGED <<recovery, sockets, subscription, groups, life>>, KeepsTrying'
         PROVE WayBack'
    <2>1. Tcp' /\ Armed' /\ Again' /\ New' /\ Kept'
      BY <1>14, <1>a DEF Tcp, Armed, Again, New, Kept
    <2>2. OneDial'
      BY <1>14, <1>a DEF OneDial
    <2> QED BY <1>14, <2>1, <2>2, <1>b
  <1>15. CASE StreamExpires
    <2>1. /\ UNCHANGED <<recovery, sockets, subscription, groups, life>>
          /\ ~Streaming
      BY <1>15 DEF StreamExpires, Streaming
    <2>2. KeepsTrying'
      BY <2>1, <1>a DEF KeepsTrying
    <2> QED BY <2>1, <2>2, <1>14
  <1>16. ASSUME UNCHANGED <<recovery, sockets, subscription, groups, life, stream>>
         PROVE WayBack'
    <2>1. KeepsTrying'
      BY <1>16, <1>a DEF KeepsTrying, Streaming, Renewed
    <2> QED BY <1>16, <2>1, <1>14
  <1>17. CASE ConsoleSends
    BY <1>16, <1>17 DEF ConsoleSends
  <1>18. ASSUME NEW p \in packets, PacketGone(p) PROVE WayBack'
    BY <1>16, <1>18 DEF PacketGone
  <1>19. CASE UNCHANGED vars
    BY <1>16, <1>19 DEF vars
  <1> QED
    BY <1>1, <1>2, <1>3, <1>4, <1>5, <1>6, <1>7, <1>8, <1>9, <1>10, <1>11, <1>12,
       <1>13, <1>15, <1>17, <1>18, <1>19 DEF Next

(* All parts of the inductive invariant together. *)
THEOREM MeterInvariant == Spec => []IInv
  <1>1. Init => IInv
    BY TypeInit, IdsInit, WayBackInit DEF IInv
  <1>2. IInv /\ [Next]_vars => IInv'
    BY TypeStep, IdsStep, WayBackStep DEF IInv
  <1> QED BY <1>1, <1>2, PTL DEF Spec

(* A subscribed client either receives the meters it wants or has a timer, *)
(* a connect or a close event under way that leads back to them.           *)
THEOREM AlwaysAWayBack == Spec => []KeepsTrying
  <1>1. IInv => KeepsTrying
    BY DEF IInv, WayBack
  <1> QED BY <1>1, MeterInvariant, PTL
=============================================================================
