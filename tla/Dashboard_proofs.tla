-------------------------- MODULE Dashboard_proofs --------------------------
(***************************************************************************)
(* Proofs about the dashboard's live channel, at both ends: the hub's       *)
(* tables agree and its events follow its acknowledgements (WsHub); the     *)
(* page makes a change at most once over its socket and HTTP together, and  *)
(* reads no frame by another subscription's columns (LiveSocket).           *)
(***************************************************************************)
EXTENDS WsHub, LiveSocket, SequenceTheorems, TLAPS

-----------------------------------------------------------------------------
(* WsHub *)

\* dropConnection empties the rows of the dropped connections and deletes the
\* groups this empties.
LEMMA DropKeepsTables ==
    ASSUME TablesType, TablesAgree, NEW S \in SUBSET Conns, Drop(S)
    PROVE  /\ connections' \subseteq Conns
           /\ subs' \in [Conns -> [Topics -> Keys \cup {None}]]
           /\ groups' \in [Topics -> SUBSET Keys]
           /\ members' \in [Topics -> [Keys -> SUBSET Conns]]
           /\ acked' \in [Conns -> [Topics -> Keys \cup {None}]]
           /\ TablesAgree'
           /\ \A c \in Conns : c \in S \/ subs[c] = acked[c] => subs'[c] = acked'[c]
           /\ \A c \in Conns \ S : acked'[c] = acked[c]
<1>1. /\ connections' \subseteq Conns
      /\ subs' \in [Conns -> [Topics -> Keys \cup {None}]]
      /\ acked' \in [Conns -> [Topics -> Keys \cup {None}]]
      /\ \A c \in Conns : c \in S \/ subs[c] = acked[c] => subs'[c] = acked'[c]
      /\ \A c \in Conns \ S : acked'[c] = acked[c]
  BY DEF TablesType, Drop
<1>2. /\ groups' \in [Topics -> SUBSET Keys]
      /\ members' \in [Topics -> [Keys -> SUBSET Conns]]
  BY DEF TablesType, Drop, Leave, Without
<1>3. ASSUME NEW t \in Topics, NEW k \in Keys
      PROVE  members'[t][k] = members[t][k] \ S
  BY <1>3 DEF Drop, Leave, Without
<1>4. ASSUME NEW t \in Topics, NEW k \in Keys
      PROVE  k \in groups'[t] <=> members'[t][k] # {}
  <2>1. k \in groups'[t] <=>
            k \in groups[t] /\ (members[t][k] \ S # {} \/ members[t][k] \cap S = {})
    BY <1>4 DEF Drop, Leave, Without
  <2>2. k \in groups[t] <=> members[t][k] # {}
    BY <1>4 DEF TablesAgree
  <2> QED BY <1>3, <2>1, <2>2
<1>5. ASSUME NEW t \in Topics, NEW k \in Keys, NEW c \in Conns
      PROVE  c \in members'[t][k] <=> subs'[c][t] = k
  <2>1. c \in members[t][k] <=> subs[c][t] = k
    BY <1>5 DEF TablesAgree
  <2>2. CASE c \in S
    <3>1. subs'[c][t] = None BY <2>2, <1>5 DEF Drop
    <3> QED BY <3>1, <2>2, <1>3, SetsAssumption
  <2>3. CASE c \notin S
    <3>1. subs'[c] = subs[c] BY <2>3, <1>5 DEF Drop
    <3> QED BY <3>1, <2>1, <2>3, <1>3
  <2> QED BY <2>2, <2>3
<1>6. ASSUME NEW t \in Topics, NEW k \in Keys
      PROVE  members'[t][k] \subseteq connections'
  BY <1>3, <1>6 DEF TablesAgree, Drop
<1> QED BY <1>1, <1>2, <1>4, <1>5, <1>6 DEF TablesAgree

\* A sub moves the connection's row to its new group.
LEMMA SubscribeKeepsTables ==
    ASSUME IInv, NEW c \in Conns, NEW t \in Topics, NEW k \in Keys, Subscribe(c, t, k)
    PROVE  IInv'
<1>1. /\ subs' = [subs EXCEPT ![c][t] = k]
      /\ members' = [members EXCEPT ![t] =
           [j \in Keys |-> IF j = k THEN members[t][j] \cup {c} ELSE members[t][j] \ {c}]]
      /\ groups' = [groups EXCEPT ![t] = {j \in groups[t] : members[t][j] # {c}} \cup {k}]
  BY DEF Subscribe
<1>ack. acked' = [acked EXCEPT ![c][t] = IF sock[c] = "open" THEN k ELSE acked[c][t]]
  BY DEF Subscribe, Acknowledge
<1>rest. /\ connections' = connections /\ sock' = sock
      /\ ticket' = ticket /\ valid' = valid
      /\ c \in connections /\ event' = NoEvent
  BY DEF Subscribe, Hears, Quiet, peers, admission
<1>2. TablesType'
  <2>1. members' \in [Topics -> [Keys -> SUBSET Conns]]
    BY <1>1 DEF IInv, TablesType
  <2>2. groups' \in [Topics -> SUBSET Keys]
    BY <1>1 DEF IInv, TablesType
  <2>3. subs' \in [Conns -> [Topics -> Keys \cup {None}]]
    BY <1>1 DEF IInv, TablesType
  <2>4. acked' \in [Conns -> [Topics -> Keys \cup {None}]]
    BY <1>ack DEF IInv, TablesType
  <2> QED BY <1>rest, <2>1, <2>2, <2>3, <2>4 DEF IInv, TablesType
<1>3. TablesAgree'
  <2> SUFFICES ASSUME NEW u \in Topics, NEW j \in Keys
               PROVE  /\ j \in groups'[u] <=> members'[u][j] # {}
                      /\ \A d \in Conns : d \in members'[u][j] <=> subs'[d][u] = j
                      /\ members'[u][j] \subseteq connections'
    BY DEF TablesAgree
  <2>1. /\ j \in groups[u] <=> members[u][j] # {}
        /\ \A d \in Conns : d \in members[u][j] <=> subs[d][u] = j
        /\ members[u][j] \subseteq connections
    BY DEF IInv, TablesAgree
  <2>2. CASE u # t
    <3>1. groups'[u] = groups[u] /\ members'[u][j] = members[u][j]
      BY <1>1, <2>2 DEF IInv, TablesType
    <3>2. \A d \in Conns : subs'[d][u] = subs[d][u]
      BY <1>1, <2>2 DEF IInv, TablesType
    <3> QED BY <3>1, <3>2, <2>1, <1>rest
  <2>3. CASE u = t
    <3>1. members'[u][j] = IF j = k THEN members[u][j] \cup {c} ELSE members[u][j] \ {c}
      BY <1>1, <2>3 DEF IInv, TablesType
    <3>2. \A d \in Conns : subs'[d][u] = IF d = c THEN k ELSE subs[d][u]
      BY <1>1, <2>3 DEF IInv, TablesType
    <3>3. groups'[u] = {i \in groups[u] : members[u][i] # {c}} \cup {k}
      BY <1>1, <2>3 DEF IInv, TablesType
    <3>4. j \in groups'[u] <=> members'[u][j] # {}
      BY <3>1, <3>3, <2>1
    <3>5. \A d \in Conns : d \in members'[u][j] <=> subs'[d][u] = j
      BY <3>1, <3>2, <2>1
    <3>6. members'[u][j] \subseteq connections'
      BY <3>1, <2>1, <1>rest
    <3> QED BY <3>4, <3>5, <3>6
  <2> QED BY <2>2, <2>3
<1>4. AcksAreSubscriptions'
  <2> SUFFICES ASSUME NEW d \in Conns, sock'[d] = "open" \/ d \notin connections'
               PROVE  acked'[d] = subs'[d]
    BY DEF AcksAreSubscriptions
  <2>1. acked[d] = subs[d]
    BY <1>rest DEF IInv, AcksAreSubscriptions
  <2>2. CASE d = c
    <3>0. sock[c] = "open"
      BY <1>rest, <2>2
    <3>1. acked'[d] = [acked[d] EXCEPT ![t] = k] /\ subs'[d] = [subs[d] EXCEPT ![t] = k]
      BY <1>1, <1>ack, <3>0, <2>2 DEF IInv, TablesType
    <3> QED BY <3>1, <2>1
  <2>3. CASE d # c
    BY <1>1, <1>ack, <2>1, <2>3 DEF IInv, TablesType
  <2> QED BY <2>2, <2>3
<1>5. AdmittedOnce' /\ EventsFollowAcks'
  BY <1>rest DEF IInv, AdmittedOnce, EventsFollowAcks, NoEvent
<1> QED BY <1>2, <1>3, <1>4, <1>5 DEF IInv

\* An unsub empties the row; the ack of a closing connection is lost.
LEMMA UnsubscribeKeepsTables ==
    ASSUME IInv, NEW c \in Conns, NEW t \in Topics, Unsubscribe(c, t)
    PROVE  IInv'
<1>1. subs' = [subs EXCEPT ![c][t] = None]
  BY DEF Unsubscribe
<1>ack. acked' = [acked EXCEPT ![c][t] = IF sock[c] = "open" THEN None ELSE acked[c][t]]
  BY DEF Unsubscribe, Acknowledge
<1>rest. /\ connections' = connections /\ sock' = sock
      /\ ticket' = ticket /\ valid' = valid
      /\ c \in connections /\ event' = NoEvent
  BY DEF Unsubscribe, Hears, Quiet, peers, admission
<1>2. ASSUME NEW u \in Topics, NEW j \in Keys
      PROVE  /\ members'[u][j] = IF u = t THEN members[u][j] \ {c} ELSE members[u][j]
             /\ j \in groups'[u] <=>
                  j \in groups[u] /\ (u # t \/ members[u][j] \ {c} # {} \/ c \notin members[u][j])
  <2>1. members'[u][j] = IF u \in {t} THEN members[u][j] \ {c} ELSE members[u][j]
    BY DEF Unsubscribe, Leave, Without
  <2>2. groups'[u] = IF u \in {t}
                     THEN {k \in groups[u] : members[u][k] \ {c} # {} \/ members[u][k] \cap {c} = {}}
                     ELSE groups[u]
    BY DEF Unsubscribe, Leave, Without
  <2> QED BY <2>1, <2>2
<1>3. TablesType'
  <2>1. members' \in [Topics -> [Keys -> SUBSET Conns]]
    BY DEF Unsubscribe, Leave, Without, IInv, TablesType
  <2>2. groups' \in [Topics -> SUBSET Keys]
    BY DEF Unsubscribe, Leave, Without, IInv, TablesType
  <2>3. subs' \in [Conns -> [Topics -> Keys \cup {None}]]
    BY <1>1 DEF IInv, TablesType
  <2>4. acked' \in [Conns -> [Topics -> Keys \cup {None}]]
    BY <1>ack DEF IInv, TablesType
  <2> QED BY <1>rest, <2>1, <2>2, <2>3, <2>4 DEF IInv, TablesType
<1>4. TablesAgree'
  <2> SUFFICES ASSUME NEW u \in Topics, NEW j \in Keys
               PROVE  /\ j \in groups'[u] <=> members'[u][j] # {}
                      /\ \A d \in Conns : d \in members'[u][j] <=> subs'[d][u] = j
                      /\ members'[u][j] \subseteq connections'
    BY DEF TablesAgree
  <2>1. /\ j \in groups[u] <=> members[u][j] # {}
        /\ \A d \in Conns : d \in members[u][j] <=> subs[d][u] = j
        /\ members[u][j] \subseteq connections
    BY DEF IInv, TablesAgree
  <2>2. \A d \in Conns : subs'[d][u] = IF d = c /\ u = t THEN None ELSE subs[d][u]
    BY <1>1 DEF IInv, TablesType
  <2>3. CASE u = t
    <3>1. members'[u][j] = members[u][j] \ {c}
      BY <1>2, <2>3
    <3>2. j \in groups'[u] <=> j \in groups[u] /\ (members[u][j] \ {c} # {} \/ c \notin members[u][j])
      BY <1>2, <2>3
    <3>3. j \in groups'[u] <=> members'[u][j] # {}
      BY <3>1, <3>2, <2>1
    <3>4. \A d \in Conns : d \in members'[u][j] <=> subs'[d][u] = j
      BY <3>1, <2>1, <2>2, <2>3, SetsAssumption
    <3> QED BY <3>1, <3>3, <3>4, <2>1, <1>rest
  <2>4. CASE u # t
    <3>1. members'[u][j] = members[u][j]
      BY <1>2, <2>4
    <3>2. j \in groups'[u] <=> j \in groups[u]
      BY <1>2, <2>4
    <3> QED BY <3>1, <3>2, <2>1, <2>2, <2>4, <1>rest
  <2> QED BY <2>3, <2>4
<1>5. AcksAreSubscriptions'
  <2> SUFFICES ASSUME NEW d \in Conns, sock'[d] = "open" \/ d \notin connections'
               PROVE  acked'[d] = subs'[d]
    BY DEF AcksAreSubscriptions
  <2>1. acked[d] = subs[d]
    BY <1>rest DEF IInv, AcksAreSubscriptions
  <2>2. CASE d = c
    <3>0. sock[c] = "open"
      BY <1>rest, <2>2
    <3>1. acked'[d] = [acked[d] EXCEPT ![t] = None] /\ subs'[d] = [subs[d] EXCEPT ![t] = None]
      BY <1>1, <1>ack, <3>0, <2>2 DEF IInv, TablesType
    <3> QED BY <3>1, <2>1
  <2>3. CASE d # c
    BY <1>1, <1>ack, <2>1, <2>3 DEF IInv, TablesType
  <2> QED BY <2>2, <2>3
<1>6. AdmittedOnce' /\ EventsFollowAcks'
  BY <1>rest DEF IInv, AdmittedOnce, EventsFollowAcks, NoEvent
<1> QED BY <1>3, <1>4, <1>5, <1>6 DEF IInv

\* Cutting or closing sockets and dropping connections keeps all but the last
\* conjunct of IInv, which the step's event decides.
LEMMA EndingKeepsTables ==
    ASSUME IInv, NEW S \in SUBSET Conns, Drop(S), UNCHANGED admission,
           sock' \in [Conns -> {"none", "open", "closing", "closed"}],
           \A c \in Conns : sock'[c] \in {"none", "open"} => sock[c] = sock'[c]
    PROVE  TablesType' /\ TablesAgree' /\ AcksAreSubscriptions' /\ AdmittedOnce'
<1>1. TablesType /\ TablesAgree /\ AcksAreSubscriptions /\ AdmittedOnce
  BY DEF IInv
<1>2. TablesType' /\ TablesAgree'
  BY <1>1, DropKeepsTables DEF TablesType, admission
<1>3. connections' = connections \ S
  BY DEF Drop
<1>4. AcksAreSubscriptions'
  BY <1>1, <1>3, DropKeepsTables DEF AcksAreSubscriptions
<1>5. AdmittedOnce'
  BY <1>1, <1>3 DEF AdmittedOnce, TablesType, admission
<1> QED BY <1>2, <1>4, <1>5

\* What a step keeps that touches neither table, socket nor ticket.
LEMMA OthersKeepIInv ==
    ASSUME IInv, UNCHANGED <<table, sock, ticket>>, valid' \subseteq valid, event' = NoEvent
    PROVE  IInv'
<1>1. /\ connections' = connections /\ subs' = subs /\ groups' = groups
      /\ members' = members /\ acked' = acked /\ sock' = sock /\ ticket' = ticket
  BY DEF table
<1>2. TablesType' /\ TablesAgree' /\ AcksAreSubscriptions' /\ AdmittedOnce'
  BY <1>1 DEF IInv, TablesType, TablesAgree, AcksAreSubscriptions, AdmittedOnce
<1>3. EventsFollowAcks'
  BY DEF EventsFollowAcks, NoEvent
<1> QED BY <1>2, <1>3 DEF IInv

\* A step that changes tickets and sockets of connections not yet admitted.
LEMMA AdmissionKeepsIInv ==
    ASSUME IInv, NEW c \in Conns, IssueTicket(c) \/ Admit(c) \/ TicketLost(c)
    PROVE  IInv'
<1>1. /\ subs' = subs /\ groups' = groups /\ members' = members /\ acked' = acked
      /\ event' = NoEvent
  BY DEF IssueTicket, Admit, TicketLost, table, Quiet
<1>2. EventsFollowAcks'
  BY <1>1 DEF EventsFollowAcks, NoEvent
<1>3. TablesType /\ TablesAgree /\ AcksAreSubscriptions /\ AdmittedOnce
  BY DEF IInv
<1>4. CASE IssueTicket(c)
  <2>1. connections' = connections /\ sock' = sock /\ valid' = valid
    BY <1>4 DEF IssueTicket, table, peers
  <2>2. PICK k \in valid : ticket' = [ticket EXCEPT ![c] = k]
    BY <1>4 DEF IssueTicket
  <2>3. c \notin connections
    BY <1>3, <1>4 DEF AdmittedOnce, IssueTicket
  <2>4. TablesType' /\ TablesAgree' /\ AcksAreSubscriptions'
    BY <1>1, <1>3, <2>1, <2>2 DEF TablesType, TablesAgree, AcksAreSubscriptions
  <2>5. AdmittedOnce'
    BY <1>3, <2>1, <2>2, <2>3 DEF AdmittedOnce, TablesType
  <2> QED BY <1>2, <2>4, <2>5 DEF IInv
<1>5. CASE Admit(c) \/ TicketLost(c)
  <2>1. /\ ticket[c] # None
        /\ ticket' = [ticket EXCEPT ![c] = None] /\ valid' = valid
    BY <1>5 DEF Admit, TicketLost
  <2>2. c \notin connections
    BY <1>3, <2>1 DEF AdmittedOnce
  <2>3. \/ connections' = connections \cup {c} /\ sock' = [sock EXCEPT ![c] = "open"]
        \/ connections' = connections /\ sock' = [sock EXCEPT ![c] = "closed"]
    BY <1>5 DEF Admit, TicketLost, table
  <2>4. TablesType'
    BY <1>1, <1>3, <2>1, <2>3 DEF TablesType
  <2>5. TablesAgree'
    BY <1>1, <1>3, <2>3 DEF TablesAgree
  <2>6. AcksAreSubscriptions'
    BY <1>1, <1>3, <2>2, <2>3 DEF AcksAreSubscriptions, TablesType
  <2>7. AdmittedOnce'
    BY <1>3, <2>1, <2>3 DEF AdmittedOnce, TablesType
  <2> QED BY <1>2, <2>4, <2>5, <2>6, <2>7 DEF IInv
<1> QED BY <1>4, <1>5

\* An event goes, under each group's key, to open members of the group; those it
\* finds past their limits are cut and get none.
LEMMA BusEventKeepsIInv ==
    ASSUME IInv, NEW t \in Topics, BusEvent(t)
    PROVE  IInv'
<1>1. TablesType /\ TablesAgree /\ AcksAreSubscriptions /\ AdmittedOnce
  BY DEF IInv
<1>2. Cutoff(t) \in SUBSET Conns
  BY DEF Cutoff, Stalled, Skipped, Audience
<1>3. Drop(Cutoff(t)) /\ UNCHANGED admission /\ sock' = Cut(Cutoff(t))
  BY DEF BusEvent
<1>4. /\ sock' \in [Conns -> {"none", "open", "closing", "closed"}]
      /\ \A c \in Conns : sock'[c] \in {"none", "open"} => sock[c] = sock'[c]
  BY <1>1, <1>3 DEF Cut, TablesType
<1>5. TablesType' /\ TablesAgree' /\ AcksAreSubscriptions' /\ AdmittedOnce'
  BY <1>2, <1>3, <1>4, EndingKeepsTables
<1>6. ASSUME NEW e \in event'.to
      PROVE  acked'[e[1]][event'.topic] = e[2]
  <2>1. /\ event'.topic = t
        /\ e \in (Audience(t) \ Skipped(t)) \X groups[t]
        /\ CanSend(e[1]) /\ e[1] \in members[t][e[2]]
    BY <1>6 DEF BusEvent
  <2>2. e[1] \in Conns \ Cutoff(t)
    BY <2>1 DEF Cutoff, Stalled, Audience, CanSend, Overrun
  <2>3. acked'[e[1]] = acked[e[1]]
    BY <1>1, <1>2, <1>3, <2>2, DropKeepsTables
  <2>4. acked[e[1]] = subs[e[1]]
    BY <1>1, <2>1, <2>2 DEF CanSend, AcksAreSubscriptions
  <2>5. e[2] \in Keys
    BY <1>1, <2>1 DEF TablesType
  <2>6. subs[e[1]][t] = e[2]
    BY <1>1, <2>1, <2>2, <2>5 DEF TablesAgree
  <2> QED BY <2>1, <2>3, <2>4, <2>6
<1>7. EventsFollowAcks'
  BY <1>6 DEF EventsFollowAcks
<1> QED BY <1>5, <1>7 DEF IInv

LEMMA InitIInv == Init => IInv
<1> SUFFICES ASSUME Init PROVE IInv
  OBVIOUS
<1>1. TablesType
  BY DEF Init, TablesType
<1>2. TablesAgree
  BY SetsAssumption DEF Init, TablesAgree
<1>3. AcksAreSubscriptions /\ AdmittedOnce
  BY DEF Init, AcksAreSubscriptions, AdmittedOnce
<1>4. EventsFollowAcks
  BY DEF Init, EventsFollowAcks, NoEvent
<1> QED BY <1>1, <1>2, <1>3, <1>4 DEF IInv

LEMMA NextIInv == IInv /\ [Next]_vars => IInv'
<1> SUFFICES ASSUME IInv, [Next]_vars PROVE IInv'
  OBVIOUS
<1> DEFINE Ends(S) == /\ Drop(S) /\ UNCHANGED admission
                      /\ sock' \in [Conns -> {"none", "open", "closing", "closed"}]
                      /\ \A c \in Conns : sock'[c] \in {"none", "open"} => sock[c] = sock'[c]
<1>1. sock \in [Conns -> {"none", "open", "closing", "closed"}] /\ connections \subseteq Conns
  BY DEF IInv, TablesType
<1>2. ASSUME event' = NoEvent, NEW S \in SUBSET Conns, Ends(S)
      PROVE  IInv'
  <2>1. TablesType' /\ TablesAgree' /\ AcksAreSubscriptions' /\ AdmittedOnce'
    BY <1>2, EndingKeepsTables
  <2>2. EventsFollowAcks'
    BY <1>2 DEF EventsFollowAcks, NoEvent
  <2> QED BY <2>1, <2>2 DEF IInv
<1>3. ASSUME NEW c \in Conns, OverrunReply(c) \/ Offend(c) \/ PeerCloses(c)
      PROVE  IInv'
  <2>1. Drop({c}) /\ UNCHANGED admission /\ event' = NoEvent
    BY <1>3 DEF OverrunReply, Offend, PeerCloses, Quiet
  <2>2. sock' = Cut({c}) \/ sock' = Closing({c})
    BY <1>3 DEF OverrunReply, Offend, PeerCloses
  <2>3. Ends({c})
    BY <1>1, <2>1, <2>2 DEF Cut, Closing
  <2> QED BY <1>2, <2>1, <2>3
<1>4. CASE Heartbeat
  <2> DEFINE dead == {c \in connections : ~alive[c]}
             gone == {c \in connections \ dead : cred[c] \notin valid}
  <2>1. Tick(dead, gone)
    BY <1>4 DEF Heartbeat
  <2>2. Drop(dead \cup gone) /\ UNCHANGED admission /\ event' = NoEvent
    BY <2>1 DEF Tick, Quiet
  <2>3. sock' = [c \in Conns |-> IF c \in gone THEN Closing(gone)[c] ELSE Cut(dead)[c]]
    BY <2>1 DEF Tick
  <2>4. dead \cup gone \in SUBSET Conns
    BY <1>1
  <2> HIDE DEF dead, gone
  <2>5. Ends(dead \cup gone)
    BY <1>1, <2>2, <2>3 DEF Cut, Closing
  <2> QED BY <1>2, <2>2, <2>4, <2>5
<1>5. CASE Deadline
  <2>1. Drop(connections) /\ UNCHANGED admission /\ event' = NoEvent
    BY <1>5 DEF Deadline, Quiet
  <2>2. sock' = Cut(connections)
    BY <1>5 DEF Deadline
  <2>3. Ends(connections)
    BY <1>1, <2>1, <2>2 DEF Cut
  <2> QED BY <1>1, <1>2, <2>1, <2>3
<1>6. CASE Close
  <2>1. /\ UNCHANGED <<table, ticket, valid>> /\ event' = NoEvent
        /\ sock' = Closing(connections)
    BY <1>6 DEF Close, Quiet, admission
  <2>2. /\ sock' \in [Conns -> {"none", "open", "closing", "closed"}]
        /\ \A c \in Conns : sock'[c] \in {"none", "open"} => sock[c] = sock'[c]
    BY <1>1, <2>1 DEF Closing
  <2>3. TablesType' /\ TablesAgree'
    BY <2>1, <2>2 DEF IInv, TablesType, TablesAgree, table
  <2>4. AcksAreSubscriptions'
    BY <2>1, <2>2 DEF IInv, AcksAreSubscriptions, table
  <2>5. AdmittedOnce'
    BY <1>1, <2>1, <2>2 DEF IInv, AdmittedOnce, table
  <2>6. EventsFollowAcks'
    BY <2>1 DEF EventsFollowAcks, NoEvent
  <2> QED BY <2>3, <2>4, <2>5, <2>6 DEF IInv
<1>7. ASSUME NEW c \in Conns, NEW r \in Requests, Request(c, r) \/ Answer(c, r) \/ Timeout(c, r)
      PROVE  IInv'
  <2>1. UNCHANGED <<table, sock, ticket>> /\ valid' \subseteq valid /\ event' = NoEvent
    BY <1>7 DEF Request, Answer, Timeout, Quiet, admission, peers
  <2> QED BY <2>1, OthersKeepIInv
<1>8. ASSUME NEW c \in Conns,
             StallTimeout(c) \/ FallBehind(c) \/ CatchUp(c) \/ PeerDies(c) \/ Pong(c)
      PROVE  IInv'
  <2>1. UNCHANGED <<table, sock, ticket>> /\ valid' \subseteq valid /\ event' = NoEvent
    BY <1>8 DEF StallTimeout, FallBehind, CatchUp, PeerDies, Pong, Quiet, admission, peers
  <2> QED BY <2>1, OthersKeepIInv
<1>9. ASSUME NEW k \in Creds, Revoke(k)
      PROVE  IInv'
  <2>1. UNCHANGED <<table, sock, ticket>> /\ valid' \subseteq valid /\ event' = NoEvent
    BY <1>9 DEF Revoke, Quiet, peers
  <2> QED BY <2>1, OthersKeepIInv
<1>10. CASE UNCHANGED vars
  <2>1. /\ connections' = connections /\ subs' = subs /\ groups' = groups
        /\ members' = members /\ acked' = acked /\ sock' = sock /\ ticket' = ticket
        /\ valid' = valid /\ event' = event
    BY <1>10 DEF vars, admission, peers, table
  <2> QED BY <2>1
  DEF IInv, TablesType, TablesAgree, AcksAreSubscriptions, AdmittedOnce, EventsFollowAcks
<1> QED
  BY <1>3, <1>4, <1>5, <1>6, <1>7, <1>8, <1>9, <1>10, AdmissionKeepsIInv,
     SubscribeKeepsTables, UnsubscribeKeepsTables, BusEventKeepsIInv DEF Next

LEMMA SpecIInv == Spec => []IInv
BY InitIInv, NextIInv, PTL DEF Spec

\* The hub's two tables of subscriptions agree and no group outlives its members,
\* however connections subscribe, fall behind, are cut, die or shut down together.
THEOREM TablesAgreeHolds == Spec => []TablesAgree
<1>1. IInv => TablesAgree
  BY DEF IInv
<1> QED BY SpecIInv, <1>1, PTL

\* No client is sent an event for a subscription other than the one last
\* acknowledged to it.
THEOREM EventsFollowAcksHolds == Spec => []EventsFollowAcks
<1>1. IInv => EventsFollowAcks
  BY DEF IInv
<1> QED BY SpecIInv, <1>1, PTL

-----------------------------------------------------------------------------
(* LiveSocket: types. *)

Nothing == [p \in Panels |-> {}]
Asked == {Merged(w) : w \in Mounts \cup {Nothing}} \cup {{}}
ToHub == [t : {"sub"}, of : Asked] \cup [t : {"req"}, of : Calls]
FromHub == [t : {"hello"}] \cup [t : {"ack", "evt"}, of : Asked] \cup [t : {"res"}, of : Calls]
               \cup [t : {"err"}, of : Calls, unrun : BOOLEAN]
NetTypes ==
    /\ link \in Seq({"opening", "up", "down", "gone"}) /\ up \in Seq(Seq(ToHub)) /\ back \in Seq(Seq(FromHub))
    /\ served \in Seq(Asked) /\ Len(up) = Len(link) /\ Len(back) = Len(link) /\ Len(served) = Len(link)
LiveTypes ==
    /\ status \in {"idle", "connecting", "open"} /\ tickets \in Nat /\ retries \in Nat /\ idling \in BOOLEAN
    /\ socket \in 0..Len(link) /\ everOpened \in BOOLEAN
TopicTypes == wanted \in Mounts \cup {Nothing} /\ sentParams \in Asked /\ layout \in Asked
CallTypes ==
    /\ calls \in [Calls -> {"unsent", "live", "http", "done", "failed"}] /\ ran \in [Calls -> Nat]
    /\ misread \in BOOLEAN /\ mounts \in Nat /\ drops \in Nat

(* Every variable of the dashboard's socket keeps its type. *)
LiveTypeOK == NetTypes /\ LiveTypes /\ TopicTypes /\ CallTypes

(* One connection's queue, or what is said of it, is replaced. *)
LEMMA OneReplaced ==
    ASSUME NEW S, NEW q \in Seq(S), NEW s \in 1..Len(q), NEW x \in S
    PROVE  /\ [q EXCEPT ![s] = x] \in Seq(S) /\ Len([q EXCEPT ![s] = x]) = Len(q)
           /\ [q EXCEPT ![s] = x][s] = x /\ \A i \in 1..Len(q) : i # s => [q EXCEPT ![s] = x][i] = q[i]
BY ExceptSeq

(* Something is put at the end of one connection's queue. *)
LEMMA OneAppended ==
    ASSUME NEW S, NEW q \in Seq(Seq(S)), NEW s \in 1..Len(q), NEW x \in S
    PROVE  /\ [q EXCEPT ![s] = Append(@, x)] = [q EXCEPT ![s] = Append(q[s], x)] /\ Append(q[s], x) \in Seq(S)
           /\ [q EXCEPT ![s] = Append(@, x)] \in Seq(Seq(S)) /\ Len([q EXCEPT ![s] = Append(@, x)]) = Len(q)
<1>1. q[s] \in Seq(S)
  BY ElementOfSeq
<1>2. Append(q[s], x) \in Seq(S)
  BY <1>1
<1>3. [q EXCEPT ![s] = Append(@, x)] = [q EXCEPT ![s] = Append(q[s], x)]
  OBVIOUS
<1>4. QED
  BY <1>2, <1>3, OneReplaced

LEMMA AskedFacts ==
    /\ {} \in Asked
    /\ \A w \in Mounts \cup {Nothing} : Merged(w) \in Asked
    /\ \A a \in Asked : [t |-> "sub", of |-> a] \in ToHub
    /\ \A c \in Calls : [t |-> "req", of |-> c] \in ToHub
BY DEF Asked, ToHub

LEMMA SentTypes ==
    ASSUME NetTypes, NEW s \in 0..Len(link), NEW m \in ToHub
    PROVE  Sent(s, m) \in Seq(Seq(ToHub)) /\ Len(Sent(s, m)) = Len(up)
<1>1. CASE s # 0 /\ link[s] = "up"
  <2>1. s \in 1..Len(up) /\ up \in Seq(Seq(ToHub))
    BY <1>1 DEF NetTypes
  <2>2. QED
    BY <1>1, <2>1, OneAppended DEF Sent
<1>2. CASE ~(s # 0 /\ link[s] = "up")
  BY <1>2 DEF Sent, NetTypes
<1>3. QED
  BY <1>1, <1>2

LEMMA FlushTypes ==
    ASSUME NetTypes, TopicTypes, NEW s \in 0..Len(link), NEW w \in Mounts \cup {Nothing}, Flush(s, w, sentParams)
    PROVE  sentParams' \in Asked /\ layout' \in Asked /\ up' \in Seq(Seq(ToHub)) /\ Len(up') = Len(up)
<1>1. CASE Merged(w) = sentParams
  BY <1>1 DEF Flush, TopicTypes, NetTypes
<1>2. CASE Merged(w) # sentParams
  <2>1. [t |-> "sub", of |-> Merged(w)] \in ToHub /\ Merged(w) \in Asked /\ {} \in Asked
    BY AskedFacts
  <2>2. up' = Sent(s, [t |-> "sub", of |-> Merged(w)]) /\ sentParams' = Merged(w) /\ layout' \in {{}, layout}
    BY <1>2 DEF Flush
  <2>3. up' \in Seq(Seq(ToHub)) /\ Len(up') = Len(up)
    BY <2>1, <2>2, SentTypes
  <2>4. QED
    BY <2>1, <2>2, <2>3 DEF TopicTypes
<1>3. QED
  BY <1>1, <1>2

LEMMA FailPendingTypes ==
    ASSUME CallTypes, FailPending
    PROVE  calls' \in [Calls -> {"unsent", "live", "http", "done", "failed"}]
BY DEF CallTypes, FailPending, Unanswerable

(* A queue of answers loses its first, or its end. *)
LEMMA ShortenedTypes ==
    ASSUME NEW S, NEW q \in Seq(S)
    PROVE  /\ q # <<>> => /\ Tail(q) \in Seq(S) /\ Len(Tail(q)) = Len(q) - 1 /\ Head(q) = q[1] /\ Head(q) \in S /\ Len(q) > 0
                          /\ \A i \in 1..(Len(q) - 1) : Tail(q)[i] = q[i + 1]
           /\ \A n \in 0..Len(q) : /\ SubSeq(q, 1, n) \in Seq(S) /\ Len(SubSeq(q, 1, n)) = n
                                   /\ \A i \in 1..n : SubSeq(q, 1, n)[i] = q[i]
<1>1. ASSUME q # <<>>
      PROVE  /\ Tail(q) \in Seq(S) /\ Len(Tail(q)) = Len(q) - 1 /\ Head(q) = q[1] /\ Head(q) \in S /\ Len(q) > 0
             /\ \A i \in 1..(Len(q) - 1) : Tail(q)[i] = q[i + 1]
  BY <1>1, HeadTailProperties
<1>2. ASSUME NEW n \in 0..Len(q)
      PROVE  /\ SubSeq(q, 1, n) \in Seq(S) /\ Len(SubSeq(q, 1, n)) = n /\ \A i \in 1..n : SubSeq(q, 1, n)[i] = q[i]
  <2>1. \A i \in 1..n : q[i] \in S
    BY ElementOfSeq
  <2>2. QED
    BY <2>1, SubSeqProperties
<1>3. QED
  BY <1>1, <1>2

LEMMA QueuesAre ==
    ASSUME NetTypes, NEW s \in Sockets
    PROVE  /\ Sockets = 1..Len(link) /\ Len(link) \in Nat
           /\ s \in 1..Len(link) /\ s \in 1..Len(up) /\ s \in 1..Len(back) /\ s \in 1..Len(served)
           /\ up[s] \in Seq(ToHub) /\ back[s] \in Seq(FromHub) /\ served[s] \in Asked
BY ElementOfSeq DEF NetTypes, Sockets

LEMMA LiveTypesInitially == LiveInit => LiveTypeOK
<1>1. LiveInit => NetTypes /\ LiveTypes
  <2>1. \A S : <<>> \in Seq(S) /\ Len(<<>>) = 0
    OBVIOUS
  <2>2. LiveInit => NetTypes
    BY <2>1 DEF LiveInit, NetTypes
  <2>3. 0 \in 0..0 /\ 0 \in Nat
    OBVIOUS
  <2>4. LiveInit => LiveTypes
    BY <2>1, <2>3 DEF LiveInit, LiveTypes
  <2>5. QED
    BY <2>2, <2>4
<1>2. LiveInit => TopicTypes
  BY AskedFacts DEF LiveInit, TopicTypes, Nothing
<1>3. LiveInit => CallTypes
  <2>1. 0 \in Nat
    OBVIOUS
  <2>2. QED
    BY <2>1 DEF LiveInit, CallTypes
<1>4. QED
  BY <1>1, <1>2, <1>3 DEF LiveTypeOK

LEMMA MountTypes ==
    ASSUME LiveTypeOK, NEW w \in Mounts, Mount(w)
    PROVE  LiveTypeOK'
<1>1. sentParams' \in Asked /\ layout' \in Asked /\ up' \in Seq(Seq(ToHub)) /\ Len(up') = Len(up)
  <2>1. CASE status = "open"
    BY <2>1, FlushTypes DEF LiveTypeOK, LiveTypes, Mount
  <2>2. CASE status # "open"
    BY <2>2 DEF LiveTypeOK, TopicTypes, NetTypes, Mount
  <2>3. QED
    BY <2>1, <2>2
<1>2. NetTypes'
  BY <1>1 DEF LiveTypeOK, NetTypes, Mount
<1>3. LiveTypes'
  BY DEF LiveTypeOK, LiveTypes, Mount, Connect
<1>4. TopicTypes'
  BY <1>1 DEF TopicTypes, Mount
<1>5. CallTypes'
  BY DEF LiveTypeOK, CallTypes, Mount
<1>6. QED
  BY <1>2, <1>3, <1>4, <1>5 DEF LiveTypeOK

(* The connection in use is given up. *)
LEMMA GivenUpTypes ==
    ASSUME NetTypes, socket \in 0..Len(link),
           link' = IF socket = 0 THEN link ELSE [link EXCEPT ![socket] = "gone"],
           up' = IF socket = 0 THEN up ELSE [up EXCEPT ![socket] = <<>>], UNCHANGED <<back, served>>
    PROVE  NetTypes' /\ Len(link') = Len(link)
<1>1. CASE socket = 0
  BY <1>1 DEF NetTypes
<1>2. CASE socket # 0
  <2>1. socket \in 1..Len(link) /\ socket \in 1..Len(up) /\ link \in Seq({"opening", "up", "down", "gone"}) /\ up \in Seq(Seq(ToHub))
    BY <1>2 DEF NetTypes
  <2>2. <<>> \in Seq(ToHub)
    OBVIOUS
  <2>3. link' \in Seq({"opening", "up", "down", "gone"}) /\ Len(link') = Len(link) /\ up' \in Seq(Seq(ToHub)) /\ Len(up') = Len(up)
    BY <1>2, <2>1, <2>2, OneReplaced
  <2>4. QED
    BY <2>3 DEF NetTypes
<1>3. QED
  BY <1>1, <1>2

LEMMA ConnectionTypes ==
    ASSUME LiveTypeOK, IdleClose \/ RetryFires \/ TicketArrives \/ TicketFails
    PROVE  LiveTypeOK'
<1>1. CASE IdleClose
  <2>1. CASE Wanting(wanted) # {}
    <3>1. UNCHANGED <<status, retries, socket, everOpened, link, up, calls, tickets, topic, back, served, ran, misread, mounts, drops>>
          /\ idling' = FALSE
      BY <1>1, <2>1 DEF IdleClose
    <3>2. QED
      BY <3>1 DEF LiveTypeOK, NetTypes, LiveTypes, TopicTypes, CallTypes, topic
  <2>2. CASE Wanting(wanted) = {}
    <3>1. NetTypes' /\ Len(link') = Len(link)
      BY <1>1, <2>2, GivenUpTypes DEF IdleClose, LiveTypeOK, LiveTypes
    <3>2. LiveTypes'
      <4>1. retries' \in Nat
        BY <1>1, <2>2 DEF IdleClose, Shutdown, LiveTypeOK, LiveTypes
      <4>2. Len(link) \in Nat
        BY DEF LiveTypeOK, NetTypes
      <4>3. QED
        <5>1. status' = "idle" /\ socket' = 0 /\ everOpened' = FALSE /\ idling' = FALSE /\ tickets' = tickets
              /\ socket' \in 0..Len(link')
          BY <1>1, <2>2, <3>1, <4>2 DEF IdleClose, Shutdown
        <5>2. QED
          BY <4>1, <5>1 DEF LiveTypeOK, LiveTypes
    <3>3. CallTypes'
      BY <1>1, <2>2, FailPendingTypes DEF IdleClose, Shutdown, LiveTypeOK, CallTypes
    <3>4. TopicTypes'
      BY <1>1 DEF IdleClose, topic, LiveTypeOK, TopicTypes
    <3>5. QED
      BY <3>1, <3>2, <3>3, <3>4 DEF LiveTypeOK
  <2>3. QED
    BY <2>1, <2>2
<1>2. CASE RetryFires
  BY <1>2 DEF RetryFires, Connect, LiveTypeOK, NetTypes, LiveTypes, TopicTypes, CallTypes, topic, net
<1>3. CASE TicketArrives
  <2>1. tickets' \in Nat /\ UNCHANGED <<status, retries, idling, everOpened, topic, calls, ran, misread, mounts, drops>>
    BY <1>3 DEF TicketArrives, LiveTypeOK, LiveTypes
  <2>2. CASE status # "connecting"
    BY <1>3, <2>1, <2>2 DEF TicketArrives, LiveTypeOK, NetTypes, LiveTypes, TopicTypes, CallTypes, topic, net
  <2>3. CASE status = "connecting"
    <3>1. /\ socket' = Len(link) + 1 /\ link' = Append(link, "opening") /\ up' = Append(up, <<>>)
          /\ back' = Append(back, <<>>) /\ served' = Append(served, {})
      BY <1>3, <2>3 DEF TicketArrives
    <3>2. <<>> \in Seq(ToHub) /\ <<>> \in Seq(FromHub) /\ {} \in Asked
      BY AskedFacts
    <3>3. NetTypes' /\ Len(link') = Len(link) + 1 /\ Len(link) \in Nat
      BY <3>1, <3>2 DEF LiveTypeOK, NetTypes
    <3>4. LiveTypes'
      BY <2>1, <3>1, <3>3 DEF LiveTypeOK, LiveTypes
    <3>5. QED
      BY <2>1, <3>3, <3>4 DEF LiveTypeOK, TopicTypes, CallTypes, topic
  <2>4. QED
    BY <2>2, <2>3
<1>4. CASE TicketFails
  <2>1. tickets' \in Nat /\ drops' \in Nat /\ UNCHANGED <<idling, topic, back, served, ran, misread, mounts>> /\ ScheduleReconnect
    BY <1>4 DEF TicketFails, LiveTypeOK, LiveTypes, CallTypes
  <2>2. CASE Wanting(wanted) # {}
    <3>1. UNCHANGED <<socket, calls, link, up, everOpened>> /\ status' = "connecting" /\ retries' = retries + 1
      BY <1>4, <2>2 DEF TicketFails, ScheduleReconnect
    <3>2. QED
      BY <2>1, <3>1 DEF LiveTypeOK, NetTypes, LiveTypes, TopicTypes, CallTypes, topic
  <2>3. CASE Wanting(wanted) = {}
    <3>0. Shutdown
      BY <2>1, <2>3 DEF ScheduleReconnect
    <3>1. NetTypes' /\ Len(link') = Len(link)
      BY <1>4, <2>3, GivenUpTypes DEF TicketFails, LiveTypeOK, LiveTypes
    <3>2. LiveTypes'
      <4>1. retries' \in Nat
        BY <3>0 DEF Shutdown, LiveTypeOK, LiveTypes
      <4>2. Len(link) \in Nat
        BY DEF LiveTypeOK, NetTypes
      <4>3. QED
        <5>1. status' = "idle" /\ socket' = 0 /\ everOpened' = FALSE /\ idling' = idling /\ socket' \in 0..Len(link')
          BY <2>1, <3>0, <3>1, <4>2 DEF Shutdown
        <5>2. QED
          BY <2>1, <4>1, <5>1 DEF LiveTypeOK, LiveTypes
    <3>3. CallTypes'
      BY <2>1, <3>0, FailPendingTypes DEF Shutdown, LiveTypeOK, CallTypes
    <3>4. TopicTypes'
      BY <2>1 DEF topic, LiveTypeOK, TopicTypes
    <3>5. QED
      BY <3>1, <3>2, <3>3, <3>4 DEF LiveTypeOK
  <2>4. QED
    BY <2>2, <2>3
<1>5. QED
  BY <1>1, <1>2, <1>3, <1>4
LEMMA LinkTypes ==
    ASSUME LiveTypeOK, NEW s \in Sockets, Opened(s) \/ ConnectionDrops(s) \/ Closed(s)
    PROVE  LiveTypeOK'
<1>0. /\ Sockets = 1..Len(link) /\ Len(link) \in Nat /\ s \in 1..Len(link) /\ s \in 1..Len(up) /\ s \in 1..Len(back)
      /\ up[s] \in Seq(ToHub) /\ back[s] \in Seq(FromHub)
      /\ link \in Seq({"opening", "up", "down", "gone"}) /\ up \in Seq(Seq(ToHub)) /\ back \in Seq(Seq(FromHub))
      /\ served \in Seq(Asked) /\ Len(up) = Len(link) /\ Len(back) = Len(link) /\ Len(served) = Len(link)
  BY QueuesAre DEF LiveTypeOK, NetTypes
<1>1. CASE Opened(s)
  <2>1. [t |-> "hello"] \in FromHub
    BY DEF FromHub
  <2>2. <<[t |-> "hello"]>> \in Seq(FromHub)
    BY <2>1
  <2>3. link' \in Seq({"opening", "up", "down", "gone"}) /\ Len(link') = Len(link) /\ back' \in Seq(Seq(FromHub)) /\ Len(back') = Len(back)
    BY <1>0, <1>1, <2>2, OneReplaced DEF Opened
  <2>4. NetTypes'
    BY <1>0, <1>1, <2>3 DEF Opened, NetTypes
  <2>5. LiveTypes' /\ TopicTypes' /\ CallTypes'
    BY <1>1, <2>3 DEF Opened, live, topic, LiveTypeOK, LiveTypes, TopicTypes, CallTypes
  <2>6. QED
    BY <2>4, <2>5 DEF LiveTypeOK
<1>2. CASE ConnectionDrops(s)
  <2>1. PICK n \in 0..Len(back[s]) : back' = [back EXCEPT ![s] = SubSeq(@, 1, n)]
    BY <1>2 DEF ConnectionDrops
  <2>2. SubSeq(back[s], 1, n) \in Seq(FromHub)
    BY <1>0, ShortenedTypes
  <2>3. back' = [back EXCEPT ![s] = SubSeq(back[s], 1, n)]
    BY <2>1
  <2>4. back' \in Seq(Seq(FromHub)) /\ Len(back') = Len(back)
    BY <1>0, <2>2, <2>3, OneReplaced
  <2>5. <<>> \in Seq(ToHub)
    OBVIOUS
  <2>6. link' \in Seq({"opening", "up", "down", "gone"}) /\ Len(link') = Len(link) /\ up' \in Seq(Seq(ToHub)) /\ Len(up') = Len(up)
    BY <1>0, <1>2, <2>5, OneReplaced DEF ConnectionDrops
  <2>7. NetTypes'
    BY <1>0, <1>2, <2>4, <2>6 DEF ConnectionDrops, NetTypes
  <2>8. LiveTypes' /\ TopicTypes' /\ CallTypes'
    BY <1>2, <2>6 DEF ConnectionDrops, live, topic, LiveTypeOK, LiveTypes, TopicTypes, CallTypes
  <2>9. QED
    BY <2>7, <2>8 DEF LiveTypeOK
<1>3. CASE Closed(s)
  <2>1. link' \in Seq({"opening", "up", "down", "gone"}) /\ Len(link') = Len(link)
    BY <1>0, <1>3, OneReplaced DEF Closed
  <2>2. NetTypes'
    BY <1>0, <1>3, <2>1 DEF Closed, NetTypes
  <2>3. CASE socket # s
    BY <1>3, <2>1, <2>2, <2>3 DEF Closed, live, topic, LiveTypeOK, LiveTypes, TopicTypes, CallTypes
  <2>4. CASE socket = s
    <3>1. /\ socket' = 0 /\ FailPending /\ ScheduleReconnect /\ sentParams' = {}
          /\ UNCHANGED <<wanted, layout, tickets, idling, ran, misread, mounts, drops>>
      BY <1>3, <2>4 DEF Closed
    <3>2. CallTypes'
      BY <3>1, FailPendingTypes DEF LiveTypeOK, CallTypes
    <3>3. TopicTypes'
      BY <3>1, AskedFacts DEF LiveTypeOK, TopicTypes
    <3>4. status' \in {"idle", "connecting"} /\ retries' \in Nat /\ everOpened' \in BOOLEAN
      <4>1. retries \in Nat /\ everOpened \in BOOLEAN
        BY DEF LiveTypeOK, LiveTypes
      <4>2. CASE Wanting(wanted) = {}
        <5>1. Shutdown
          BY <3>1, <4>2 DEF ScheduleReconnect
        <5>2. retries' = (IF retries > 0 THEN retries - 1 ELSE 0) /\ status' = "idle" /\ everOpened' = FALSE
          BY <5>1 DEF Shutdown
        <5>3. retries' \in Nat
          BY <4>1, <5>2
        <5>4. QED
          BY <5>2, <5>3
      <4>3. CASE Wanting(wanted) # {}
        BY <3>1, <4>1, <4>3 DEF ScheduleReconnect
      <4>4. QED
        BY <4>2, <4>3
    <3>5. LiveTypes'
      BY <1>0, <2>1, <3>1, <3>4 DEF LiveTypeOK, LiveTypes
    <3>6. QED
      BY <2>2, <3>2, <3>3, <3>5 DEF LiveTypeOK
  <2>5. QED
    BY <2>3, <2>4
<1>4. QED
  BY <1>1, <1>2, <1>3

LEMMA MessagesAre ==
    /\ \A m \in ToHub : /\ m.t \in {"sub", "req"}
                        /\ m.t = "sub" => m.of \in Asked
                        /\ m.t = "req" => m.of \in Calls
    /\ \A m \in FromHub : /\ m.t \in {"hello", "ack", "evt", "res", "err"}
                          /\ m.t \in {"ack", "evt"} => m.of \in Asked
                          /\ m.t \in {"res", "err"} => m.of \in Calls
    /\ [t |-> "hello"] \in FromHub
    /\ \A a \in Asked : [t |-> "ack", of |-> a] \in FromHub /\ [t |-> "evt", of |-> a] \in FromHub
    /\ \A c \in Calls : /\ [t |-> "res", of |-> c] \in FromHub
                        /\ \A u \in BOOLEAN : [t |-> "err", of |-> c, unrun |-> u] \in FromHub
<1>1. \A m \in ToHub : /\ m.t \in {"sub", "req"}
                       /\ m.t = "sub" => m.of \in Asked
                       /\ m.t = "req" => m.of \in Calls
  BY DEF ToHub
<1>2. \A m \in FromHub : /\ m.t \in {"hello", "ack", "evt", "res", "err"}
                         /\ m.t \in {"ack", "evt"} => m.of \in Asked
                         /\ m.t \in {"res", "err"} => m.of \in Calls
  BY DEF FromHub
<1>3. QED
  BY <1>1, <1>2 DEF FromHub

(* What the hub does with a message: what it answers, and what it runs. *)
LEMMA HubTypes ==
    ASSUME LiveTypeOK, NEW s \in Sockets, ServerTakes(s) \/ Frame(s)
    PROVE  LiveTypeOK'
<1>0. /\ Sockets = 1..Len(link) /\ Len(link) \in Nat /\ s \in 1..Len(link) /\ s \in 1..Len(up) /\ s \in 1..Len(back)
      /\ s \in 1..Len(served) /\ up[s] \in Seq(ToHub) /\ back[s] \in Seq(FromHub) /\ served[s] \in Asked
      /\ link \in Seq({"opening", "up", "down", "gone"}) /\ up \in Seq(Seq(ToHub)) /\ back \in Seq(Seq(FromHub))
      /\ served \in Seq(Asked) /\ Len(up) = Len(link) /\ Len(back) = Len(link) /\ Len(served) = Len(link)
  BY QueuesAre DEF LiveTypeOK, NetTypes
<1>1. CASE Frame(s)
  <2>1. [t |-> "evt", of |-> served[s]] \in FromHub
    BY <1>0, MessagesAre
  <2>2. back' \in Seq(Seq(FromHub)) /\ Len(back') = Len(back)
    BY <1>0, <1>1, <2>1, OneAppended DEF Frame
  <2>3. NetTypes'
    BY <1>0, <1>1, <2>2 DEF Frame, NetTypes
  <2>4. QED
    BY <1>1, <2>3 DEF Frame, live, topic, LiveTypeOK, LiveTypes, TopicTypes, CallTypes
<1>2. CASE ServerTakes(s)
  <2>1. up[s] # <<>> /\ up' = [up EXCEPT ![s] = Tail(up[s])] /\ UNCHANGED <<live, topic, link, calls, misread, mounts, drops>>
    BY <1>2 DEF ServerTakes
  <2>2. Tail(up[s]) \in Seq(ToHub) /\ Head(up[s]) \in ToHub
    BY <1>0, <2>1, ShortenedTypes
  <2>3. up' \in Seq(Seq(ToHub)) /\ Len(up') = Len(up)
    BY <1>0, <2>1, <2>2, OneReplaced
  <2>4. /\ back' \in Seq(Seq(FromHub)) /\ Len(back') = Len(back) /\ served' \in Seq(Asked) /\ Len(served') = Len(served)
        /\ ran' \in [Calls -> Nat]
    <3> DEFINE m == Head(up[s])
    <3>0. m \in ToHub /\ ran \in [Calls -> Nat]
      BY <2>2 DEF LiveTypeOK, CallTypes
    <3>1. CASE m.t = "sub" /\ served' = [served EXCEPT ![s] = m.of] /\ ran' = ran
               /\ IF m.of = {} THEN back' = back ELSE back' = [back EXCEPT ![s] = Append(@, [t |-> "ack", of |-> m.of])]
      <4>1. m.of \in Asked
        BY <3>0, <3>1, MessagesAre
      <4>2. [t |-> "ack", of |-> m.of] \in FromHub
        BY <4>1, MessagesAre
      <4> HIDE DEF m
      <4>3. served' \in Seq(Asked) /\ Len(served') = Len(served)
        BY <1>0, <3>1, <4>1, OneReplaced
      <4>4. back' \in Seq(Seq(FromHub)) /\ Len(back') = Len(back)
        <5>1. CASE m.of = {}
          BY <1>0, <3>1, <5>1
        <5>2. CASE m.of # {}
          <6>1. back' = [back EXCEPT ![s] = Append(@, [t |-> "ack", of |-> m.of])]
            BY <3>1, <5>2
          <6>2. QED
            BY <1>0, <4>2, <6>1, OneAppended
        <5>3. QED
          BY <5>1, <5>2
      <4>5. QED
        BY <3>0, <3>1, <4>3, <4>4
    <3>2. CASE /\ m.t = "req" /\ served' = served /\ ran' \in {ran, [ran EXCEPT ![m.of] = @ + 1]}
               /\ \E r \in {[t |-> "err", of |-> m.of, unrun |-> TRUE], [t |-> "res", of |-> m.of],
                             [t |-> "err", of |-> m.of, unrun |-> FALSE]} : back' = [back EXCEPT ![s] = Append(@, r)]
      <4>1. m.of \in Calls
        BY <3>0, <3>2, MessagesAre
      <4>2. PICK r \in FromHub : back' = [back EXCEPT ![s] = Append(@, r)]
        BY <3>2, <4>1, MessagesAre
      <4> HIDE DEF m
      <4>3. back' \in Seq(Seq(FromHub)) /\ Len(back') = Len(back)
        BY <1>0, <4>2, OneAppended
      <4>4. ran' \in [Calls -> Nat]
        BY <3>0, <3>2, <4>1
      <4>5. QED
        BY <1>0, <3>2, <4>3, <4>4
    <3>3. QED
      BY <1>2, <3>1, <3>2 DEF ServerTakes
  <2>5. NetTypes'
    BY <1>0, <2>1, <2>3, <2>4 DEF NetTypes
  <2>6. QED
    BY <2>1, <2>4, <2>5 DEF live, topic, LiveTypeOK, LiveTypes, TopicTypes, CallTypes
<1>3. QED
  BY <1>1, <1>2

LEMMA DeliverTypes ==
    ASSUME LiveTypeOK, NEW s \in Sockets, Deliver(s)
    PROVE  LiveTypeOK'
<1>0. /\ Sockets = 1..Len(link) /\ Len(link) \in Nat /\ s \in 1..Len(link) /\ s \in 1..Len(back) /\ back[s] \in Seq(FromHub)
      /\ back \in Seq(Seq(FromHub)) /\ up \in Seq(Seq(ToHub)) /\ socket \in 0..Len(link)
      /\ status \in {"idle", "connecting", "open"} /\ everOpened \in BOOLEAN /\ misread \in BOOLEAN
      /\ sentParams \in Asked /\ layout \in Asked /\ wanted \in Mounts \cup {Nothing}
      /\ calls \in [Calls -> {"unsent", "live", "http", "done", "failed"}]
  BY QueuesAre DEF LiveTypeOK, NetTypes, LiveTypes, TopicTypes, CallTypes
<1>1. /\ back[s] # <<>> /\ back' = [back EXCEPT ![s] = Tail(back[s])]
      /\ UNCHANGED <<tickets, retries, idling, socket, wanted, link, served, ran, mounts, drops>>
  BY DEF Deliver
<1>2. Tail(back[s]) \in Seq(FromHub) /\ Head(back[s]) \in FromHub
  BY <1>0, <1>1, ShortenedTypes
<1>3. back' \in Seq(Seq(FromHub)) /\ Len(back') = Len(back)
  BY <1>0, <1>1, <1>2, OneReplaced
<1> DEFINE m == Head(back[s])
<1>4. /\ status' \in {"idle", "connecting", "open"} /\ everOpened' \in BOOLEAN /\ sentParams' \in Asked /\ layout' \in Asked
      /\ up' \in Seq(Seq(ToHub)) /\ Len(up') = Len(up) /\ calls' \in [Calls -> {"unsent", "live", "http", "done", "failed"}]
      /\ misread' \in BOOLEAN
  <2>1. CASE socket # s
    BY <1>0, <2>1 DEF Deliver
  <2>2. CASE socket = s /\ m.t = "hello"
    <3>1. status' = "open" /\ everOpened' = TRUE /\ Flush(socket, wanted, sentParams) /\ UNCHANGED <<calls, misread>>
      BY <2>2 DEF Deliver, OnMessage
    <3>2. QED
      BY <1>0, <3>1, FlushTypes DEF LiveTypeOK
  <2>3. CASE socket = s /\ m.t = "ack"
    <3>1. layout' = (IF sentParams = {} THEN layout ELSE m.of) /\ UNCHANGED <<status, everOpened, sentParams, up, calls, misread>>
      BY <2>3 DEF Deliver, OnMessage
    <3>2. m.of \in Asked
      BY <1>2, <2>3, MessagesAre
    <3>3. QED
      BY <1>0, <3>1, <3>2
  <2>4. CASE socket = s /\ m.t = "evt"
    BY <1>0, <2>4 DEF Deliver, OnMessage
  <2>5. CASE socket = s /\ m.t \notin {"hello", "ack", "evt"}
    <3>1. /\ calls' = IF calls[m.of] # "live" THEN calls
                      ELSE [calls EXCEPT ![m.of] = IF m.t = "res" THEN "done" ELSE IF m.unrun THEN "http" ELSE Unanswerable(m.of)]
          /\ UNCHANGED <<status, everOpened, sentParams, layout, up, misread>>
      BY <2>5 DEF Deliver, OnMessage
    <3>2. Unanswerable(m.of) \in {"http", "failed"}
      BY DEF Unanswerable
    <3>3. QED
      BY <1>0, <3>1, <3>2
  <2>6. QED
    BY <2>1, <2>2, <2>3, <2>4, <2>5
<1>5. NetTypes'
  BY <1>1, <1>3, <1>4 DEF LiveTypeOK, NetTypes
<1>6. QED
  BY <1>1, <1>4, <1>5 DEF LiveTypeOK, LiveTypes, TopicTypes, CallTypes

LEMMA CallStepTypes ==
    ASSUME LiveTypeOK, NEW c \in Calls, Call(c) \/ CallTimesOut(c) \/ HttpFetch(c)
    PROVE  LiveTypeOK'
<1>1. calls \in [Calls -> {"unsent", "live", "http", "done", "failed"}] /\ ran \in [Calls -> Nat] /\ Unanswerable(c) \in {"http", "failed"}
  BY DEF LiveTypeOK, CallTypes, Unanswerable
<1>2. CASE Call(c)
  <2>1. up' \in Seq(Seq(ToHub)) /\ Len(up') = Len(up)
    <3>1. up' = up \/ up' = Sent(socket, [t |-> "req", of |-> c])
      BY <1>2 DEF Call
    <3>2. [t |-> "req", of |-> c] \in ToHub
      BY AskedFacts
    <3>3. QED
      BY <3>1, <3>2, SentTypes DEF LiveTypeOK, LiveTypes, NetTypes
  <2>2. NetTypes'
    BY <1>2, <2>1 DEF Call, LiveTypeOK, NetTypes
  <2>3. calls' \in [Calls -> {"unsent", "live", "http", "done", "failed"}]
    BY <1>1, <1>2 DEF Call
  <2>4. QED
    BY <1>2, <2>2, <2>3 DEF Call, live, topic, LiveTypeOK, LiveTypes, TopicTypes, CallTypes
<1>3. CASE CallTimesOut(c)
  <2>1. calls' \in [Calls -> {"unsent", "live", "http", "done", "failed"}]
    BY <1>1, <1>3 DEF CallTimesOut
  <2>2. QED
    BY <1>3, <2>1 DEF CallTimesOut, live, topic, net, LiveTypeOK, NetTypes, LiveTypes, TopicTypes, CallTypes
<1>4. CASE HttpFetch(c)
  <2>1. calls' \in [Calls -> {"unsent", "live", "http", "done", "failed"}] /\ ran' \in [Calls -> Nat]
    BY <1>1, <1>4 DEF HttpFetch
  <2>2. QED
    BY <1>4, <2>1 DEF HttpFetch, live, topic, net, LiveTypeOK, NetTypes, LiveTypes, TopicTypes, CallTypes
<1>5. QED
  BY <1>2, <1>3, <1>4

LEMMA LiveTypesKept == LiveTypeOK /\ [LiveNext]_liveVars => LiveTypeOK'
<1> SUFFICES ASSUME LiveTypeOK, [LiveNext]_liveVars PROVE LiveTypeOK'
  OBVIOUS
<1>1. CASE IdleClose \/ RetryFires \/ TicketArrives \/ TicketFails
  BY <1>1, ConnectionTypes
<1>2. CASE \E s \in Sockets : Opened(s) \/ Closed(s) \/ ConnectionDrops(s)
  BY <1>2, LinkTypes
<1>3. CASE \E s \in Sockets : ServerTakes(s) \/ Frame(s)
  BY <1>3, HubTypes
<1>4. CASE \E s \in Sockets : Deliver(s)
  BY <1>4, DeliverTypes
<1>5. CASE \E w \in Mounts : Mount(w)
  BY <1>5, MountTypes
<1>6. CASE \E c \in Calls : Call(c) \/ CallTimesOut(c) \/ HttpFetch(c)
  BY <1>6, CallStepTypes
<1>7. CASE UNCHANGED liveVars
  BY <1>7 DEF liveVars, live, topic, net, LiveTypeOK, NetTypes, LiveTypes, TopicTypes, CallTypes
<1>8. QED
  BY <1>1, <1>2, <1>3, <1>4, <1>5, <1>6, <1>7 DEF LiveNext, LiveProgress

(* The connection, its queues, its subscription and the calls over it are  *)
(* what they are declared to be, for any components, calls and numbers of  *)
(* connections, changes and losses.                                        *)
THEOREM LiveTypeCorrect == LiveSpec => []LiveTypeOK
BY LiveTypesKept, LiveTypesInitially, PTL DEF LiveSpec

-----------------------------------------------------------------------------
(* A write is made at most once.                                           *)

(* What a queue holds, and how a step changes it: it may lose its first    *)
(* message or its end, and gain one.                                       *)
In(q, s, i) == s \in DOMAIN q /\ i \in DOMAIN q[s]
Place(s, r, k, i) == IF s = r THEN i + k ELSE i
CameFrom(q, p, r, k) ==
    \A s, i \in Nat : In(p, s, i) => In(q, s, Place(s, r, k, i)) /\ p[s][i] = q[s][Place(s, r, k, i)]
CameOrPut(q, p, r, m) ==
    \A s, i \in Nat : In(p, s, i) => (In(q, s, i) /\ p[s][i] = q[s][i]) \/ (s = r /\ i = Len(q[s]) + 1 /\ p[s][i] = m)

LEMMA CameSame == ASSUME NEW q, NEW r PROVE CameFrom(q, q, r, 0)
BY DEF CameFrom, Place

LEMMA CameCut ==
    ASSUME NEW S, NEW q \in Seq(Seq(S)), NEW r \in 1..Len(q), NEW n \in 0..Len(q[r])
    PROVE  CameFrom(q, [q EXCEPT ![r] = SubSeq(q[r], 1, n)], r, 0)
<1> DEFINE p == [q EXCEPT ![r] = SubSeq(q[r], 1, n)]
<1>1. q[r] \in Seq(S) /\ DOMAIN q = 1..Len(q) /\ Len(q) \in Nat
  BY ElementOfSeq
<1>2. SubSeq(q[r], 1, n) \in Seq(S) /\ Len(SubSeq(q[r], 1, n)) = n /\ \A i \in 1..n : SubSeq(q[r], 1, n)[i] = q[r][i]
  BY <1>1, ShortenedTypes
<1>3. DOMAIN SubSeq(q[r], 1, n) = 1..n /\ DOMAIN q[r] = 1..Len(q[r]) /\ Len(q[r]) \in Nat
  BY <1>1, <1>2
<1>4. DOMAIN p = DOMAIN q /\ p[r] = SubSeq(q[r], 1, n) /\ \A s \in DOMAIN q : s # r => p[s] = q[s]
  BY <1>1
<1> HIDE DEF p
<1>5. ASSUME NEW s \in Nat, NEW i \in Nat, In(p, s, i) PROVE In(q, s, i) /\ p[s][i] = q[s][i]
  <2>1. CASE s = r
    <3>1. i \in 1..n /\ n <= Len(q[r])
      BY <1>3, <1>4, <1>5, <2>1 DEF In
    <3>2. QED
      BY <1>1, <1>2, <1>3, <1>4, <2>1, <3>1 DEF In
  <2>2. CASE s # r
    BY <1>4, <1>5, <2>2 DEF In
  <2>3. QED
    BY <2>1, <2>2
<1>6. CameFrom(q, p, r, 0)
  BY <1>5 DEF CameFrom, Place
<1>7. QED
  BY <1>6 DEF p

LEMMA CameEmptied ==
    ASSUME NEW q, NEW r PROVE CameFrom(q, [q EXCEPT ![r] = <<>>], r, 0)
<1>1. ASSUME NEW s \in Nat, NEW i \in Nat, In([q EXCEPT ![r] = <<>>], s, i)
      PROVE  In(q, s, i) /\ [q EXCEPT ![r] = <<>>][s][i] = q[s][i]
  BY <1>1 DEF In
<1>2. QED
  BY <1>1 DEF CameFrom, Place

LEMMA CameTail ==
    ASSUME NEW S, NEW q \in Seq(Seq(S)), NEW r \in 1..Len(q), q[r] # <<>>
    PROVE  CameFrom(q, [q EXCEPT ![r] = Tail(q[r])], r, 1)
<1> DEFINE p == [q EXCEPT ![r] = Tail(q[r])]
<1>1. q[r] \in Seq(S) /\ DOMAIN q = 1..Len(q) /\ Len(q) \in Nat
  BY ElementOfSeq
<1>2. Tail(q[r]) \in Seq(S) /\ Len(Tail(q[r])) = Len(q[r]) - 1 /\ Len(q[r]) > 0
      /\ \A i \in 1..(Len(q[r]) - 1) : Tail(q[r])[i] = q[r][i + 1]
  BY <1>1, ShortenedTypes
<1>3. DOMAIN Tail(q[r]) = 1..(Len(q[r]) - 1) /\ DOMAIN q[r] = 1..Len(q[r]) /\ Len(q[r]) \in Nat
  BY <1>1, <1>2
<1>4. DOMAIN p = DOMAIN q /\ p[r] = Tail(q[r]) /\ \A s \in DOMAIN q : s # r => p[s] = q[s]
  BY <1>1
<1> HIDE DEF p
<1>5. ASSUME NEW s \in Nat, NEW i \in Nat, In(p, s, i)
      PROVE  In(q, s, Place(s, r, 1, i)) /\ p[s][i] = q[s][Place(s, r, 1, i)]
  <2>1. CASE s = r
    <3>1. i \in 1..(Len(q[r]) - 1) /\ i + 1 \in 1..Len(q[r])
      BY <1>3, <1>4, <1>5, <2>1 DEF In
    <3>2. QED
      BY <1>1, <1>2, <1>3, <1>4, <2>1, <3>1 DEF In, Place
  <2>2. CASE s # r
    BY <1>4, <1>5, <2>2 DEF In, Place
  <2>3. QED
    BY <2>1, <2>2
<1>6. CameFrom(q, p, r, 1)
  BY <1>5 DEF CameFrom
<1>7. QED
  BY <1>6 DEF p

LEMMA CamePut ==
    ASSUME NEW S, NEW q \in Seq(Seq(S)), NEW r \in 1..Len(q), NEW m \in S
    PROVE  CameOrPut(q, [q EXCEPT ![r] = Append(@, m)], r, m)
<1> DEFINE p == [q EXCEPT ![r] = Append(q[r], m)]
<1>1. q[r] \in Seq(S) /\ DOMAIN q = 1..Len(q) /\ Len(q) \in Nat
  BY ElementOfSeq
<1>2. /\ DOMAIN Append(q[r], m) = 1..(Len(q[r]) + 1) /\ DOMAIN q[r] = 1..Len(q[r]) /\ Len(q[r]) \in Nat
      /\ Append(q[r], m)[Len(q[r]) + 1] = m /\ \A i \in 1..Len(q[r]) : Append(q[r], m)[i] = q[r][i]
  BY <1>1
<1>3. DOMAIN p = DOMAIN q /\ p[r] = Append(q[r], m) /\ \A s \in DOMAIN q : s # r => p[s] = q[s]
  BY <1>1
<1>4. p = [q EXCEPT ![r] = Append(@, m)]
  OBVIOUS
<1> HIDE DEF p
<1>5. ASSUME NEW s \in Nat, NEW i \in Nat, In(p, s, i)
      PROVE  (In(q, s, i) /\ p[s][i] = q[s][i]) \/ (s = r /\ i = Len(q[s]) + 1 /\ p[s][i] = m)
  <2>1. CASE s = r
    <3>1. i \in 1..(Len(q[r]) + 1)
      BY <1>2, <1>3, <1>5, <2>1 DEF In
    <3>2. i \in 1..Len(q[r]) \/ i = Len(q[r]) + 1
      BY <1>2, <3>1
    <3>3. QED
      BY <1>1, <1>2, <1>3, <2>1, <3>2 DEF In
  <2>2. CASE s # r
    BY <1>3, <1>5, <2>2 DEF In
  <2>3. QED
    BY <2>1, <2>2
<1>6. QED
  BY <1>4, <1>5 DEF CameOrPut

(* A new connection has nothing on its way. *)
LEMMA CameOpened ==
    ASSUME NEW S, NEW q \in Seq(Seq(S)) PROVE \A r : CameFrom(q, Append(q, <<>>), r, 0)
<1>1. ASSUME NEW s \in Nat, NEW i \in Nat, In(Append(q, <<>>), s, i)
      PROVE  In(q, s, i) /\ Append(q, <<>>)[s][i] = q[s][i]
  <2>1. DOMAIN Append(q, <<>>) = 1..(Len(q) + 1) /\ DOMAIN q = 1..Len(q) /\ Len(q) \in Nat
    OBVIOUS
  <2>2. s \in 1..(Len(q) + 1)
    BY <1>1, <2>1 DEF In
  <2>3. s # Len(q) + 1
    <3>1. Append(q, <<>>)[Len(q) + 1] = <<>> /\ DOMAIN <<>> = {}
      OBVIOUS
    <3>2. QED
      BY <1>1, <3>1 DEF In
  <2>4. s \in 1..Len(q)
    BY <2>1, <2>2, <2>3
  <2>5. Append(q, <<>>)[s] = q[s]
    BY <2>4
  <2>6. QED
    BY <1>1, <2>1, <2>4, <2>5 DEF In
<1>2. ASSUME NEW r, NEW s \in Nat, NEW i \in Nat PROVE Place(s, r, 0, i) = i
  BY DEF Place
<1>3. QED
  BY <1>1, <1>2 DEF CameFrom

ReqAt(u, c, s, i) == In(u, s, i) /\ u[s][i].t = "req" /\ u[s][i].of = c
AnsAt(b, c, s, i) == In(b, s, i) /\ b[s][i].t \in {"res", "err"} /\ b[s][i].of = c
(* How often the route ran of which this is the answer. *)
Told(m) == IF m.t = "res" THEN 1 ELSE IF m.unrun THEN 0 ELSE 1

(* What is on the connections of call c, with the page's idea of it (st)   *)
(* and how often its route ran (n): one request at most, or one answer,    *)
(* over all the connections there ever were.  A call that waits for HTTP   *)
(* has not run: that is what lets it run there.                            *)
OneRequest(u, c) == \A s, t, i, j \in Nat : ReqAt(u, c, s, i) /\ ReqAt(u, c, t, j) => s = t /\ i = j
OneAnswer(b, c) == \A s, t, i, j \in Nat : AnsAt(b, c, s, i) /\ AnsAt(b, c, t, j) => s = t /\ i = j
OneOfThem(u, b, c) == \A s, t, i, j \in Nat : ~(ReqAt(u, c, s, i) /\ AnsAt(b, c, t, j))
Asking(u, st, n, c) == \A s, i \in Nat : ReqAt(u, c, s, i) => n = 0 /\ st \in {"live", "failed"}
Answering(b, st, n, c) == \A s, i \in Nat : AnsAt(b, c, s, i) => n = Told(b[s][i]) /\ st \in {"live", "failed"}
Runs(st, n) == n \in {0, 1} /\ (st \in {"unsent", "http"} => n = 0) /\ (st = "done" => n = 1)
CallHeld(u, b, st, n, c) ==
    /\ OneRequest(u, c) /\ OneAnswer(b, c) /\ OneOfThem(u, b, c)
    /\ Asking(u, st, n, c) /\ Answering(b, st, n, c) /\ Runs(st, n)
Held(c) == CallHeld(up, back, calls[c], ran[c], c)

ReqsStay(u, v, c, r, k) == \A s, i \in Nat : ReqAt(v, c, s, i) => ReqAt(u, c, s, Place(s, r, k, i))
AnsStay(b, d, c, r, k) ==
    \A s, i \in Nat : AnsAt(d, c, s, i) => AnsAt(b, c, s, Place(s, r, k, i)) /\ d[s][i] = b[s][Place(s, r, k, i)]

LEMMA Stay ==
    ASSUME NEW q, NEW p, NEW c, NEW r, NEW k, CameFrom(q, p, r, k)
    PROVE  ReqsStay(q, p, c, r, k) /\ AnsStay(q, p, c, r, k)
BY DEF CameFrom, ReqsStay, AnsStay, ReqAt, AnsAt

LEMMA PlaceIs == \A s, r : \A i \in Nat : /\ Place(s, r, 0, i) = i
                                          /\ \A k \in {0, 1} : Place(s, r, k, i) \in Nat
                                          /\ Place(s, s, 1, i) = i + 1
BY DEF Place

LEMMA PlaceIsOneToOne ==
    \A s, r : \A k \in {0, 1}, i, j \in Nat : Place(s, r, k, i) = Place(s, r, k, j) => i = j
BY DEF Place

LEMMA StayPut ==
    ASSUME NEW q, NEW p, NEW c, NEW r, NEW m, CameOrPut(q, p, r, m)
    PROVE  /\ ~(m.t = "req" /\ m.of = c) => ReqsStay(q, p, c, r, 0)
           /\ ~(m.t \in {"res", "err"} /\ m.of = c) => AnsStay(q, p, c, r, 0)
<1>1. ASSUME ~(m.t = "req" /\ m.of = c), NEW s \in Nat, NEW i \in Nat, ReqAt(p, c, s, i)
      PROVE  ReqAt(q, c, s, Place(s, r, 0, i))
  BY <1>1, PlaceIs DEF CameOrPut, ReqAt
<1>2. ASSUME ~(m.t \in {"res", "err"} /\ m.of = c), NEW s \in Nat, NEW i \in Nat, AnsAt(p, c, s, i)
      PROVE  AnsAt(q, c, s, Place(s, r, 0, i)) /\ p[s][i] = q[s][Place(s, r, 0, i)]
  BY <1>2, PlaceIs DEF CameOrPut, AnsAt
<1>3. QED
  BY <1>1, <1>2 DEF ReqsStay, AnsStay

(* A step that puts nothing of the call on its way, and at most gives up   *)
(* waiting for it, leaves what is held of it.                              *)
LEMMA HeldQuietly ==
    ASSUME NEW u, NEW v, NEW b, NEW d, NEW st, NEW tt, NEW n, NEW c, NEW r, NEW k \in {0, 1}, NEW l \in {0, 1},
           CallHeld(u, b, st, n, c), ReqsStay(u, v, c, r, k), AnsStay(b, d, c, r, l),
           tt = st \/ (st = "live" /\ tt = "failed")
    PROVE  CallHeld(v, d, tt, n, c)
<1>1. OneRequest(v, c)
  <2> SUFFICES ASSUME NEW s \in Nat, NEW t \in Nat, NEW i \in Nat, NEW j \in Nat, ReqAt(v, c, s, i), ReqAt(v, c, t, j)
               PROVE  s = t /\ i = j
    BY DEF OneRequest
  <2>1. ReqAt(u, c, s, Place(s, r, k, i)) /\ ReqAt(u, c, t, Place(t, r, k, j))
    BY DEF ReqsStay
  <2>2. Place(s, r, k, i) \in Nat /\ Place(t, r, k, j) \in Nat
    BY PlaceIs
  <2>3. s = t /\ Place(s, r, k, i) = Place(t, r, k, j)
    BY <2>1, <2>2 DEF CallHeld, OneRequest
  <2>4. QED
    BY <2>3, PlaceIsOneToOne
<1>2. OneAnswer(d, c)
  <2> SUFFICES ASSUME NEW s \in Nat, NEW t \in Nat, NEW i \in Nat, NEW j \in Nat, AnsAt(d, c, s, i), AnsAt(d, c, t, j)
               PROVE  s = t /\ i = j
    BY DEF OneAnswer
  <2>1. AnsAt(b, c, s, Place(s, r, l, i)) /\ AnsAt(b, c, t, Place(t, r, l, j))
    BY DEF AnsStay
  <2>2. Place(s, r, l, i) \in Nat /\ Place(t, r, l, j) \in Nat
    BY PlaceIs
  <2>3. s = t /\ Place(s, r, l, i) = Place(t, r, l, j)
    BY <2>1, <2>2 DEF CallHeld, OneAnswer
  <2>4. QED
    BY <2>3, PlaceIsOneToOne
<1>3. OneOfThem(v, d, c)
  BY PlaceIs DEF OneOfThem, CallHeld, ReqsStay, AnsStay
<1>4. Asking(v, tt, n, c)
  BY PlaceIs DEF Asking, CallHeld, ReqsStay
<1>5. Answering(d, tt, n, c)
  BY PlaceIs DEF Answering, CallHeld, AnsStay
<1>6. Runs(tt, n)
  BY DEF CallHeld, Runs
<1>7. QED
  BY <1>1, <1>2, <1>3, <1>4, <1>5, <1>6 DEF CallHeld

LEMMA SameStays == \A q, c, r : ReqsStay(q, q, c, r, 0) /\ AnsStay(q, q, c, r, 0)
BY CameSame, Stay

LEMMA SentStays ==
    ASSUME NetTypes, NEW s \in 0..Len(link), NEW m \in ToHub, NEW c, ~(m.t = "req" /\ m.of = c), NEW r
    PROVE  ReqsStay(up, Sent(s, m), c, r, 0)
<1>1. CASE s # 0 /\ link[s] = "up"
  <2>1. s \in 1..Len(up) /\ up \in Seq(Seq(ToHub)) /\ Sent(s, m) = [up EXCEPT ![s] = Append(@, m)]
    BY <1>1 DEF NetTypes, Sent
  <2>2. CameOrPut(up, Sent(s, m), s, m)
    <3>1. CameOrPut(up, [up EXCEPT ![s] = Append(@, m)], s, m)
      BY <2>1, CamePut
    <3>2. QED
      BY <2>1, <3>1
  <2>3. ReqsStay(up, Sent(s, m), c, s, 0)
    BY <2>2, StayPut
  <2>4. QED
    BY <2>3, PlaceIs DEF ReqsStay
<1>2. CASE ~(s # 0 /\ link[s] = "up")
  BY <1>2, SameStays DEF Sent
<1>3. QED
  BY <1>1, <1>2

LEMMA FlushStays ==
    ASSUME NetTypes, NEW s \in 0..Len(link), NEW w \in Mounts \cup {Nothing}, NEW sent, Flush(s, w, sent), NEW c, NEW r
    PROVE  ReqsStay(up, up', c, r, 0)
<1>1. CASE Merged(w) = sent
  BY <1>1, SameStays DEF Flush
<1>2. CASE Merged(w) # sent
  <2>1. [t |-> "sub", of |-> Merged(w)] \in ToHub /\ up' = Sent(s, [t |-> "sub", of |-> Merged(w)])
    BY <1>2, AskedFacts DEF Flush
  <2>2. QED
    BY <2>1, SentStays
<1>3. QED
  BY <1>1, <1>2

(* What a page does with the calls it has lost: a write is not repeated. *)
LEMMA FailPendingHolds ==
    ASSUME CallTypes, NEW c \in Writes, FailPending
    PROVE  calls'[c] = calls[c] \/ (calls[c] = "live" /\ calls'[c] = "failed")
BY LiveSocketAssumption DEF FailPending, Unanswerable, CallTypes, Calls

LEMMA HeldInitially == ASSUME LiveInit, NEW c \in Writes PROVE Held(c)
<1>1. c \in Calls
  BY DEF Calls
<1>2. up = <<>> /\ back = <<>> /\ calls[c] = "unsent" /\ ran[c] = 0
  BY <1>1 DEF LiveInit
<1>3. \A s, i : ~ReqAt(up, c, s, i) /\ ~AnsAt(back, c, s, i)
  BY <1>2 DEF ReqAt, AnsAt, In
<1>4. QED
  BY <1>2, <1>3 DEF Held, CallHeld, OneRequest, OneAnswer, OneOfThem, Asking, Answering, Runs

(* The steps of the connection put no request of a write on its way. *)
LEMMA ConnectionHolds ==
    ASSUME LiveTypeOK, NEW c \in Writes, Held(c),
           \/ IdleClose \/ RetryFires \/ TicketArrives \/ TicketFails \/ (\E w \in Mounts : Mount(w))
           \/ \E s \in Sockets : Opened(s) \/ ConnectionDrops(s) \/ Closed(s)
    PROVE  Held(c)'
<1>0. CallTypes /\ NetTypes /\ c \in Calls /\ socket \in 0..Len(link)
  BY DEF LiveTypeOK, Calls, LiveTypes
<1> SUFFICES ASSUME TRUE
             PROVE  /\ ran'[c] = ran[c]
                    /\ calls'[c] = calls[c] \/ (calls[c] = "live" /\ calls'[c] = "failed")
                    /\ \E r : ReqsStay(up, up', c, r, 0) /\ AnsStay(back, back', c, r, 0)
  BY HeldQuietly DEF Held
<1>1. CASE IdleClose \/ TicketFails
  <2>1. calls'[c] = calls[c] \/ (calls[c] = "live" /\ calls'[c] = "failed")
    <3>1. FailPending \/ calls' = calls
      BY <1>1 DEF IdleClose, TicketFails, ScheduleReconnect, Shutdown
    <3>2. QED
      BY <1>0, <3>1, FailPendingHolds
  <2>2. up' = up \/ up' = [up EXCEPT ![socket] = <<>>]
    BY <1>1 DEF IdleClose, TicketFails
  <2>3. ReqsStay(up, up', c, socket, 0)
    BY <2>2, CameEmptied, Stay, SameStays
  <2>4. ran' = ran /\ back' = back
    BY <1>1 DEF IdleClose, TicketFails
  <2>5. QED
    BY <2>1, <2>3, <2>4, SameStays
<1>2. CASE RetryFires
  BY <1>2, SameStays DEF RetryFires, net
<1>3. CASE TicketArrives
  <2>1. ran' = ran /\ calls' = calls
    BY <1>3 DEF TicketArrives
  <2>2. (up' = up /\ back' = back) \/ (up' = Append(up, <<>>) /\ back' = Append(back, <<>>))
    BY <1>3 DEF TicketArrives, net
  <2>3. CameFrom(up, Append(up, <<>>), 0, 0) /\ CameFrom(back, Append(back, <<>>), 0, 0)
    BY <1>0, CameOpened DEF NetTypes
  <2>4. ReqsStay(up, up', c, 0, 0) /\ AnsStay(back, back', c, 0, 0)
    BY <2>2, <2>3, Stay, SameStays
  <2>5. QED
    BY <2>1, <2>4
<1>4. CASE \E w \in Mounts : Mount(w)
  <2>1. PICK w \in Mounts : Mount(w)
    BY <1>4
  <2>2. ran' = ran /\ calls' = calls /\ back' = back
    BY <2>1 DEF Mount
  <2>3. ReqsStay(up, up', c, 0, 0)
    <3>1. CASE status = "open"
      <4>1. Flush(socket, w, sentParams)
        BY <2>1, <3>1 DEF Mount
      <4>2. QED
        BY <1>0, <4>1, FlushStays
    <3>2. CASE status # "open"
      BY <2>1, <3>2, SameStays DEF Mount
    <3>3. QED
      BY <3>1, <3>2
  <2>4. QED
    BY <2>2, <2>3, SameStays
<1>5. CASE \E s \in Sockets : Opened(s)
  <2>1. PICK s \in Sockets : Opened(s)
    BY <1>5
  <2>2. ran' = ran /\ calls' = calls /\ up' = up /\ back' = [back EXCEPT ![s] = <<[t |-> "hello"]>>]
    BY <2>1 DEF Opened
  <2>3. AnsStay(back, back', c, 0, 0)
    <3>1. ASSUME NEW z \in Nat, NEW i \in Nat, AnsAt(back', c, z, i) PROVE AnsAt(back, c, z, i) /\ back'[z][i] = back[z][i]
      <4>1. z \in DOMAIN back /\ i \in DOMAIN back'[z] /\ back'[z][i].t \in {"res", "err"}
        BY <2>2, <3>1 DEF AnsAt, In
      <4>2. z # s
        <5>1. ASSUME z = s PROVE FALSE
          <6>1. back'[z] = <<[t |-> "hello"]>>
            BY <2>2, <4>1, <5>1
          <6>2. i = 1 /\ back'[z][i] = [t |-> "hello"]
            BY <4>1, <6>1
          <6>3. QED
            BY <4>1, <6>2
        <5>2. QED
          BY <5>1
      <4>3. back'[z] = back[z]
        BY <2>2, <4>1, <4>2
      <4>4. QED
        BY <3>1, <4>1, <4>3 DEF AnsAt, In
    <3>2. QED
      BY <3>1, PlaceIs DEF AnsStay
  <2>4. QED
    BY <2>2, <2>3, SameStays
<1>6. CASE \E s \in Sockets : ConnectionDrops(s)
  <2>1. PICK s \in Sockets : ConnectionDrops(s)
    BY <1>6
  <2>2. PICK n \in 0..Len(back[s]) : back' = [back EXCEPT ![s] = SubSeq(back[s], 1, n)]
    BY <2>1 DEF ConnectionDrops
  <2>3. ran' = ran /\ calls' = calls /\ up' = [up EXCEPT ![s] = <<>>]
    BY <2>1 DEF ConnectionDrops
  <2>4. CameFrom(back, back', s, 0) /\ CameFrom(up, up', s, 0)
    <3>1. s \in 1..Len(back) /\ back \in Seq(Seq(FromHub))
      BY <1>0, QueuesAre DEF NetTypes
    <3>2. CameFrom(back, [back EXCEPT ![s] = SubSeq(back[s], 1, n)], s, 0)
      BY <3>1, CameCut
    <3>3. CameFrom(up, [up EXCEPT ![s] = <<>>], s, 0)
      BY CameEmptied
    <3>4. QED
      BY <2>2, <2>3, <3>2, <3>3
  <2>5. QED
    BY <2>3, <2>4, Stay
<1>7. CASE \E s \in Sockets : Closed(s)
  <2>1. PICK s \in Sockets : Closed(s)
    BY <1>7
  <2>2. ran' = ran /\ up' = up /\ back' = back /\ (calls' = calls \/ FailPending)
    BY <2>1 DEF Closed
  <2>3. QED
    BY <1>0, <2>2, FailPendingHolds, SameStays
<1>8. QED
  BY <1>1, <1>2, <1>3, <1>4, <1>5, <1>6, <1>7

(* The hub takes a request once, and answers it once. *)
LEMMA HubHolds ==
    ASSUME LiveTypeOK, NEW c \in Writes, Held(c), NEW s \in Sockets, ServerTakes(s) \/ Frame(s)
    PROVE  Held(c)'
<1>0. /\ CallTypes /\ NetTypes /\ c \in Calls /\ s \in Nat
      /\ s \in 1..Len(up) /\ s \in 1..Len(back) /\ up[s] \in Seq(ToHub) /\ back[s] \in Seq(FromHub) /\ served[s] \in Asked
      /\ up \in Seq(Seq(ToHub)) /\ back \in Seq(Seq(FromHub))
  BY QueuesAre DEF LiveTypeOK, NetTypes, Calls
<1>1. CASE Frame(s)
  <2>1. ran' = ran /\ calls' = calls /\ up' = up /\ back' = [back EXCEPT ![s] = Append(@, [t |-> "evt", of |-> served[s]])]
    BY <1>1 DEF Frame
  <2>2. [t |-> "evt", of |-> served[s]] \in FromHub
    BY <1>0, MessagesAre
  <2>3. CameOrPut(back, back', s, [t |-> "evt", of |-> served[s]])
    <3>1. CameOrPut(back, [back EXCEPT ![s] = Append(@, [t |-> "evt", of |-> served[s]])], s, [t |-> "evt", of |-> served[s]])
      BY <1>0, <2>2, CamePut
    <3>2. QED
      BY <2>1, <3>1
  <2>4. AnsStay(back, back', c, s, 0)
    BY <2>3, StayPut
  <2>5. QED
    BY <2>1, <2>4, SameStays, HeldQuietly DEF Held
<1>2. CASE ServerTakes(s)
  <2> DEFINE m == Head(up[s])
  <2>1. /\ up[s] # <<>> /\ up' = [up EXCEPT ![s] = Tail(up[s])] /\ calls' = calls
        /\ m \in ToHub /\ m = up[s][1] /\ Len(up[s]) > 0
    BY <1>0, <1>2, ShortenedTypes DEF ServerTakes
  <2>2. ReqsStay(up, up', c, s, 1)
    <3>1. CameFrom(up, [up EXCEPT ![s] = Tail(up[s])], s, 1)
      BY <1>0, <2>1, CameTail
    <3>2. QED
      BY <2>1, <3>1, Stay
  <2>3. CASE m.t = "sub"
    <3>1. ran' = ran /\ IF m.of = {} THEN back' = back ELSE back' = [back EXCEPT ![s] = Append(@, [t |-> "ack", of |-> m.of])]
      BY <1>2, <2>3 DEF ServerTakes
    <3>2. [t |-> "ack", of |-> m.of] \in FromHub
      BY <2>1, <2>3, MessagesAre
    <3>3. AnsStay(back, back', c, s, 0)
      <4> HIDE DEF m
      <4>1. CASE m.of = {}
        BY <3>1, <4>1, SameStays
      <4>2. CASE m.of # {}
        <5>1. CameOrPut(back, [back EXCEPT ![s] = Append(@, [t |-> "ack", of |-> m.of])], s, [t |-> "ack", of |-> m.of])
          BY <1>0, <3>2, CamePut
        <5>2. CameOrPut(back, back', s, [t |-> "ack", of |-> m.of])
          BY <3>1, <4>2, <5>1
        <5>3. QED
          BY <5>2, StayPut
      <4>3. QED
        BY <4>1, <4>2
    <3>4. QED
      BY <2>1, <2>2, <3>1, <3>3, HeldQuietly DEF Held
  <2>4. CASE m.t = "req"
    <3>1. /\ m.of \in Calls
          /\ \E a \in {[t |-> "err", of |-> m.of, unrun |-> TRUE], [t |-> "res", of |-> m.of], [t |-> "err", of |-> m.of, unrun |-> FALSE]} :
                /\ back' = [back EXCEPT ![s] = Append(@, a)]
                /\ ran' = IF Told(a) = 0 THEN ran ELSE [ran EXCEPT ![m.of] = @ + 1]
      <4>1. m.of \in Calls
        BY <2>1, <2>4, MessagesAre
      <4> DEFINE refused == [t |-> "err", of |-> m.of, unrun |-> TRUE]
                 done == [t |-> "res", of |-> m.of]
                 late == [t |-> "err", of |-> m.of, unrun |-> FALSE]
      <4>2. Told(refused) = 0 /\ Told(done) = 1 /\ Told(late) = 1
        BY DEF Told
      <4>3. \/ ran' = ran /\ back' = [back EXCEPT ![s] = Append(@, refused)]
            \/ ran' = [ran EXCEPT ![m.of] = @ + 1] /\ \E a \in {done, late} : back' = [back EXCEPT ![s] = Append(@, a)]
        BY <1>2, <2>4 DEF ServerTakes
      <4> HIDE DEF refused, done, late, m
      <4>4. \E a \in {refused, done, late} :
              back' = [back EXCEPT ![s] = Append(@, a)] /\ ran' = IF Told(a) = 0 THEN ran ELSE [ran EXCEPT ![m.of] = @ + 1]
        <5>1. CASE ran' = ran /\ back' = [back EXCEPT ![s] = Append(@, refused)]
          BY <4>2, <5>1
        <5>2. ASSUME NEW a \in {done, late}, ran' = [ran EXCEPT ![m.of] = @ + 1], back' = [back EXCEPT ![s] = Append(@, a)]
              PROVE  /\ a \in {refused, done, late} /\ back' = [back EXCEPT ![s] = Append(@, a)]
                     /\ ran' = IF Told(a) = 0 THEN ran ELSE [ran EXCEPT ![m.of] = @ + 1]
          <6>1. Told(a) = 1
            BY <4>2, <5>2
          <6>2. QED
            BY <5>2, <6>1
        <5>3. QED
          BY <4>3, <5>1, <5>2
      <4>5. QED
        BY <4>1, <4>4 DEF refused, done, late
    <3>2. PICK a \in FromHub : /\ back' = [back EXCEPT ![s] = Append(@, a)] /\ a.t \in {"res", "err"} /\ a.of = m.of
                               /\ Told(a) \in {0, 1} /\ ran' = IF Told(a) = 0 THEN ran ELSE [ran EXCEPT ![m.of] = @ + 1]
      <4>1. PICK a \in {[t |-> "err", of |-> m.of, unrun |-> TRUE], [t |-> "res", of |-> m.of], [t |-> "err", of |-> m.of, unrun |-> FALSE]} :
                /\ back' = [back EXCEPT ![s] = Append(@, a)]
                /\ ran' = IF Told(a) = 0 THEN ran ELSE [ran EXCEPT ![m.of] = @ + 1]
        BY <3>1
      <4> HIDE DEF m
      <4>2. a \in FromHub
        BY <3>1, <4>1, MessagesAre
      <4>3. a.t \in {"res", "err"} /\ a.of = m.of
        BY <4>1
      <4>4. Told(a) \in {0, 1}
        BY DEF Told
      <4>5. QED
        BY <4>1, <4>2, <4>3, <4>4
    <3>3. CameOrPut(back, back', s, a)
      <4>1. CameOrPut(back, [back EXCEPT ![s] = Append(@, a)], s, a)
        BY <1>0, CamePut
      <4>2. QED
        BY <3>2, <4>1
    <3>4. CASE m.of # c
      <4>1. ran'[c] = ran[c]
        BY <1>0, <3>2, <3>4 DEF CallTypes
      <4>2. AnsStay(back, back', c, s, 0)
        BY <3>2, <3>3, <3>4, StayPut
      <4>3. QED
        BY <2>1, <2>2, <4>1, <4>2, HeldQuietly DEF Held
    <3>5. CASE m.of = c
      <4>1. ReqAt(up, c, s, 1)
        BY <1>0, <2>1, <2>4, <3>5 DEF ReqAt, In
      <4>2. ran[c] = 0 /\ calls[c] \in {"live", "failed"} /\ \A z, i \in Nat : ~AnsAt(back, c, z, i)
        BY <1>0, <4>1 DEF Held, CallHeld, Asking, OneOfThem
      <4>3. \A z, i \in Nat : ~ReqAt(up', c, z, i)
        <5> SUFFICES ASSUME NEW z \in Nat, NEW i \in Nat, ReqAt(up', c, z, i) PROVE FALSE
          OBVIOUS
        <5>1. ReqAt(up, c, z, Place(z, s, 1, i)) /\ Place(z, s, 1, i) \in Nat
          BY <2>2, PlaceIs DEF ReqsStay
        <5>2. z = s /\ Place(z, s, 1, i) = 1
          BY <1>0, <4>1, <5>1 DEF Held, CallHeld, OneRequest
        <5>3. i = 0
          BY <5>2, PlaceIs
        <5>4. up'[s] = Tail(up[s]) /\ Tail(up[s]) \in Seq(ToHub)
          BY <1>0, <2>1, ShortenedTypes
        <5>5. i \in 1..Len(Tail(up[s]))
          BY <5>2, <5>4 DEF ReqAt, In
        <5>6. QED
          BY <5>3, <5>5
      <4>4. \A z, i \in Nat : AnsAt(back', c, z, i) => z = s /\ i = Len(back[s]) + 1 /\ back'[z][i] = a
        <5> SUFFICES ASSUME NEW z \in Nat, NEW i \in Nat, AnsAt(back', c, z, i)
                     PROVE  z = s /\ i = Len(back[s]) + 1 /\ back'[z][i] = a
          OBVIOUS
        <5>1. In(back', z, i) /\ ~(In(back, z, i) /\ back'[z][i] = back[z][i])
          BY <4>2 DEF AnsAt
        <5>2. QED
          BY <3>3, <5>1 DEF CameOrPut
      <4>5. ran'[c] = Told(a) /\ calls'[c] = calls[c]
        <5>1. m.of \in DOMAIN ran /\ ran[m.of] = 0
          <6>1. c \in DOMAIN ran /\ ran[c] = 0
            BY <1>0, <4>2 DEF CallTypes
          <6> HIDE DEF m
          <6>2. QED
            BY <3>5, <6>1
        <5> HIDE DEF m
        <5>2. CASE Told(a) = 0
          <6>1. ran' = ran
            BY <3>2, <5>2
          <6>2. QED
            BY <2>1, <4>2, <5>2, <6>1
        <5>3. CASE Told(a) = 1
          <6>1. ran' = [ran EXCEPT ![m.of] = @ + 1]
            BY <3>2, <5>3
          <6>2. ran'[m.of] = 1
            BY <5>1, <6>1
          <6>3. QED
            BY <3>5, <5>3, <6>2, <2>1
        <5>4. QED
          BY <2>1, <3>2, <5>2, <5>3
      <4>6. QED
        BY <3>2, <4>2, <4>3, <4>4, <4>5
           DEF Held, CallHeld, OneRequest, OneAnswer, OneOfThem, Asking, Answering, Runs
    <3>6. QED
      BY <3>4, <3>5
  <2>5. QED
    BY <2>1, <2>3, <2>4, MessagesAre
<1>3. QED
  BY <1>1, <1>2

(* The page takes an answer once, and believes it only while it waits. *)
LEMMA DeliverHolds ==
    ASSUME LiveTypeOK, NEW c \in Writes, Held(c), NEW s \in Sockets, Deliver(s)
    PROVE  Held(c)'
<1>0. /\ CallTypes /\ NetTypes /\ c \in Calls /\ s \in Nat /\ socket \in 0..Len(link) /\ wanted \in Mounts \cup {Nothing}
      /\ s \in 1..Len(back) /\ back[s] \in Seq(FromHub) /\ back \in Seq(Seq(FromHub))
  BY QueuesAre DEF LiveTypeOK, LiveTypes, TopicTypes, NetTypes, Calls
<1> DEFINE m == Head(back[s])
<1>1. /\ back[s] # <<>> /\ back' = [back EXCEPT ![s] = Tail(back[s])] /\ ran' = ran
      /\ m \in FromHub /\ m = back[s][1] /\ Len(back[s]) > 0
  BY <1>0, ShortenedTypes DEF Deliver
<1>2. AnsStay(back, back', c, s, 1)
  <2>1. CameFrom(back, [back EXCEPT ![s] = Tail(back[s])], s, 1)
    BY <1>0, <1>1, CameTail
  <2>2. QED
    BY <1>1, <2>1, Stay
<1>3. ReqsStay(up, up', c, s, 0)
  <2>1. CASE socket = s /\ m.t = "hello"
    <3>1. Flush(socket, wanted, sentParams)
      BY <2>1 DEF Deliver, OnMessage
    <3>2. QED
      BY <1>0, <3>1, FlushStays
  <2>2. CASE ~(socket = s /\ m.t = "hello")
    <3>1. up' = up
      BY <2>2 DEF Deliver, OnMessage
    <3>2. QED
      BY <3>1, SameStays
  <2>3. QED
    BY <2>1, <2>2
<1>4. CASE calls'[c] = calls[c]
  BY <1>1, <1>2, <1>3, <1>4, HeldQuietly DEF Held
<1>5. CASE calls'[c] # calls[c]
  <2>1. socket = s /\ m.t \notin {"hello", "ack", "evt"}
    BY <1>5 DEF Deliver, OnMessage
  <2>2. calls' = IF calls[m.of] # "live" THEN calls
                 ELSE [calls EXCEPT ![m.of] = IF m.t = "res" THEN "done" ELSE IF m.unrun THEN "http" ELSE Unanswerable(m.of)]
    BY <2>1 DEF Deliver, OnMessage
  <2>3. m.of = c /\ calls[c] = "live"
    BY <1>0, <1>5, <2>2 DEF CallTypes
  <2>4. calls'[c] = IF m.t = "res" THEN "done" ELSE IF m.unrun THEN "http" ELSE "failed"
    BY <1>0, <2>2, <2>3, LiveSocketAssumption DEF CallTypes, Unanswerable
  <2>5. m.t \in {"res", "err"}
    BY <1>1, <2>1, MessagesAre
  <2>6. AnsAt(back, c, s, 1)
    BY <1>0, <1>1, <2>3, <2>5 DEF AnsAt, In
  <2>7. ran[c] = Told(m) /\ \A z, i \in Nat : ~ReqAt(up, c, z, i)
    BY <1>0, <1>1, <2>6 DEF Held, CallHeld, Answering, OneOfThem
  <2>8. \A z, i \in Nat : ~ReqAt(up', c, z, i)
    BY <1>3, <2>7, PlaceIs DEF ReqsStay
  <2>9. \A z, i \in Nat : ~AnsAt(back', c, z, i)
    <3> SUFFICES ASSUME NEW z \in Nat, NEW i \in Nat, AnsAt(back', c, z, i) PROVE FALSE
      OBVIOUS
    <3>1. AnsAt(back, c, z, Place(z, s, 1, i)) /\ Place(z, s, 1, i) \in Nat
      BY <1>2, PlaceIs DEF AnsStay
    <3>2. z = s /\ Place(z, s, 1, i) = 1
      <4>1. OneAnswer(back, c) /\ s \in Nat /\ 1 \in Nat
        BY <1>0 DEF Held, CallHeld
      <4>2. \A j \in Nat : AnsAt(back, c, z, j) => z = s /\ j = 1
        BY <2>6, <4>1 DEF OneAnswer
      <4>3. QED
        BY <3>1, <4>2
    <3>3. i = 0
      BY <3>2, PlaceIs
    <3>4. back'[s] = Tail(back[s]) /\ Tail(back[s]) \in Seq(FromHub)
      BY <1>0, <1>1, ShortenedTypes
    <3>5. i \in 1..Len(Tail(back[s]))
      BY <3>2, <3>4 DEF AnsAt, In
    <3>6. QED
      BY <3>3, <3>5
  <2>10. Runs(calls'[c], ran'[c])
    <3> HIDE DEF m
    <3>1. ran'[c] = Told(m)
      BY <1>1, <2>7
    <3>2. QED
      BY <2>4, <3>1 DEF Told, Runs
  <2>11. QED
    BY <2>8, <2>9, <2>10 DEF Held, CallHeld, OneRequest, OneAnswer, OneOfThem, Asking, Answering
<1>6. QED
  BY <1>4, <1>5

(* A call that goes out was on no connection; one that waits for HTTP, the *)
(* same.                                                                   *)
LEMMA CallHolds ==
    ASSUME LiveTypeOK, NEW c \in Writes, Held(c), NEW k \in Calls, Call(k) \/ CallTimesOut(k) \/ HttpFetch(k)
    PROVE  Held(c)'
<1>0. CallTypes /\ NetTypes /\ c \in Calls /\ socket \in 0..Len(link) /\ [t |-> "req", of |-> k] \in ToHub
  BY AskedFacts DEF LiveTypeOK, LiveTypes, Calls
<1>1. back' = back
  BY DEF Call, CallTimesOut, HttpFetch, net
<1>2. CASE k # c
  <2>1. calls'[c] = calls[c] /\ ran'[c] = ran[c]
    BY <1>0, <1>2 DEF Call, CallTimesOut, HttpFetch, CallTypes
  <2>2. up' = up \/ up' = Sent(socket, [t |-> "req", of |-> k])
    BY DEF Call, CallTimesOut, HttpFetch, net
  <2>3. ReqsStay(up, up', c, 0, 0)
    BY <1>0, <1>2, <2>2, SentStays, SameStays
  <2>4. QED
    BY <1>1, <2>1, <2>3, SameStays, HeldQuietly DEF Held
<1>3. CASE k = c /\ CallTimesOut(k)
  <2>1. up' = up /\ ran' = ran /\ calls[c] = "live" /\ calls'[c] = "failed"
    BY <1>0, <1>3, LiveSocketAssumption DEF CallTimesOut, Unanswerable, net, CallTypes
  <2>2. QED
    BY <1>1, <2>1, SameStays, HeldQuietly DEF Held
<1>4. CASE k = c /\ (Call(k) \/ HttpFetch(k))
  <2>1. calls[c] \in {"unsent", "http"} /\ ran[c] = 0
    BY <1>4 DEF Call, HttpFetch, Held, CallHeld, Runs
  <2>2. (\A s, i \in Nat : ~ReqAt(up, c, s, i)) /\ (\A s, i \in Nat : ~AnsAt(back, c, s, i))
    BY <2>1 DEF Held, CallHeld, Asking, Answering
  <2>3. CASE up' = up
    <3>1. Runs(calls'[c], ran'[c])
      <4>1. CASE Call(c)
        BY <1>0, <2>1, <4>1 DEF Call, Runs, CallTypes
      <4>2. CASE HttpFetch(c)
        BY <1>0, <2>1, <4>2 DEF HttpFetch, Runs, CallTypes
      <4>3. QED
        BY <1>4, <4>1, <4>2
    <3>2. QED
      BY <1>1, <2>2, <2>3, <3>1 DEF Held, CallHeld, OneRequest, OneAnswer, OneOfThem, Asking, Answering
  <2>4. CASE up' # up
    <3>1. /\ Call(c) /\ socket # 0 /\ link[socket] = "up" /\ calls'[c] = "live" /\ ran' = ran
          /\ up' = Sent(socket, [t |-> "req", of |-> c])
      BY <1>0, <1>4, <2>4 DEF Call, HttpFetch, net, CallTypes
    <3>2. CameOrPut(up, up', socket, [t |-> "req", of |-> c])
      <4>1. socket \in 1..Len(up) /\ up \in Seq(Seq(ToHub)) /\ up' = [up EXCEPT ![socket] = Append(@, [t |-> "req", of |-> c])]
        BY <1>0, <3>1 DEF Sent, NetTypes
      <4>2. CameOrPut(up, [up EXCEPT ![socket] = Append(@, [t |-> "req", of |-> c])], socket, [t |-> "req", of |-> c])
        BY <1>0, <1>4, <4>1, CamePut
      <4>3. QED
        BY <4>1, <4>2
    <3>3. \A s, i \in Nat : ReqAt(up', c, s, i) => s = socket /\ i = Len(up[s]) + 1
      <4> SUFFICES ASSUME NEW s \in Nat, NEW i \in Nat, ReqAt(up', c, s, i) PROVE s = socket /\ i = Len(up[s]) + 1
        OBVIOUS
      <4>1. In(up', s, i) /\ ~(In(up, s, i) /\ up'[s][i] = up[s][i])
        BY <2>2 DEF ReqAt
      <4>2. QED
        BY <3>2, <4>1 DEF CameOrPut
    <3>4. QED
      BY <1>1, <2>1, <2>2, <3>1, <3>3 DEF Held, CallHeld, OneRequest, OneAnswer, OneOfThem, Asking, Answering, Runs
  <2>5. QED
    BY <2>3, <2>4
<1>5. QED
  BY <1>2, <1>3, <1>4

LEMMA HeldByEachStep ==
    ASSUME LiveTypeOK, NEW c \in Writes, Held(c), [LiveNext]_liveVars
    PROVE  Held(c)'
<1>1. CASE \/ IdleClose \/ RetryFires \/ TicketArrives \/ TicketFails \/ (\E w \in Mounts : Mount(w))
           \/ \E s \in Sockets : Opened(s) \/ ConnectionDrops(s) \/ Closed(s)
  BY <1>1, ConnectionHolds
<1>2. CASE \E s \in Sockets : ServerTakes(s) \/ Frame(s)
  BY <1>2, HubHolds
<1>3. CASE \E s \in Sockets : Deliver(s)
  BY <1>3, DeliverHolds
<1>4. CASE \E k \in Calls : Call(k) \/ CallTimesOut(k) \/ HttpFetch(k)
  BY <1>4, CallHolds
<1>5. CASE UNCHANGED liveVars
  <2>1. up' = up /\ back' = back /\ calls' = calls /\ ran' = ran
    BY <1>5 DEF liveVars, net
  <2>2. QED
    BY <2>1 DEF Held
<1>6. QED
  BY <1>1, <1>2, <1>3, <1>4, <1>5 DEF LiveNext, LiveProgress

(* A change the page asks for is made at most once, and once when the page *)
(* is told so, however many connections are lost and whatever is repeated  *)
(* over HTTP.                                                              *)
THEOREM WritesHappenOnce == LiveSpec => []WritesRunOnce
<1> DEFINE Inv == LiveTypeOK /\ \A c \in Writes : Held(c)
<1>1. LiveInit => Inv
  BY LiveTypesInitially, HeldInitially
<1>2. LiveTypeOK /\ [LiveNext]_liveVars => LiveTypeOK'
  BY LiveTypesKept
<1>3. Inv /\ [LiveNext]_liveVars => Inv'
  BY <1>2, HeldByEachStep
<1>4. Inv => WritesRunOnce
  BY DEF WritesRunOnce, Held, CallHeld, Runs
<1>5. QED
  BY <1>1, <1>3, <1>4, PTL DEF LiveSpec

-----------------------------------------------------------------------------
(* A frame is read by its own columns.                                     *)

(* Of the queue q of the connection in use: every frame goes by the last   *)
(* acknowledgement before it, or by the columns the page already has; and  *)
(* what the hub would send next goes by the last one of all.               *)
NoAck(q, a, b) == \A k \in a..b : q[k].t # "ack"
GoesByLayout(q, lay) == \A i \in 1..Len(q) : q[i].t = "evt" /\ NoAck(q, 1, i - 1) => lay \in {{}, q[i].of}
GoesByAck(q) ==
    \A i, j \in 1..Len(q) : j < i /\ q[i].t = "evt" /\ q[j].t = "ack" /\ NoAck(q, j + 1, i - 1) => q[i].of = q[j].of
NextByLayout(q, sv, lay) == sv # {} /\ NoAck(q, 1, Len(q)) => lay \in {{}, sv}
NextByAck(q, sv) == \A j \in 1..Len(q) : q[j].t = "ack" /\ NoAck(q, j + 1, Len(q)) => sv \in {{}, q[j].of}
(* Columns that are kept while nothing is subscribed, from a connection    *)
(* that was lost: nothing of the new one goes by them.                     *)
KeptUnused(q, u, sv, sent, lay) ==
    sent = {} /\ lay # {} => /\ sv = {} /\ \A i \in 1..Len(q) : q[i].t \notin {"ack", "evt"}
                             /\ \A i \in 1..Len(u) : u[i].t # "sub"
Read(q, u, sv, isUp, sent, lay) ==
    /\ GoesByLayout(q, lay) /\ GoesByAck(q) /\ (isUp => NextByLayout(q, sv, lay) /\ NextByAck(q, sv))
    /\ KeptUnused(q, u, sv, sent, lay)
UnservedAtFirst == \A s \in Sockets : link[s] = "opening" => served[s] = {}
ColumnsKept ==
    /\ UnservedAtFirst
    /\ socket # 0 => Read(back[socket], up[socket], served[socket], link[socket] = "up", sentParams, layout)

(* The end of the queue is lost, with the connection. *)
LEMMA CutReads ==
    ASSUME NEW q \in Seq(FromHub), NEW n \in 0..Len(q), GoesByAck(q), NEW lay, GoesByLayout(q, lay)
    PROVE  GoesByAck(SubSeq(q, 1, n)) /\ GoesByLayout(SubSeq(q, 1, n), lay)
<1> DEFINE p == SubSeq(q, 1, n)
<1>1. Len(p) = n /\ (\A i \in 1..n : p[i] = q[i]) /\ Len(q) \in Nat /\ n <= Len(q)
  BY ShortenedTypes
<1> HIDE DEF p
<1>2. ASSUME NEW a \in Nat, NEW b \in Int, b <= n, a > 0, NoAck(p, a, b) PROVE NoAck(q, a, b)
  BY <1>1, <1>2 DEF NoAck
<1>3. ASSUME NEW i \in 1..n, NEW j \in 1..n, j < i, p[i].t = "evt", p[j].t = "ack", NoAck(p, j + 1, i - 1)
      PROVE  p[i].of = p[j].of
  <2>1. NoAck(q, j + 1, i - 1)
    BY <1>2, <1>3
  <2>2. QED
    BY <1>1, <1>3, <2>1 DEF GoesByAck
<1>4. ASSUME NEW i \in 1..n, p[i].t = "evt", NoAck(p, 1, i - 1) PROVE lay \in {{}, p[i].of}
  <2>1. NoAck(q, 1, i - 1)
    BY <1>2, <1>4
  <2>2. QED
    BY <1>1, <1>4, <2>1 DEF GoesByLayout
<1>5. GoesByAck(p)
  BY <1>1, <1>3 DEF GoesByAck
<1>6. GoesByLayout(p, lay)
  BY <1>1, <1>4 DEF GoesByLayout
<1>7. QED
  BY <1>5, <1>6 DEF p

(* The hub puts an answer, a frame by what it serves, or an acknowledgement *)
(* with what it serves now.                                                *)
LEMMA PutReads ==
    ASSUME NEW q \in Seq(FromHub), NEW m \in FromHub, NEW lay, NEW sv, NEW tv,
           GoesByLayout(q, lay), GoesByAck(q), NextByLayout(q, sv, lay), NextByAck(q, sv),
           \/ m.t \in {"res", "err"} /\ tv = sv
           \/ m.t = "evt" /\ m.of = sv /\ sv # {} /\ tv = sv
           \/ m.t = "ack" /\ m.of = tv
    PROVE  /\ GoesByLayout(Append(q, m), lay) /\ GoesByAck(Append(q, m))
           /\ NextByLayout(Append(q, m), tv, lay) /\ NextByAck(Append(q, m), tv)
<1> DEFINE p == Append(q, m)
<1>1. /\ Len(q) \in Nat /\ Len(p) = Len(q) + 1 /\ p[Len(q) + 1] = m /\ \A i \in 1..Len(q) : p[i] = q[i]
  OBVIOUS
<1> HIDE DEF p
<1> DEFINE n == Len(q)
<1>2. ASSUME NEW a \in Nat, NEW b \in Int, b <= n, a > 0, NoAck(p, a, b) PROVE NoAck(q, a, b)
  BY <1>1, <1>2 DEF NoAck
<1>3. ASSUME NEW i \in 1..(n + 1), NEW j \in 1..(n + 1), j < i, p[i].t = "evt", p[j].t = "ack", NoAck(p, j + 1, i - 1)
      PROVE  p[i].of = p[j].of
  <2>1. j \in 1..n /\ NoAck(q, j + 1, i - 1) /\ q[j].t = "ack" /\ p[j] = q[j]
    BY <1>1, <1>2, <1>3
  <2>2. CASE i \in 1..n
    BY <1>1, <1>3, <2>1, <2>2 DEF GoesByAck
  <2>3. CASE i = n + 1
    <3>1. NoAck(q, j + 1, Len(q)) /\ m.t = "evt" /\ m.of = sv /\ sv # {}
      BY <1>1, <1>3, <2>1, <2>3
    <3>2. sv \in {{}, q[j].of}
      BY <2>1, <3>1 DEF NextByAck
    <3>3. QED
      BY <1>1, <2>1, <2>3, <3>1, <3>2
  <2>4. QED
    BY <1>1, <2>2, <2>3
<1>4. ASSUME NEW i \in 1..(n + 1), p[i].t = "evt", NoAck(p, 1, i - 1) PROVE lay \in {{}, p[i].of}
  <2>1. NoAck(q, 1, i - 1)
    BY <1>1, <1>2, <1>4
  <2>2. CASE i \in 1..n
    BY <1>1, <1>4, <2>1, <2>2 DEF GoesByLayout
  <2>3. CASE i = n + 1
    <3>1. NoAck(q, 1, Len(q)) /\ p[i] = m /\ m.t = "evt" /\ m.of = sv /\ sv # {}
      BY <1>1, <1>4, <2>1, <2>3
    <3>2. QED
      BY <3>1 DEF NextByLayout
  <2>4. QED
    BY <1>1, <2>2, <2>3
<1>5. ASSUME NoAck(p, 1, n + 1), tv # {} PROVE lay \in {{}, tv}
  <2>1. m.t # "ack" /\ tv = sv
    BY <1>1, <1>5 DEF NoAck
  <2>2. NoAck(q, 1, Len(q))
    BY <1>1, <1>5 DEF NoAck
  <2>3. QED
    BY <1>5, <2>1, <2>2 DEF NextByLayout
<1>6. ASSUME NEW j \in 1..(n + 1), p[j].t = "ack", NoAck(p, j + 1, n + 1) PROVE tv \in {{}, p[j].of}
  <2>1. CASE j = n + 1
    BY <1>1, <1>6, <2>1
  <2>2. CASE j \in 1..n
    <3>1. m.t # "ack" /\ tv = sv
      BY <1>1, <1>6, <2>2 DEF NoAck
    <3>2. NoAck(q, j + 1, Len(q))
      BY <1>1, <1>6, <2>2 DEF NoAck
    <3>3. QED
      BY <1>1, <1>6, <2>2, <3>1, <3>2 DEF NextByAck
  <2>3. QED
    BY <1>1, <2>1, <2>2
<1>7. GoesByAck(p)
  BY <1>1, <1>3 DEF GoesByAck
<1>8. GoesByLayout(p, lay)
  BY <1>1, <1>4 DEF GoesByLayout
<1>9. NextByLayout(p, tv, lay)
  BY <1>1, <1>5 DEF NextByLayout
<1>10. NextByAck(p, tv)
  BY <1>1, <1>6 DEF NextByAck
<1>11. QED
  BY <1>7, <1>8, <1>9, <1>10 DEF p

(* The page takes the first; an acknowledgement gives it its columns, or   *)
(* none when it has asked for none meanwhile.                              *)
LEMMA TailReads ==
    ASSUME NEW q \in Seq(FromHub), q # <<>>, NEW sv, NEW isUp \in BOOLEAN, NEW lay, NEW mine,
           GoesByLayout(q, lay), GoesByAck(q), isUp => NextByLayout(q, sv, lay) /\ NextByAck(q, sv),
           IF q[1].t = "ack" THEN mine \in {{}, q[1].of} ELSE mine \in {{}, lay}
    PROVE  /\ GoesByLayout(Tail(q), mine) /\ GoesByAck(Tail(q))
           /\ isUp => NextByLayout(Tail(q), sv, mine) /\ NextByAck(Tail(q), sv)
<1> DEFINE p == Tail(q)
<1> DEFINE n == Len(p)
<1>1. /\ Len(q) \in Nat /\ n \in Nat /\ Len(q) = n + 1 /\ \A i \in 1..n : p[i] = q[i + 1]
  BY ShortenedTypes
<1> HIDE DEF p
<1>2. ASSUME NEW a \in Nat, NEW b \in Int, b <= n, a > 0, NoAck(p, a, b) PROVE NoAck(q, a + 1, b + 1)
  <2> SUFFICES ASSUME NEW k \in (a + 1)..(b + 1) PROVE q[k].t # "ack"
    BY DEF NoAck
  <2>1. k - 1 \in a..b /\ k - 1 \in 1..n /\ (k - 1) + 1 = k
    BY <1>1, <1>2
  <2>2. QED
    BY <1>1, <1>2, <2>1 DEF NoAck
<1>3. ASSUME NEW i \in 1..n, NEW j \in 1..n, j < i, p[i].t = "evt", p[j].t = "ack", NoAck(p, j + 1, i - 1)
      PROVE  p[i].of = p[j].of
  <2>1. NoAck(q, (j + 1) + 1, (i + 1) - 1)
    BY <1>1, <1>2, <1>3
  <2>2. i + 1 \in 1..Len(q) /\ j + 1 \in 1..Len(q) /\ j + 1 < i + 1
    BY <1>1, <1>3
  <2>3. QED
    BY <1>1, <1>3, <2>1, <2>2 DEF GoesByAck
<1>4. ASSUME NEW i \in 1..n, p[i].t = "evt", NoAck(p, 1, i - 1) PROVE mine \in {{}, p[i].of}
  <2>1. NoAck(q, 1 + 1, (i + 1) - 1) /\ i + 1 \in 1..Len(q) /\ 1 \in 1..Len(q) /\ 1 < i + 1 /\ q[i + 1] = p[i]
    BY <1>1, <1>2, <1>4
  <2>2. CASE q[1].t = "ack"
    BY <1>4, <2>1, <2>2 DEF GoesByAck
  <2>3. CASE q[1].t # "ack"
    <3>1. NoAck(q, 1, (i + 1) - 1)
      BY <2>1, <2>3 DEF NoAck
    <3>2. QED
      BY <1>4, <2>1, <2>3, <3>1 DEF GoesByLayout
  <2>4. QED
    BY <2>2, <2>3
<1>5. ASSUME isUp, NoAck(p, 1, n), sv # {} PROVE mine \in {{}, sv}
  <2>1. NoAck(q, 1 + 1, Len(q)) /\ 1 \in 1..Len(q)
    BY <1>1, <1>2, <1>5
  <2>2. CASE q[1].t = "ack"
    BY <1>5, <2>1, <2>2 DEF NextByAck
  <2>3. CASE q[1].t # "ack"
    <3>1. NoAck(q, 1, Len(q))
      BY <1>1, <2>1, <2>3 DEF NoAck
    <3>2. QED
      BY <1>5, <2>3, <3>1 DEF NextByLayout
  <2>4. QED
    BY <2>2, <2>3
<1>6. ASSUME isUp, NEW j \in 1..n, p[j].t = "ack", NoAck(p, j + 1, n) PROVE sv \in {{}, p[j].of}
  <2>1. NoAck(q, (j + 1) + 1, Len(q)) /\ j + 1 \in 1..Len(q)
    BY <1>1, <1>2, <1>6
  <2>2. QED
    BY <1>1, <1>6, <2>1 DEF NextByAck
<1>7. GoesByAck(p)
  BY <1>3 DEF GoesByAck
<1>8. GoesByLayout(p, mine)
  BY <1>4 DEF GoesByLayout
<1>9. isUp => NextByLayout(p, sv, mine) /\ NextByAck(p, sv)
  BY <1>5, <1>6 DEF NextByLayout, NextByAck
<1>10. QED
  BY <1>7, <1>8, <1>9 DEF p

LEMMA ColumnsInitially == LiveInit => ColumnsKept /\ ~misread
<1>1. DOMAIN <<>> = {}
  OBVIOUS
<1>2. QED
  BY <1>1 DEF LiveInit, ColumnsKept, UnservedAtFirst, Sockets

(* What the page asks for changes; the queue to it does not. *)
LEMMA AskedReads ==
    ASSUME NEW q, NEW u, NEW v, NEW sv, NEW isUp, NEW sent, NEW lay, NEW asks, NEW mine,
           Read(q, u, sv, isUp, sent, lay),
           \/ v = u /\ asks = sent /\ mine = lay
           \/ (asks # {} \/ mine = {}) /\ mine \in {{}, lay}
    PROVE  Read(q, v, sv, isUp, asks, mine)
<1>1. GoesByLayout(q, mine)
  BY DEF Read, GoesByLayout
<1>2. isUp => NextByLayout(q, sv, mine)
  BY DEF Read, NextByLayout
<1>3. KeptUnused(q, v, sv, asks, mine)
  BY DEF Read, KeptUnused
<1>4. QED
  BY <1>1, <1>2, <1>3 DEF Read

LEMMA FlushReads ==
    ASSUME NEW w, Flush(socket, w, sentParams), NEW q, NEW sv, NEW isUp,
           Read(q, up[socket], sv, isUp, sentParams, layout)
    PROVE  Read(q, up'[socket], sv, isUp, sentParams', layout')
<1>1. CASE Merged(w) = sentParams
  BY <1>1 DEF Flush
<1>2. CASE Merged(w) # sentParams
  <2>1. (sentParams' # {} \/ layout' = {}) /\ layout' \in {{}, layout}
    BY <1>2 DEF Flush
  <2>2. QED
    BY <2>1, AskedReads
<1>3. QED
  BY <1>1, <1>2

LEMMA PageReads ==
    ASSUME LiveTypeOK, ColumnsKept,
           \/ \E w \in Mounts : Mount(w)
           \/ \E c \in Calls : Call(c) \/ CallTimesOut(c) \/ HttpFetch(c)
    PROVE  ColumnsKept' /\ misread' = misread
<1>1. UNCHANGED <<socket, link, back, served, misread>>
  BY DEF Mount, Call, CallTimesOut, HttpFetch, net, live
<1>2. UnservedAtFirst'
  BY <1>1 DEF ColumnsKept, UnservedAtFirst, Sockets
<1>3. ASSUME socket # 0 PROVE Read(back[socket], up'[socket], served[socket], link[socket] = "up", sentParams', layout')
  <2>0. Read(back[socket], up[socket], served[socket], link[socket] = "up", sentParams, layout)
    BY <1>3 DEF ColumnsKept
  <2>1. CASE \E w \in Mounts : Mount(w)
    <3>1. PICK w \in Mounts : Mount(w)
      BY <2>1
    <3>2. CASE status = "open"
      <4>1. Flush(socket, w, sentParams)
        BY <3>1, <3>2 DEF Mount
      <4>2. QED
        BY <2>0, <4>1, FlushReads
    <3>3. CASE status # "open"
      BY <2>0, <3>1, <3>3 DEF Mount
    <3>4. QED
      BY <3>2, <3>3
  <2>2. CASE \E c \in Calls : Call(c) \/ CallTimesOut(c) \/ HttpFetch(c)
    <3>1. PICK c \in Calls : Call(c) \/ CallTimesOut(c) \/ HttpFetch(c)
      BY <2>2
    <3>2. sentParams' = sentParams /\ layout' = layout /\ (up' = up \/ up' = Sent(socket, [t |-> "req", of |-> c]))
      BY <3>1 DEF Call, CallTimesOut, HttpFetch, net, topic
    <3>3. CASE up' = up
      BY <2>0, <3>2, <3>3
    <3>4. CASE up' # up
      <4>1. socket \in 1..Len(up) /\ up \in Seq(Seq(ToHub)) /\ up[socket] \in Seq(ToHub)
        BY <1>3, ElementOfSeq DEF LiveTypeOK, LiveTypes, NetTypes
      <4>2. up' = [up EXCEPT ![socket] = Append(@, [t |-> "req", of |-> c])]
        BY <3>2, <3>4 DEF Sent
      <4> DEFINE m == [t |-> "req", of |-> c]
      <4>3. up'[socket] = Append(up[socket], m) /\ m.t = "req" /\ m \in ToHub
        BY <4>1, <4>2, AskedFacts
      <4> HIDE DEF m
      <4>4. \A i \in 1..Len(up'[socket]) : up'[socket][i].t = "sub" => i \in 1..Len(up[socket]) /\ up[socket][i].t = "sub"
        BY <4>1, <4>3
      <4>5. KeptUnused(back[socket], up'[socket], served[socket], sentParams, layout)
        BY <2>0, <4>4 DEF Read, KeptUnused
      <4>6. QED
        BY <2>0, <3>2, <4>5 DEF Read
    <3>5. QED
      BY <3>3, <3>4
  <2>3. QED
    BY <2>1, <2>2
<1>4. QED
  BY <1>1, <1>2, <1>3 DEF ColumnsKept

LEMMA AttemptReads ==
    ASSUME LiveTypeOK, ColumnsKept, IdleClose \/ RetryFires \/ TicketArrives \/ TicketFails
    PROVE  ColumnsKept' /\ misread' = misread
<1>0. /\ Sockets = 1..Len(link) /\ Len(link) \in Nat /\ Len(up) = Len(link) /\ Len(back) = Len(link) /\ Len(served) = Len(link)
      /\ link \in Seq({"opening", "up", "down", "gone"}) /\ up \in Seq(Seq(ToHub)) /\ back \in Seq(Seq(FromHub)) /\ served \in Seq(Asked)
  BY DEF LiveTypeOK, NetTypes, Sockets
<1>1. CASE UNCHANGED <<socket, link, up, back, served, sentParams, layout, misread>>
  BY <1>1 DEF ColumnsKept, UnservedAtFirst, Sockets
<1>2. CASE /\ socket' = 0 /\ UNCHANGED <<served, misread>>
           /\ link' = IF socket = 0 THEN link ELSE [link EXCEPT ![socket] = "gone"]
  <2>1. \A s \in Sockets' : s \in Sockets /\ link'[s] \in {link[s], "gone"}
    BY <1>2 DEF Sockets
  <2>2. QED
    BY <1>2, <2>1 DEF ColumnsKept, UnservedAtFirst
<1>3. CASE /\ socket' = Len(link) + 1 /\ link' = Append(link, "opening") /\ up' = Append(up, <<>>)
           /\ back' = Append(back, <<>>) /\ served' = Append(served, {}) /\ UNCHANGED misread
  <2>1. /\ link'[socket'] = "opening" /\ up'[socket'] = <<>> /\ back'[socket'] = <<>> /\ served'[socket'] = {}
        /\ Sockets' = 1..(Len(link) + 1) /\ \A s \in 1..Len(link) : link'[s] = link[s] /\ served'[s] = served[s]
    BY <1>0, <1>3 DEF Sockets
  <2>2. UnservedAtFirst'
    BY <1>0, <1>3, <2>1 DEF ColumnsKept, UnservedAtFirst
  <2>3. Read(back'[socket'], up'[socket'], served'[socket'], link'[socket'] = "up", sentParams', layout')
    <3>1. Len(<<>>) = 0 /\ 1..0 = {}
      OBVIOUS
    <3>2. QED
      BY <2>1, <3>1 DEF Read, GoesByLayout, GoesByAck, KeptUnused
  <2>4. QED
    BY <1>3, <2>2, <2>3 DEF ColumnsKept
<1>4. CASE IdleClose \/ TicketFails
  <2>1. UNCHANGED <<topic, back, served, misread>>
    BY <1>4 DEF IdleClose, TicketFails
  <2>2. CASE Wanting(wanted) # {}
    <3>1. UNCHANGED <<socket, link, up>>
      BY <1>4, <2>2 DEF IdleClose, TicketFails
    <3>2. QED
      BY <1>1, <2>1, <3>1 DEF topic
  <2>3. CASE Wanting(wanted) = {}
    <3>1. Shutdown /\ link' = IF socket = 0 THEN link ELSE [link EXCEPT ![socket] = "gone"]
      BY <1>4, <2>3 DEF IdleClose, TicketFails, ScheduleReconnect
    <3>2. QED
      BY <1>2, <2>1, <3>1 DEF Shutdown
  <2>4. QED
    BY <2>2, <2>3
<1>5. CASE RetryFires
  BY <1>1, <1>5 DEF RetryFires, topic, net
<1>6. CASE TicketArrives
  <2>1. UNCHANGED <<topic, misread>>
    BY <1>6 DEF TicketArrives
  <2>2. CASE status # "connecting"
    BY <1>1, <1>6, <2>1, <2>2 DEF TicketArrives, topic, net
  <2>3. CASE status = "connecting"
    BY <1>3, <1>6, <2>1, <2>3 DEF TicketArrives
  <2>4. QED
    BY <2>2, <2>3
<1>7. QED
  BY <1>4, <1>5, <1>6

LEMMA LinkReads ==
    ASSUME LiveTypeOK, ColumnsKept, NEW s \in Sockets, Opened(s) \/ ConnectionDrops(s) \/ Closed(s)
    PROVE  ColumnsKept' /\ misread' = misread
<1>0. /\ Sockets = 1..Len(link) /\ s \in 1..Len(link) /\ Len(link) \in Nat /\ Len(up) = Len(link) /\ Len(back) = Len(link)
      /\ link \in Seq({"opening", "up", "down", "gone"}) /\ up \in Seq(Seq(ToHub)) /\ back \in Seq(Seq(FromHub))
      /\ back[s] \in Seq(FromHub) /\ socket \in 0..Len(link)
  BY QueuesAre DEF LiveTypeOK, NetTypes, LiveTypes
<1>1. PICK x \in {"up", "down", "gone"} : link' = [link EXCEPT ![s] = x] /\ (link[s] = "opening" \/ x # "up")
  BY DEF Opened, ConnectionDrops, Closed
<1>2. Sockets' = Sockets /\ link'[s] = x /\ (\A r \in Sockets : r # s => link'[r] = link[r]) /\ UNCHANGED <<served, misread>>
  BY <1>0, <1>1 DEF Sockets, Opened, ConnectionDrops, Closed
<1>3. UnservedAtFirst'
  BY <1>2 DEF ColumnsKept, UnservedAtFirst
<1>4. CASE Opened(s)
  <2>1. back' = [back EXCEPT ![s] = <<[t |-> "hello"]>>] /\ UNCHANGED <<socket, sentParams, layout, up>> /\ link[s] = "opening"
    BY <1>4 DEF Opened, live, topic
  <2>2. CASE socket # s
    <3>1. back'[socket] = back[socket]
      BY <2>1, <2>2
    <3>2. socket # 0 => link'[socket] = link[socket]
      BY <1>0, <1>2, <2>2
    <3>3. QED
      BY <1>2, <1>3, <2>1, <3>1, <3>2 DEF ColumnsKept
  <2>3. CASE socket = s
    <3>1. Read(back[s], up[s], served[s], link[s] = "up", sentParams, layout) /\ served[s] = {}
      BY <1>0, <2>1, <2>3 DEF ColumnsKept, UnservedAtFirst
    <3>2. back'[s] = <<[t |-> "hello"]>>
      BY <1>0, <2>1
    <3>3. Len(back'[s]) = 1 /\ \A i \in 1..1 : back'[s][i].t = "hello"
      BY <3>2
    <3>4. GoesByLayout(back'[s], layout) /\ GoesByAck(back'[s]) /\ NextByLayout(back'[s], {}, layout) /\ NextByAck(back'[s], {})
      BY <3>3 DEF GoesByLayout, GoesByAck, NextByLayout, NextByAck
    <3>5. KeptUnused(back'[s], up[s], {}, sentParams, layout)
      BY <3>1, <3>3 DEF Read, KeptUnused
    <3>6. QED
      BY <1>2, <1>3, <2>1, <2>3, <3>1, <3>4, <3>5 DEF ColumnsKept, Read
  <2>4. QED
    BY <2>2, <2>3
<1>5. CASE ConnectionDrops(s)
  <2>1. PICK n \in 0..Len(back[s]) : back' = [back EXCEPT ![s] = SubSeq(back[s], 1, n)]
    BY <1>5 DEF ConnectionDrops
  <2>2. up' = [up EXCEPT ![s] = <<>>] /\ UNCHANGED <<socket, sentParams, layout>> /\ link'[s] = "down"
    BY <1>0, <1>5 DEF ConnectionDrops, live, topic
  <2>3. CASE socket # s
    <3>1. back'[socket] = back[socket] /\ up'[socket] = up[socket]
      BY <2>1, <2>2, <2>3
    <3>2. socket # 0 => link'[socket] = link[socket]
      BY <1>0, <1>2, <2>3
    <3>3. QED
      BY <1>2, <1>3, <2>2, <3>1, <3>2 DEF ColumnsKept
  <2>4. CASE socket = s
    <3>1. Read(back[s], up[s], served[s], link[s] = "up", sentParams, layout)
      BY <1>0, <2>4 DEF ColumnsKept
    <3>2. back'[s] = SubSeq(back[s], 1, n) /\ up'[s] = <<>>
      BY <1>0, <2>1, <2>2
    <3>3. GoesByAck(back'[s]) /\ GoesByLayout(back'[s], layout)
      <4>1. GoesByAck(back[s]) /\ GoesByLayout(back[s], layout)
        BY <3>1 DEF Read
      <4>2. QED
        BY <1>0, <3>2, <4>1, CutReads
    <3>4. KeptUnused(back'[s], up'[s], served[s], sentParams, layout)
      <4>1. Len(back'[s]) = n /\ \A i \in 1..n : back'[s][i] = back[s][i] /\ i \in 1..Len(back[s])
        BY <1>0, <3>2, ShortenedTypes
      <4>2. 1..Len(<<>>) = {}
        OBVIOUS
      <4>3. QED
        BY <3>1, <3>2, <4>1, <4>2 DEF Read, KeptUnused
    <3>5. QED
      BY <1>2, <1>3, <2>2, <2>4, <3>3, <3>4 DEF ColumnsKept, Read
  <2>5. QED
    BY <2>3, <2>4
<1>6. CASE Closed(s)
  <2>1. CASE socket # s
    <3>1. UNCHANGED <<socket, sentParams, layout, up, back>> /\ (socket # 0 => link'[socket] = link[socket])
      BY <1>0, <1>2, <1>6, <2>1 DEF Closed, live, topic
    <3>2. QED
      BY <1>2, <1>3, <3>1 DEF ColumnsKept
  <2>2. CASE socket = s
    BY <1>3, <1>2, <1>6, <2>2 DEF Closed, ColumnsKept
  <2>3. QED
    BY <2>1, <2>2
<1>7. QED
  BY <1>4, <1>5, <1>6

(* The hub serves what it last acknowledged, and frames go by it. *)
LEMMA HubReads ==
    ASSUME LiveTypeOK, ColumnsKept, NEW s \in Sockets, ServerTakes(s) \/ Frame(s)
    PROVE  ColumnsKept' /\ misread' = misread
<1>0. /\ Sockets = 1..Len(link) /\ s \in 1..Len(link) /\ s \in 1..Len(up) /\ s \in 1..Len(back) /\ s \in 1..Len(served)
      /\ up[s] \in Seq(ToHub) /\ back[s] \in Seq(FromHub) /\ served[s] \in Asked /\ link[s] = "up"
      /\ up \in Seq(Seq(ToHub)) /\ back \in Seq(Seq(FromHub)) /\ served \in Seq(Asked)
  BY QueuesAre DEF LiveTypeOK, NetTypes, ServerTakes, Frame
<1>1. UNCHANGED <<socket, link, sentParams, layout, misread>>
  BY DEF ServerTakes, Frame, live, topic
<1>2. ASSUME NEW r \in Sockets, r # s PROVE back'[r] = back[r] /\ up'[r] = up[r] /\ served'[r] = served[r]
  <2>1. (\E x : up' = [up EXCEPT ![s] = x]) \/ up' = up
    BY DEF ServerTakes, Frame
  <2>2. (\E x : served' = [served EXCEPT ![s] = x]) \/ served' = served
    BY DEF ServerTakes, Frame
  <2>3. (\E x : back' = [back EXCEPT ![s] = Append(@, x)]) \/ back' = back
    BY DEF ServerTakes, Frame
  <2>0. r \in DOMAIN up /\ r \in DOMAIN served /\ r \in DOMAIN back
    <3>1. r \in 1..Len(up) /\ r \in 1..Len(served) /\ r \in 1..Len(back)
      BY <1>2, QueuesAre DEF LiveTypeOK
    <3>2. DOMAIN up = 1..Len(up) /\ DOMAIN served = 1..Len(served) /\ DOMAIN back = 1..Len(back)
      <4>1. up \in Seq(Seq(ToHub)) /\ back \in Seq(Seq(FromHub)) /\ served \in Seq(Asked)
        BY <1>0
      <4>2. QED
        BY ONLY <4>1
    <3>3. QED
      BY ONLY <3>1, <3>2
  <2>4. up'[r] = up[r]
    BY <1>2, <2>0, <2>1
  <2>5. served'[r] = served[r]
    BY <1>2, <2>0, <2>2
  <2>6. back'[r] = back[r]
    BY <1>2, <2>0, <2>3
  <2>7. QED
    BY <2>4, <2>5, <2>6
<1>3. UnservedAtFirst'
  BY <1>0, <1>1, <1>2 DEF ColumnsKept, UnservedAtFirst, Sockets
<1>4. CASE socket # s
  <2>1. socket # 0 => socket \in Sockets
    BY <1>0 DEF LiveTypeOK, LiveTypes
  <2>2. QED
    BY <1>1, <1>2, <1>3, <1>4, <2>1 DEF ColumnsKept
<1>5. CASE socket = s
  <2>0. s # 0 /\ Read(back[s], up[s], served[s], TRUE, sentParams, layout)
    BY <1>0, <1>5 DEF ColumnsKept, Read
  <2> SUFFICES ASSUME TRUE PROVE Read(back'[s], up'[s], served'[s], TRUE, sentParams, layout)
    BY <1>0, <1>1, <1>3, <1>5 DEF ColumnsKept, Read
  <2>1. /\ GoesByLayout(back[s], layout) /\ GoesByAck(back[s]) /\ NextByLayout(back[s], served[s], layout)
        /\ NextByAck(back[s], served[s]) /\ KeptUnused(back[s], up[s], served[s], sentParams, layout)
    BY <2>0 DEF Read
  <2>2. CASE Frame(s)
    <3> DEFINE m == [t |-> "evt", of |-> served[s]]
    <3>1. m \in FromHub /\ m.t = "evt" /\ m.of = served[s] /\ served[s] # {}
      BY <1>0, <2>2, MessagesAre DEF Frame
    <3>2. back'[s] = Append(back[s], m) /\ up' = up /\ served' = served
      BY <1>0, <2>2 DEF Frame
    <3> HIDE DEF m
    <3>3. /\ GoesByLayout(back'[s], layout) /\ GoesByAck(back'[s])
          /\ NextByLayout(back'[s], served'[s], layout) /\ NextByAck(back'[s], served'[s])
      BY <1>0, <2>1, <3>1, <3>2, PutReads
    <3>4. KeptUnused(back'[s], up'[s], served'[s], sentParams, layout)
      BY <2>1, <3>1 DEF KeptUnused
    <3>5. QED
      BY <3>3, <3>4 DEF Read
  <2>3. CASE ServerTakes(s)
    <3> DEFINE m == Head(up[s])
    <3>1. up[s] # <<>> /\ up'[s] = Tail(up[s]) /\ m \in ToHub /\ m = up[s][1] /\ Len(up[s]) > 0
      <4>1. up[s] # <<>> /\ up' = [up EXCEPT ![s] = Tail(@)]
        BY <2>3 DEF ServerTakes
      <4>2. s \in DOMAIN up
        BY <1>0
      <4>3. up'[s] = Tail(up[s])
        BY <4>1, <4>2
      <4>4. m \in ToHub /\ m = up[s][1] /\ Len(up[s]) > 0
        BY <1>0, <4>1, ShortenedTypes
      <4>5. QED
        BY <4>1, <4>3, <4>4
    <3>2. \A i \in 1..Len(up'[s]) : up'[s][i].t = "sub" => i + 1 \in 1..Len(up[s]) /\ up[s][i + 1].t = "sub"
      <4>1. up[s] \in Seq(ToHub) /\ Len(up[s]) \in Nat
        BY <1>0
      <4>2. Len(up'[s]) = Len(up[s]) - 1 /\ \A i \in 1..(Len(up[s]) - 1) : up'[s][i] = up[s][i + 1]
        BY <3>1, <4>1, ShortenedTypes
      <4>3. QED
        BY <4>1, <4>2
    <3>3. CASE m.t = "sub"
      <4>0. served' = [served EXCEPT ![s] = m.of]
        BY <2>3, <3>3 DEF ServerTakes
      <4>1. /\ served'[s] = m.of /\ (m.of = {} => back' = back)
            /\ (m.of # {} => back' = [back EXCEPT ![s] = Append(@, [t |-> "ack", of |-> m.of])])
        <5>1. m.of = {} => back' = back
          BY <2>3, <3>3 DEF ServerTakes
        <5>2. m.of # {} => back' = [back EXCEPT ![s] = Append(@, [t |-> "ack", of |-> m.of])]
          BY <2>3, <3>3 DEF ServerTakes
        <5>3. s \in DOMAIN served
          BY <1>0
        <5> HIDE DEF m
        <5>4. served'[s] = m.of
          BY <4>0, <5>3
        <5>5. QED
          BY <5>1, <5>2, <5>4
      <4>2. 1 \in 1..Len(up[s])
        BY <1>0, <3>1
      <4>3. ~(sentParams = {} /\ layout # {})
        BY <2>1, <3>1, <3>3, <4>2 DEF KeptUnused
      <4>4. KeptUnused(back'[s], up'[s], served'[s], sentParams, layout)
        BY <4>3 DEF KeptUnused
      <4>5. CASE m.of = {}
        <5>1. back' = back /\ served'[s] = {}
          BY <4>1, <4>5
        <5>2. NextByLayout(back'[s], {}, layout) /\ NextByAck(back'[s], {})
          BY DEF NextByLayout, NextByAck
        <5>3. QED
          BY <2>1, <4>4, <5>1, <5>2 DEF Read
      <4>6. CASE m.of # {}
        <5> DEFINE a == [t |-> "ack", of |-> m.of]
        <5>1. a \in FromHub
          BY <3>1, <3>3, MessagesAre
        <5>2. a.t = "ack" /\ a.of = served'[s]
          BY <4>1
        <5>3. back' = [back EXCEPT ![s] = Append(@, a)]
          BY <4>1, <4>6
        <5> HIDE DEF a
        <5>4. back'[s] = Append(back[s], a)
          BY <1>0, <5>3
        <5>5. /\ GoesByLayout(back'[s], layout) /\ GoesByAck(back'[s])
              /\ NextByLayout(back'[s], served'[s], layout) /\ NextByAck(back'[s], served'[s])
          BY <1>0, <2>1, <5>1, <5>2, <5>4, PutReads
        <5>6. QED
          BY <4>4, <5>5 DEF Read
      <4>7. QED
        BY <4>5, <4>6
    <3>4. CASE m.t = "req"
      <4>1. PICK a \in FromHub : back' = [back EXCEPT ![s] = Append(@, a)] /\ a.t \in {"res", "err"}
        <5>1. m.of \in Calls
          BY <3>1, <3>4, MessagesAre
        <5>2. PICK a \in {[t |-> "err", of |-> m.of, unrun |-> TRUE], [t |-> "res", of |-> m.of],
                          [t |-> "err", of |-> m.of, unrun |-> FALSE]} : back' = [back EXCEPT ![s] = Append(@, a)]
          BY <2>3, <3>4 DEF ServerTakes
        <5> HIDE DEF m
        <5>3. a \in FromHub
          BY <5>1, <5>2, MessagesAre
        <5>4. a.t \in {"res", "err"}
          BY <5>2
        <5>5. QED
          BY <5>2, <5>3, <5>4
      <4>2. back'[s] = Append(back[s], a) /\ served' = served
        <5>1. served' = served
          BY <2>3, <3>4 DEF ServerTakes
        <5>2. s \in DOMAIN back
          BY <1>0
        <5> HIDE DEF m
        <5>3. back'[s] = Append(back[s], a)
          BY <4>1, <5>2
        <5>4. QED
          BY <5>1, <5>3
      <4>3. /\ GoesByLayout(back'[s], layout) /\ GoesByAck(back'[s])
            /\ NextByLayout(back'[s], served'[s], layout) /\ NextByAck(back'[s], served'[s])
        BY <1>0, <2>1, <4>1, <4>2, PutReads
      <4>4. KeptUnused(back'[s], up'[s], served'[s], sentParams, layout)
        <5>1. \A i \in 1..Len(back'[s]) : back'[s][i].t \in {"ack", "evt"} => i \in 1..Len(back[s]) /\ back[s][i].t \in {"ack", "evt"}
          BY <1>0, <4>1, <4>2
        <5>2. QED
          BY <2>1, <3>2, <4>2, <5>1 DEF KeptUnused
      <4>5. QED
        BY <4>3, <4>4 DEF Read
    <3>5. QED
      BY <3>1, <3>3, <3>4, MessagesAre
  <2>4. QED
    BY <2>2, <2>3
<1>6. QED
  BY <1>4, <1>5

(* The page takes a message of the connection in use; what another one    *)
(* still delivers it leaves alone.                                         *)
LEMMA DeliverReads ==
    ASSUME LiveTypeOK, ColumnsKept, ~misread, NEW s \in Sockets, Deliver(s)
    PROVE  ColumnsKept' /\ ~misread'
<1>0. /\ Sockets = 1..Len(link) /\ s \in 1..Len(link) /\ s \in 1..Len(back) /\ s \in Nat
      /\ back[s] \in Seq(FromHub) /\ back \in Seq(Seq(FromHub)) /\ socket \in 0..Len(link)
  BY QueuesAre DEF LiveTypeOK, NetTypes, LiveTypes
<1>1. /\ back[s] # <<>> /\ back' = [back EXCEPT ![s] = Tail(back[s])] /\ UNCHANGED <<socket, link, served>>
  BY DEF Deliver
<1>2. UnservedAtFirst'
  BY <1>1 DEF ColumnsKept, UnservedAtFirst, Sockets
<1>3. CASE socket # s
  <2>1. UNCHANGED <<sentParams, layout, up, misread>> /\ back'[socket] = back[socket]
    BY <1>1, <1>3 DEF Deliver
  <2>2. QED
    BY <1>1, <1>2, <2>1 DEF ColumnsKept
<1>4. CASE socket = s
  <2> DEFINE m == Head(back[s])
  <2> DEFINE isUp == link[s] = "up"
  <2>1. m \in FromHub /\ m = back[s][1] /\ 1 \in 1..Len(back[s]) /\ back'[s] = Tail(back[s])
    BY <1>0, <1>1, ShortenedTypes
  <2>2. OnMessage(m)
    BY <1>4 DEF Deliver
  <2>3. s # 0 /\ Read(back[s], up[s], served[s], isUp, sentParams, layout)
    BY <1>0, <1>4 DEF ColumnsKept
  <2>4. isUp \in BOOLEAN
    OBVIOUS
  <2> HIDE DEF m, isUp
  <2>5. /\ GoesByLayout(back[s], layout) /\ GoesByAck(back[s])
        /\ (isUp => NextByLayout(back[s], served[s], layout) /\ NextByAck(back[s], served[s]))
        /\ KeptUnused(back[s], up[s], served[s], sentParams, layout)
    BY <2>3 DEF Read
  <2>6. SUFFICES Read(back'[s], up'[s], served[s], isUp, sentParams', layout') /\ ~misread'
    BY <1>1, <1>2, <1>4 DEF ColumnsKept, isUp
  <2>7. \A mine : (IF m.t = "ack" THEN mine \in {{}, m.of} ELSE mine \in {{}, layout})
                    => /\ GoesByLayout(back'[s], mine) /\ GoesByAck(back'[s])
                       /\ (isUp => NextByLayout(back'[s], served[s], mine) /\ NextByAck(back'[s], served[s]))
    BY <1>0, <1>1, <2>1, <2>4, <2>5, TailReads
  <2>8. KeptUnused(back'[s], up[s], served[s], sentParams, layout)
    <3>1. \A i \in 1..Len(back'[s]) : i + 1 \in 1..Len(back[s]) /\ back'[s][i] = back[s][i + 1]
      BY <1>0, <1>1, <2>1, ShortenedTypes
    <3>2. QED
      BY <2>5, <3>1 DEF KeptUnused
  <2>9. m.t # "ack" => Read(back'[s], up[s], served[s], isUp, sentParams, layout)
    BY <2>7, <2>8 DEF Read
  <2>10. CASE m.t = "hello"
    <3>1. Flush(socket, wanted, sentParams) /\ misread' = misread
      BY <2>2, <2>10 DEF OnMessage
    <3>2. QED
      BY <1>4, <2>9, <2>10, <3>1, FlushReads
  <2>11. CASE m.t = "ack"
    <3>1. layout' = (IF sentParams = {} THEN layout ELSE m.of) /\ UNCHANGED <<sentParams, up, misread>>
      BY <2>2, <2>11 DEF OnMessage
    <3>2. sentParams = {} => layout = {}
      BY <2>1, <2>5, <2>11 DEF KeptUnused
    <3>3. layout' \in {{}, m.of}
      BY <3>1, <3>2
    <3>4. KeptUnused(back'[s], up'[s], served[s], sentParams', layout')
      BY <3>1, <3>2 DEF KeptUnused
    <3>5. QED
      BY <2>7, <2>11, <3>1, <3>3, <3>4 DEF Read
  <2>12. CASE m.t = "evt"
    <3>1. misread' = (misread \/ layout \notin {{}, m.of}) /\ UNCHANGED <<sentParams, layout, up>>
      BY <2>2, <2>12 DEF OnMessage
    <3>2. NoAck(back[s], 1, 1 - 1)
      BY DEF NoAck
    <3>3. layout \in {{}, m.of}
      BY <2>1, <2>5, <2>12, <3>2 DEF GoesByLayout
    <3>4. QED
      BY <2>9, <2>12, <3>1, <3>3
  <2>13. CASE m.t \in {"res", "err"}
    <3>1. UNCHANGED <<sentParams, layout, up, misread>>
      BY <2>2, <2>13 DEF OnMessage
    <3>2. QED
      BY <2>9, <2>13, <3>1
  <2>14. QED
    BY <2>1, <2>10, <2>11, <2>12, <2>13, MessagesAre
<1>5. QED
  BY <1>3, <1>4

(* No frame of readings is read by the columns of another subscription     *)
(* than its own, whichever connections were given up, lost or opened       *)
(* meanwhile, and however late they deliver.                               *)
THEOREM FramesReadByTheirColumns == LiveSpec => []ReadByItsColumns
<1> DEFINE Inv == LiveTypeOK /\ ColumnsKept /\ ~misread
<1>1. LiveInit => Inv
  BY LiveTypesInitially, ColumnsInitially
<1>2. ASSUME Inv, [LiveNext]_liveVars PROVE ColumnsKept' /\ ~misread'
  <2>1. CASE (\E w \in Mounts : Mount(w)) \/ \E c \in Calls : Call(c) \/ CallTimesOut(c) \/ HttpFetch(c)
    BY <1>2, <2>1, PageReads
  <2>2. CASE IdleClose \/ RetryFires \/ TicketArrives \/ TicketFails
    BY <1>2, <2>2, AttemptReads
  <2>3. CASE \E s \in Sockets : Opened(s) \/ ConnectionDrops(s) \/ Closed(s)
    BY <1>2, <2>3, LinkReads
  <2>4. CASE \E s \in Sockets : ServerTakes(s) \/ Frame(s)
    BY <1>2, <2>4, HubReads
  <2>5. CASE \E s \in Sockets : Deliver(s)
    BY <1>2, <2>5, DeliverReads
  <2>6. CASE UNCHANGED liveVars
    <3>1. UNCHANGED <<socket, link, up, back, served, sentParams, layout, misread>>
      BY <2>6 DEF liveVars, live, topic, net
    <3>2. QED
      BY <1>2, <3>1 DEF ColumnsKept, UnservedAtFirst, Sockets
  <2>7. QED
    BY <1>2, <2>1, <2>2, <2>3, <2>4, <2>5, <2>6 DEF LiveNext, LiveProgress
<1>3. Inv /\ [LiveNext]_liveVars => Inv'
  BY <1>2, LiveTypesKept
<1>4. Inv => ReadByItsColumns
  BY DEF ReadByItsColumns
<1>5. QED
  BY <1>1, <1>3, <1>4, PTL DEF LiveSpec

=============================================================================
