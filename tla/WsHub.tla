------------------------------- MODULE WsHub -------------------------------
(***************************************************************************)
(* The dashboard's live channel: the WebSocket hub (core/ws-hub.ts), with  *)
(* the ticket store and credential check it admits connections by          *)
(* (core/auth.ts).                                                         *)
(*                                                                         *)
(* The hub shares its process with the console clients: an event is handed *)
(* to every subscriber within the publisher's stack, so BusEvent is one    *)
(* action. Requests (req) run concurrently with everything else. A client  *)
(* may stop reading or answering at any time, and a credential may be      *)
(* revoked at any time.                                                    *)
(*                                                                         *)
(* Abstracted: codecs and compression, the upgrade's protocol and origin   *)
(* checks, and the topics' encode (an event reaches every group of its     *)
(* topic). Time passes only as "longer than the limit" choices.            *)
(***************************************************************************)
EXTENDS Integers, FiniteSets

CONSTANTS
    Conns,          \* the connections clients make, each at most once
    ControlConns,   \* those that chose the control channel; the rest stream
    Topics,         \* topic ids; topics of one channel are offered to it alone
    ControlTopics,
    Keys,           \* group keys: what `params` resolves to
    Creds,          \* bearer credentials
    Requests,       \* ids of req messages, per connection
    MaxConnections, MaxSubscriptions, MaxInFlight,
    None

ASSUME SetsAssumption ==
    /\ ControlConns \subseteq Conns /\ ControlTopics \subseteq Topics
    /\ None \notin Keys /\ None \notin Creds
ASSUME LimitsAssumption ==
    MaxConnections \in Nat /\ MaxSubscriptions \in Nat /\ MaxInFlight \in Nat

VARIABLES
    valid,          \* credentials isValidCredential accepts
    ticket,         \* [conn -> the credential its ticket was issued for, or None]
    sock,           \* [conn -> its WebSocket's readyState, as the server sees it]
    connections,    \* this.connections
    alive,          \* conn.alive
    pinged,         \* connections whose peer has a ping to answer
    cred,           \* conn.credential
    subs,           \* [conn -> topic -> group key, or None]   conn.subscriptions
    groups,         \* [topic -> keys of the groups that exist]   entry.groups
    members,        \* [topic -> key -> connections]   group.members
    req,            \* [conn -> request -> its state]
    inFlight,       \* conn.inFlight
    backlog,        \* [conn -> bufferedAmount against the soft and hard limits]
    congested,      \* [conn -> congestedSince: "no", "since" or longer than the "stall" timeout]
    shut,           \* this.closed, and whether its deadline has passed
    reads,          \* [conn -> its peer reads and answers pings]
    acked,          \* history: [conn -> topic -> key of the last ack sent, or None]
    event           \* history: the event sent by the last step, with its receivers

admission == <<valid, ticket>>
peers == <<sock, reads, backlog>>
table == <<connections, subs, groups, members, acked>>
work == <<req, inFlight>>
ping == <<alive, pinged>>
vars == <<admission, peers, table, work, ping, cred, congested, shut, event>>

Channel(c) == IF c \in ControlConns THEN "control" ELSE "stream"
TopicChannel(t) == IF t \in ControlTopics THEN "control" ELSE "stream"
NoEvent == [topic |-> None, to |-> {}]
Quiet == event' = NoEvent

Init ==
    /\ valid = Creds
    /\ ticket = [c \in Conns |-> None]
    /\ sock = [c \in Conns |-> "none"]
    /\ connections = {}
    /\ alive = [c \in Conns |-> FALSE]
    /\ pinged = {}
    /\ cred = [c \in Conns |-> None]
    /\ subs = [c \in Conns |-> [t \in Topics |-> None]]
    /\ groups = [t \in Topics |-> {}]
    /\ members = [t \in Topics |-> [k \in Keys |-> {}]]
    /\ req = [c \in Conns |-> [r \in Requests |-> "unsent"]]
    /\ inFlight = [c \in Conns |-> 0]
    /\ backlog = [c \in Conns |-> "low"]
    /\ congested = [c \in Conns |-> "no"]
    /\ shut = "no"
    /\ reads = [c \in Conns |-> TRUE]
    /\ acked = [c \in Conns |-> [t \in Topics |-> None]]
    /\ event = NoEvent
-----------------------------------------------------------------------------
(* Leaving. Cutting a socket makes it "closed" at once; close() starts a    *)
(* closing handshake the peer may never finish.                             *)

\* leaveGroup for all members in S: an emptied group is deleted.
Without(t, k, S) == members[t][k] \ S
Leave(T, S) ==
    /\ members' = [t \in Topics |-> [k \in Keys |-> IF t \in T THEN Without(t, k, S) ELSE members[t][k]]]
    /\ groups' = [t \in Topics |->
         IF t \in T THEN {k \in groups[t] : Without(t, k, S) # {} \/ members[t][k] \cap S = {}} ELSE groups[t]]

\* dropConnection of every connection in S.
Drop(S) ==
    /\ connections' = connections \ S
    /\ Leave(Topics, S)
    /\ subs' = [c \in Conns |-> IF c \in S THEN [t \in Topics |-> None] ELSE subs[c]]
    /\ acked' = [c \in Conns |-> IF c \in S THEN [t \in Topics |-> None] ELSE acked[c]]

\* What close() and terminate() make of the sockets.
Closing(S) == [c \in Conns |-> IF c \in S /\ sock[c] = "open" THEN "closing" ELSE sock[c]]
Cut(S) == [c \in Conns |-> IF c \in S THEN "closed" ELSE sock[c]]

\* sendRaw reaches the peer's socket buffer, or cuts a peer too far behind.
CanSend(c) == sock[c] = "open" /\ backlog[c] # "hard"
Overrun(c) == sock[c] = "open" /\ backlog[c] = "hard"
-----------------------------------------------------------------------------
(* Admission.                                                               *)

\* POST /api/auth/ws-ticket, with a credential that is valid at that moment.
IssueTicket(c) ==
    /\ sock[c] = "none" /\ ticket[c] = None
    /\ \E k \in valid : ticket' = [ticket EXCEPT ![c] = k]
    /\ Quiet
    /\ UNCHANGED <<valid, peers, table, work, ping, cred, congested, shut>>

\* A passkey session is revoked or expires.
Revoke(k) ==
    /\ valid' = valid \ {k}
    /\ Quiet
    /\ UNCHANGED <<ticket, peers, table, work, ping, cred, congested, shut>>

\* upgrade: the ticket is spent whether or not it is good.
Admit(c) ==
    /\ ticket[c] # None
    /\ shut = "no"
    /\ ticket' = [ticket EXCEPT ![c] = None]
    /\ \/ /\ ticket[c] \in valid /\ Cardinality(connections) < MaxConnections
          /\ connections' = connections \cup {c}
          /\ sock' = [sock EXCEPT ![c] = "open"]
          /\ alive' = [alive EXCEPT ![c] = TRUE]
          /\ cred' = [cred EXCEPT ![c] = ticket[c]]
       \/ /\ ticket[c] \notin valid \/ Cardinality(connections) >= MaxConnections
          /\ sock' = [sock EXCEPT ![c] = "closed"]
          /\ UNCHANGED <<connections, alive, cred>>
    /\ Quiet
    /\ UNCHANGED <<valid, reads, backlog, subs, groups, members, acked, work, pinged, congested, shut>>

\* A ticket that expired unused, or was refused because the server is stopping.
TicketLost(c) ==
    /\ ticket[c] # None
    /\ ticket' = [ticket EXCEPT ![c] = None]
    /\ sock' = [sock EXCEPT ![c] = "closed"]
    /\ Quiet
    /\ UNCHANGED <<valid, reads, backlog, table, work, ping, cred, congested, shut>>
-----------------------------------------------------------------------------
(* Messages from a client. A closing socket may still deliver one.          *)

Hears(c) == c \in connections /\ sock[c] \in {"open", "closing"} /\ reads[c]

Offered(c, t) == TopicChannel(t) = Channel(c)
Subscribed(c) == {t \in Topics : subs[c][t] # None}

\* The reply to a sub or unsub: an ack, lost when the socket is closing. A peer
\* past the hard limit is cut instead.
Acknowledge(c, t, k) ==
    acked' = [acked EXCEPT ![c][t] = IF sock[c] = "open" THEN k ELSE @]

\* Mutant: a second sub of a topic does not leave the first one's group.
SubscribeOnTop(c, t, k) ==
    /\ Hears(c) /\ Offered(c, t) /\ ~Overrun(c)
    /\ subs[c][t] # None \/ Cardinality(Subscribed(c)) < MaxSubscriptions
    /\ subs' = [subs EXCEPT ![c][t] = k]
    /\ members' = [members EXCEPT ![t][k] = @ \cup {c}]
    /\ groups' = [groups EXCEPT ![t] = @ \cup {k}]
    /\ Acknowledge(c, t, k)
    /\ Quiet
    /\ UNCHANGED <<admission, peers, connections, work, ping, cred, congested, shut>>

\* sub: replaces the connection's earlier subscription to the topic, if any.
Subscribe(c, t, k) ==
    /\ Hears(c) /\ Offered(c, t) /\ ~Overrun(c)
    /\ subs[c][t] # None \/ Cardinality(Subscribed(c)) < MaxSubscriptions
    /\ subs' = [subs EXCEPT ![c][t] = k]
    /\ members' = [members EXCEPT ![t] =
         [j \in Keys |-> IF j = k THEN @[j] \cup {c} ELSE @[j] \ {c}]]
    /\ groups' = [groups EXCEPT ![t] =
         {j \in @ : members[t][j] # {c}} \cup {k}]
    /\ Acknowledge(c, t, k)
    /\ Quiet
    /\ UNCHANGED <<admission, peers, connections, work, ping, cred, congested, shut>>

Unsubscribe(c, t) ==
    /\ Hears(c) /\ ~Overrun(c)
    /\ subs' = [subs EXCEPT ![c][t] = None]
    /\ Leave({t}, {c})
    /\ Acknowledge(c, t, None)
    /\ Quiet
    /\ UNCHANGED <<admission, peers, connections, work, ping, cred, congested, shut>>

\* req: dispatched at once, or answered busy. (A stream connection's is answered
\* forbidden, which changes nothing.)
Request(c, r) ==
    /\ Hears(c) /\ ~Overrun(c)
    /\ Channel(c) = "control"
    /\ req[c][r] = "unsent"
    /\ IF inFlight[c] < MaxInFlight
       THEN /\ req' = [req EXCEPT ![c][r] = "running"]
            /\ inFlight' = [inFlight EXCEPT ![c] = @ + 1]
       ELSE /\ req' = [req EXCEPT ![c][r] = "answered"]
            /\ UNCHANGED inFlight
    /\ Quiet
    /\ UNCHANGED <<admission, peers, table, ping, cred, congested, shut>>

\* Any message whose reply finds the peer past the hard limit: it is cut.
OverrunReply(c) ==
    /\ c \in connections /\ Overrun(c)
    /\ Hears(c) \/ \E r \in Requests : req[c][r] = "running"
    /\ Drop({c})
    /\ sock' = Cut({c})
    /\ Quiet
    /\ UNCHANGED <<admission, reads, backlog, work, ping, cred, congested, shut>>

\* More messages than the rate allows, one that does not decode, or a handler
\* that throws: closeConnection.
Offend(c) ==
    /\ Hears(c)
    /\ Drop({c})
    /\ sock' = Closing({c})
    /\ Quiet
    /\ UNCHANGED <<admission, reads, backlog, work, ping, cred, congested, shut>>

\* The handler is done: its reply goes out, unless the client was told "timeout".
Answer(c, r) ==
    /\ req[c][r] \in {"running", "late"}
    /\ ~(req[c][r] = "running" /\ c \in connections /\ Overrun(c))
    /\ req' = [req EXCEPT ![c][r] = "answered"]
    /\ inFlight' = [inFlight EXCEPT ![c] = IF req[c][r] = "running" THEN @ - 1 ELSE @]
    /\ Quiet
    /\ UNCHANGED <<admission, peers, table, ping, cred, congested, shut>>

\* Mutant: there is no timer.
NoTimeout(c, r) == FALSE /\ UNCHANGED vars

\* The timer wins the race: err timeout, and the handler may go on unheard.
Timeout(c, r) ==
    /\ req[c][r] = "running"
    /\ ~(c \in connections /\ Overrun(c))
    /\ req' = [req EXCEPT ![c][r] = "late"]
    /\ inFlight' = [inFlight EXCEPT ![c] = @ - 1]
    /\ Quiet
    /\ UNCHANGED <<admission, peers, table, ping, cred, congested, shut>>
-----------------------------------------------------------------------------
(* Events.                                                                  *)

\* The members of all groups of the topic, each with its group's key.
Audience(t) == {c \in Conns : \E k \in groups[t] : c \in members[t][k]}

\* congested(): stream frames are skipped while the peer is behind.
Skipped(t) == {c \in Audience(t) : Channel(c) = "stream" /\ backlog[c] # "low"}
Stalled(t) == {c \in Skipped(t) : congested[c] = "stall"}
Cutoff(t) == Stalled(t) \cup {c \in Audience(t) \ Skipped(t) : Overrun(c)}

\* onBusEvent: every group gets its frame, a congested stream connection does
\* not, and one that stays congested is cut.
BusEvent(t) ==
    /\ shut = "no"
    /\ event' = [topic |-> t,
                 to |-> {e \in (Audience(t) \ Skipped(t)) \X groups[t] :
                            CanSend(e[1]) /\ e[1] \in members[t][e[2]]}]
    /\ congested' = [c \in Conns |->
         IF c \notin Audience(t) \/ Channel(c) = "control" THEN congested[c]
         ELSE IF c \notin Skipped(t) THEN "no"
         ELSE IF congested[c] = "no" THEN "since" ELSE congested[c]]
    /\ Drop(Cutoff(t))
    /\ sock' = Cut(Cutoff(t))
    /\ UNCHANGED <<admission, reads, backlog, work, ping, cred, shut>>

\* The stall timeout passes for a connection congested since an earlier event.
StallTimeout(c) ==
    /\ congested[c] = "since"
    /\ congested' = [congested EXCEPT ![c] = "stall"]
    /\ Quiet
    /\ UNCHANGED <<admission, peers, table, work, ping, cred, shut>>
-----------------------------------------------------------------------------
(* Peers, pings and the end.                                                *)

\* The backlog of a peer grows while the hub sends more than it reads.
FallBehind(c) ==
    /\ c \in connections
    /\ backlog' = [backlog EXCEPT ![c] = IF @ = "low" THEN "soft" ELSE "hard"]
    /\ Quiet
    /\ UNCHANGED <<admission, sock, reads, table, work, ping, cred, congested, shut>>

CatchUp(c) ==
    /\ c \in connections /\ reads[c] /\ backlog[c] # "low"
    /\ backlog' = [backlog EXCEPT ![c] = "low"]
    /\ Quiet
    /\ UNCHANGED <<admission, sock, reads, table, work, ping, cred, congested, shut>>

\* A laptop lid is closed: the peer neither reads nor answers any more.
PeerDies(c) ==
    /\ sock[c] \in {"open", "closing"} /\ reads[c]
    /\ reads' = [reads EXCEPT ![c] = FALSE]
    /\ Quiet
    /\ UNCHANGED <<admission, sock, backlog, table, work, ping, cred, congested, shut>>

\* The peer closes, or ends a closing handshake, or a send fails: "close".
PeerCloses(c) ==
    /\ sock[c] \in {"open", "closing"}
    /\ Drop({c})
    /\ sock' = Cut({c})
    /\ Quiet
    /\ UNCHANGED <<admission, reads, backlog, work, ping, cred, congested, shut>>

Pong(c) ==
    /\ c \in pinged /\ reads[c] /\ sock[c] = "open"
    /\ pinged' = pinged \ {c}
    /\ alive' = [alive EXCEPT ![c] = TRUE]
    /\ Quiet
    /\ UNCHANGED <<admission, peers, table, work, cred, congested, shut>>

\* Timing assumption: a peer that reads answers a ping before the next one is due.
PongsAreIn == \A c \in pinged : ~reads[c] \/ sock[c] # "open"

\* A tick that cuts the dead, closes the gone and pings everyone else.
Tick(dead, gone) ==
    /\ Drop(dead \cup gone)
    /\ sock' = [c \in Conns |-> IF c \in gone THEN Closing(gone)[c] ELSE Cut(dead)[c]]
    /\ alive' = [c \in Conns |-> FALSE]
    /\ pinged' = connections \ (dead \cup gone)
    /\ Quiet
    /\ UNCHANGED <<admission, reads, backlog, work, cred, congested, shut>>

\* Mutant: a credential is only checked when the connection is admitted.
HeartbeatUnchecked == shut = "no" /\ PongsAreIn /\ Tick({c \in connections : ~alive[c]}, {})

\* Mutant: the pings' answers are not looked at.
HeartbeatTrusting == shut = "no" /\ PongsAreIn /\ Tick({}, {c \in connections : cred[c] \notin valid})

\* heartbeat: who did not answer the last ping is cut, whose credential is no
\* longer valid is closed, everyone else is pinged.
Heartbeat ==
    /\ shut = "no" /\ PongsAreIn
    /\ LET dead == {c \in connections : ~alive[c]}
       IN Tick(dead, {c \in connections \ dead : cred[c] \notin valid})

\* close(): 1001 to everyone; the connections leave as their sockets close.
Close ==
    /\ shut = "no"
    /\ shut' = "closing"
    /\ sock' = Closing(connections)
    /\ Quiet
    /\ UNCHANGED <<admission, reads, backlog, table, work, ping, cred, congested>>

\* Mutant: shutdown waits for every client to close.
DeadlineWaits ==
    /\ shut = "closing" /\ connections = {}
    /\ shut' = "closed"
    /\ Quiet
    /\ UNCHANGED <<admission, peers, table, work, ping, cred, congested>>

\* One second later whoever is left is cut.
Deadline ==
    /\ shut = "closing"
    /\ shut' = "closed"
    /\ Drop(connections)
    /\ sock' = Cut(connections)
    /\ Quiet
    /\ UNCHANGED <<admission, reads, backlog, work, ping, cred, congested>>

Next ==
    \/ \E c \in Conns :
        \/ IssueTicket(c) \/ Admit(c) \/ TicketLost(c)
        \/ \E t \in Topics : Unsubscribe(c, t) \/ \E k \in Keys : Subscribe(c, t, k)
        \/ \E r \in Requests : Request(c, r) \/ Answer(c, r) \/ Timeout(c, r)
        \/ OverrunReply(c) \/ Offend(c)
        \/ StallTimeout(c) \/ FallBehind(c) \/ CatchUp(c)
        \/ PeerDies(c) \/ PeerCloses(c) \/ Pong(c)
    \/ \E k \in Creds : Revoke(k)
    \/ \E t \in Topics : BusEvent(t)
    \/ Heartbeat \/ Close \/ Deadline

Spec == Init /\ [][Next]_vars

\* The heartbeat interval and the request and shutdown timers run, and a peer
\* that reads answers its pings.
Fairness ==
    /\ WF_vars(Heartbeat) /\ WF_vars(Deadline)
    /\ \A c \in Conns : WF_vars(Pong(c))
    /\ \A c \in Conns, r \in Requests : WF_vars(Timeout(c, r) \/ OverrunReply(c))

FairSpec == Spec /\ Fairness
-----------------------------------------------------------------------------
\* Every variable holds values of its type.
TypeOK ==
    /\ valid \subseteq Creds
    /\ ticket \in [Conns -> Creds \cup {None}]
    /\ sock \in [Conns -> {"none", "open", "closing", "closed"}]
    /\ connections \subseteq Conns /\ Cardinality(connections) <= MaxConnections
    /\ alive \in [Conns -> BOOLEAN]
    /\ pinged \subseteq Conns
    /\ cred \in [Conns -> Creds \cup {None}]
    /\ subs \in [Conns -> [Topics -> Keys \cup {None}]]
    /\ groups \in [Topics -> SUBSET Keys]
    /\ members \in [Topics -> [Keys -> SUBSET Conns]]
    /\ req \in [Conns -> [Requests -> {"unsent", "running", "late", "answered"}]]
    /\ inFlight \in [Conns -> Int]
    /\ backlog \in [Conns -> {"low", "soft", "hard"}]
    /\ congested \in [Conns -> {"no", "since", "stall"}]
    /\ shut \in {"no", "closing", "closed"}
    /\ reads \in [Conns -> BOOLEAN]
    /\ acked \in [Conns -> [Topics -> Keys \cup {None}]]
    /\ event.to \subseteq Conns \X Keys

\* The two tables of a subscription agree: a connection sits in exactly the group
\* its own table names, a group exists exactly while it has members, and only
\* connections of the hub have any. (A group left behind is encoded for nobody at
\* every event, for ever.)
TablesAgree ==
    \A t \in Topics, k \in Keys :
        /\ k \in groups[t] <=> members[t][k] # {}
        /\ \A c \in Conns : c \in members[t][k] <=> subs[c][t] = k
        /\ members[t][k] \subseteq connections

\* An event reaches a peer under the params of the last sub it was told of, and
\* never after an unsub was acknowledged ("sub on a topic already subscribed
\* replaces its params").
EventsFollowAcks ==
    \A e \in event.to : acked[e[1]][event.topic] = e[2]

\* What the two rest on. Of an open connection, and of one that is gone, the
\* hub's table and what the client was last told agree (of a closing one they may
\* not: its acks are lost); and a connection is admitted once, by its own ticket.
AcksAreSubscriptions ==
    \A c \in Conns : sock[c] = "open" \/ c \notin connections => acked[c] = subs[c]
AdmittedOnce == \A c \in connections : ticket[c] = None /\ sock[c] # "none"

TablesType ==
    /\ valid \subseteq Creds
    /\ connections \subseteq Conns
    /\ sock \in [Conns -> {"none", "open", "closing", "closed"}]
    /\ ticket \in [Conns -> Creds \cup {None}]
    /\ subs \in [Conns -> [Topics -> Keys \cup {None}]]
    /\ groups \in [Topics -> SUBSET Keys]
    /\ members \in [Topics -> [Keys -> SUBSET Conns]]
    /\ acked \in [Conns -> [Topics -> Keys \cup {None}]]

\* The inductive invariant: besides the two, what a client was acknowledged is what
\* it is subscribed to, and a connection in the table has used its ticket.
IInv ==
    /\ TablesType /\ TablesAgree /\ AcksAreSubscriptions /\ AdmittedOnce
    /\ EventsFollowAcks

(* Whatever ends a connection ends it: a credential revoked or expired while *)
(* it was open (checked again at every heartbeat), a peer that is gone, and  *)
(* the shutdown, which waits for no client.                                  *)
ConnectionsEnd ==
    \A c \in Conns :
        c \in connections /\ (cred[c] \notin valid \/ ~reads[c] \/ shut # "no") ~> c \notin connections

\* Every request is answered, or its connection is gone.
RequestsAreAnswered ==
    \A c \in Conns, r \in Requests :
        req[c][r] = "running" ~> (req[c][r] # "running" \/ c \notin connections)
=============================================================================
