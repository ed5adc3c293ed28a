-------------------------- MODULE WingMeterClient --------------------------
(***************************************************************************)
(* The metering client (plugins/wing/wing-meter-client.ts) and its owner,  *)
(* the plugin, which connects it once, subscribes when that succeeds and   *)
(* disconnects it when the configuration changes or the server stops.      *)
(*                                                                         *)
(* A TCP connection carries the subscription, the console streams meter    *)
(* packets to one UDP port.  A packet names nothing but the report id of   *)
(* its subscription: its words are decoded by position, so a packet of an  *)
(* earlier subscription read with the groups of the current one would give *)
(* levels of the wrong strips.  connect() is asynchronous, and connection  *)
(* losses, UDP errors, a pending reconnect timer and disconnect() may fall *)
(* between its steps.                                                      *)
(*                                                                         *)
(* Left out: the reconnect delay and its backoff (a timer that is armed    *)
(* fires some time later), the bytes of the protocol, and unsubscribe(),   *)
(* which nothing calls.                                                    *)
(***************************************************************************)
EXTENDS Naturals, FiniteSets

CONSTANTS
    Sockets,         \* TCP sockets; one is used again once it has closed
    Ids,             \* report ids, drawn at random from 2^32 in the code
    Extras,          \* the meter groups the bridge may add
    NeedsSizes,      \* those of them whose size depends on the I/O sizes
    None,
    MaxPackets,      \* bound: meter packets in flight
    MaxRefusals,     \* bound: TCP connects that fail
    MaxDrops,        \* bound: connections the console or the network drops
    MaxUdpErrors,    \* bound: errors of the bound UDP socket
    MaxBindFailures  \* bound: UDP binds that fail (the port is taken)

Streams == [on : Sockets, id : Ids, groups : SUBSET (Extras \cup {"base"})]
Packets == [id : Ids, groups : SUBSET (Extras \cup {"base"})]

ASSUME SetsAssumption ==
    /\ NeedsSizes \subseteq Extras /\ "base" \notin Extras
    /\ None \notin Sockets /\ None \notin Ids /\ None \notin Streams
    /\ MaxPackets \in Nat
    /\ MaxRefusals \in Nat /\ MaxDrops \in Nat
    /\ MaxUdpErrors \in Nat /\ MaxBindFailures \in Nat

VARIABLES
    explicit,    \* explicitlyDisconnected
    phase,       \* what doConnect() waits for; "idle": `connecting' is null
    callers,     \* who awaits the promise in `connecting'
    sock,        \* the life of each TCP socket
    tcp,         \* tcpSocket
    udp,         \* udpSocket is bound
    keepalive,   \* keepaliveTimer runs
    retryTimer,  \* reconnectTimer is armed
    wanted,      \* lastRequests is not null
    reportId,
    asked,       \* requestedExtras
    extras,      \* extraGroups
    sizes,       \* ioSizes is known
    layout,      \* the groups of the last subscription, in packet order
    owner,       \* how far the plugin is with this client
    awaited,     \* the socket disconnect() waits for
    unheard,     \* history: "error" was emitted with no listener left
    stream,      \* the subscription the console serves
    packets,     \* meter packets that may still arrive
    faults       \* how often each fault happened

recovery == <<explicit, phase, callers, retryTimer>>
sockets == <<sock, tcp, udp>>
subscription == <<keepalive, wanted, reportId, layout>>
groups == <<asked, extras, sizes>>
life == <<owner, awaited, unheard>>
console == <<stream, packets>>
vars == <<recovery, sockets, subscription, groups, life, console, faults>>

Faults == {"refusal", "drop", "udpError", "bindFailure"}
Limit(f) == CASE f = "refusal" -> MaxRefusals [] f = "drop" -> MaxDrops
              [] f = "udpError" -> MaxUdpErrors [] OTHER -> MaxBindFailures

Fault(f) == faults[f] < Limit(f) /\ faults' = [faults EXCEPT ![f] = @ + 1]

Init ==
    /\ explicit = FALSE /\ phase = "idle" /\ callers = {} /\ retryTimer = FALSE
    /\ sock = [s \in Sockets |-> "unused"] /\ tcp = None /\ udp = FALSE
    /\ keepalive = FALSE /\ wanted = FALSE /\ reportId = None /\ layout = {}
    /\ asked = {} /\ extras = {} /\ sizes = FALSE
    /\ owner = "new" /\ awaited = None /\ unheard = FALSE
    /\ stream = None /\ packets = {}
    /\ faults = [f \in Faults |-> 0]

-----------------------------------------------------------------------------
(* Subscribing. *)

FreshId == Ids \ ({reportId} \cup {p.id : p \in packets}
                    \cup (IF stream = None THEN {} ELSE {stream.id}))

(* Mutant: the report id of the previous subscription is used again. *)
SubscribeWithSameId(more) ==
    \E id \in IF reportId = None THEN FreshId ELSE {reportId} :
        /\ wanted' = TRUE /\ keepalive' = TRUE
        /\ reportId' = id
        /\ layout' = {"base"} \cup more
        /\ stream' = IF tcp # None /\ sock[tcp] = "open"
                     THEN [on |-> tcp, id |-> id, groups |-> {"base"} \cup more]
                     ELSE stream

(* subscribe() and writeSubscription(): a new report id, the layout of the *)
(* packets to come, and both written if there is a connection.             *)
SubscribeWith(more) ==
    \E id \in FreshId :
        /\ wanted' = TRUE /\ keepalive' = TRUE
        /\ reportId' = id
        /\ layout' = {"base"} \cup more
        /\ stream' = IF tcp # None /\ sock[tcp] = "open"
                     THEN [on |-> tcp, id |-> id, groups |-> {"base"} \cup more]
                     ELSE stream

(* A group of unknown size would shift every word after it: it waits. *)
Sized(requested, known) == IF known THEN requested ELSE requested \ NeedsSizes

SetExtraRequests(requested) ==
    LET next == Sized(requested, sizes) IN
    /\ owner \in {"new", "running"}    \* the bridge is detached first
    /\ asked' = requested
    /\ \/ /\ next = extras
          /\ UNCHANGED <<extras, subscription, stream>>
       \/ /\ next # extras
          /\ extras' = next
          /\ IF wanted THEN SubscribeWith(next) ELSE UNCHANGED <<subscription, stream>>
    /\ UNCHANGED <<recovery, sockets, sizes, life, packets, faults>>

(* The I/O sizes were read: the groups that waited for them join. *)
SetIoSizes ==
    /\ ~sizes /\ sizes' = TRUE
    /\ extras' = asked
    /\ IF asked # {} /\ wanted THEN SubscribeWith(asked)
                               ELSE UNCHANGED <<subscription, stream>>
    /\ UNCHANGED <<recovery, sockets, asked, life, packets, faults>>

-----------------------------------------------------------------------------
(* Connecting. *)

Dial(s) ==
    /\ sock[s] = "unused"
    /\ sock' = [sock EXCEPT ![s] = "connecting"]
    /\ phase' = "tcp"

(* connectClients(): connect().then(subscribe), once in a client's life. *)
OwnerConnect ==
    /\ owner = "new" /\ owner' = "running"
    /\ explicit' = FALSE /\ callers' = {"owner"}
    /\ \E s \in Sockets : Dial(s)
    /\ UNCHANGED <<retryTimer, tcp, udp, subscription, groups, awaited, unheard,
                   console, faults>>

TcpConnected(s) ==
    /\ sock[s] = "connecting"
    /\ sock' = [sock EXCEPT ![s] = "open"]
    /\ tcp' = s
    /\ phase' = "select"
    /\ UNCHANGED <<explicit, callers, retryTimer, udp, subscription, groups, life,
                   console, faults>>

(* The promise in `connecting' is rejected: a reconnect tries again, the   *)
(* plugin's first connect is only logged.                                  *)
Rejected ==
    /\ phase' = "idle" /\ callers' = {}
    /\ retryTimer' = (retryTimer \/ ("retry" \in callers /\ ~explicit))
    /\ UNCHANGED explicit

(* Mutant: a reconnect does not subscribe again. *)
ResolvedUnsubscribed ==
    /\ phase' = "idle" /\ callers' = {}
    /\ IF "owner" \in callers THEN SubscribeWith(extras)
                              ELSE UNCHANGED <<subscription, stream>>
    /\ UNCHANGED <<explicit, retryTimer>>

(* It is resolved: both continuations subscribe, the plugin's for the      *)
(* first time, a reconnect's again if there was a subscription.            *)
Resolved ==
    /\ phase' = "idle" /\ callers' = {}
    /\ IF "owner" \in callers \/ wanted THEN SubscribeWith(extras)
                                        ELSE UNCHANGED <<subscription, stream>>
    /\ UNCHANGED <<explicit, retryTimer>>

(* doConnect() past its first await: the connection may be gone again. *)
SelectChannel ==
    /\ phase = "select"
    /\ \/ /\ tcp = None
          /\ Rejected
          /\ unheard' = (unheard \/ ("retry" \in callers /\ owner = "gone"))
          /\ UNCHANGED <<subscription, stream>>
       \/ /\ tcp # None /\ udp
          /\ Resolved
          /\ UNCHANGED unheard
       \/ /\ tcp # None /\ ~udp
          /\ phase' = "bind"
          /\ UNCHANGED <<explicit, callers, retryTimer, unheard, subscription, stream>>
    /\ UNCHANGED <<sockets, groups, owner, awaited, packets, faults>>

BindUdp ==
    /\ phase = "bind"
    /\ udp' = TRUE
    /\ Resolved
    /\ UNCHANGED <<sock, tcp, groups, life, packets, faults>>

(* The port is taken.  The TCP connection is left as it is. *)
BindFails ==
    /\ phase = "bind" /\ Fault("bindFailure")
    /\ IF owner = "gone" THEN unheard' = TRUE /\ UNCHANGED recovery
                         ELSE Rejected /\ UNCHANGED unheard
    /\ UNCHANGED <<sockets, subscription, groups, owner, awaited, console>>

(* An "error" event nobody listens to throws before the promise is rejected. *)
TcpRefused(s) ==
    /\ sock[s] = "connecting" /\ Fault("refusal")
    /\ sock' = [sock EXCEPT ![s] = "closing"]
    /\ IF owner = "gone" THEN unheard' = TRUE /\ UNCHANGED recovery
                         ELSE Rejected /\ UNCHANGED unheard
    /\ UNCHANGED <<tcp, udp, subscription, groups, owner, awaited, console>>

-----------------------------------------------------------------------------
(* Losing the connection and coming back. *)

Cut(s) == stream' = IF stream # None /\ stream.on = s THEN None ELSE stream

TcpDropped(s) ==
    /\ sock[s] = "open" /\ Fault("drop")
    /\ sock' = [sock EXCEPT ![s] = "closing"]
    /\ Cut(s)
    /\ unheard' \in {unheard, unheard \/ owner = "gone"}
    /\ UNCHANGED <<recovery, tcp, udp, subscription, groups, owner, awaited, packets>>

(* The "close" event: handleTcpClosed(), whichever socket it is about, and *)
(* disconnect() goes on if it waited for this one.                         *)
TcpClosed(s) ==
    /\ sock[s] = "closing"
    /\ sock' = [sock EXCEPT ![s] = "unused"]
    /\ tcp' = None
    /\ keepalive' = (keepalive /\ explicit)
    /\ retryTimer' = (retryTimer \/ ~explicit)
    /\ IF awaited = s THEN udp' = FALSE /\ owner' = "gone" /\ awaited' = None
                      ELSE UNCHANGED <<udp, owner, awaited>>
    /\ UNCHANGED <<explicit, phase, callers, wanted, reportId, layout, groups, unheard,
                   console, faults>>

(* handleUdpFailure(): recovery goes through the TCP reconnect. *)
UdpFails ==
    /\ udp /\ Fault("udpError")
    /\ \/ /\ owner = "gone"
          /\ unheard' = TRUE
          /\ UNCHANGED <<sockets, retryTimer, stream>>
       \/ /\ owner # "gone"
          /\ udp' = FALSE
          /\ IF ~explicit /\ tcp # None
             THEN sock' = [sock EXCEPT ![tcp] = "closing"] /\ Cut(tcp)
             ELSE UNCHANGED <<sock, stream>>
          /\ retryTimer' = (retryTimer \/ (~explicit /\ tcp = None))
          /\ UNCHANGED <<tcp, unheard>>
    /\ UNCHANGED <<explicit, phase, callers, subscription, groups, owner, awaited, packets>>

(* The reconnect timer runs for a second at least: the steps doConnect()   *)
(* takes once it is connected and the "close" event of a socket that was   *)
(* destroyed, which wait for no peer, are over by then.                    *)
Due == /\ retryTimer
       /\ phase \in {"idle", "tcp"}
       /\ \A s \in Sockets : sock[s] # "closing"

Reconnect ==
    /\ Due
    /\ retryTimer' = FALSE
    /\ \/ /\ explicit
          /\ UNCHANGED <<phase, callers, sock>>
       \/ /\ ~explicit /\ phase = "tcp"
          /\ callers' = callers \cup {"retry"}
          /\ UNCHANGED <<phase, sock>>
       \/ /\ ~explicit /\ phase = "idle"
          /\ callers' = {"retry"}
          /\ \E s \in Sockets : Dial(s)
    /\ UNCHANGED <<explicit, tcp, udp, subscription, groups, life, console, faults>>

Forget ==
    /\ keepalive' = FALSE /\ wanted' = FALSE /\ reportId' = None

Disconnect ==
    /\ owner = "running"
    /\ explicit' = TRUE /\ retryTimer' = FALSE
    /\ Forget
    /\ tcp' = None
    /\ \/ /\ tcp # None
          /\ sock' = [sock EXCEPT ![tcp] = "closing"]
          /\ Cut(tcp)
          /\ owner' = "closing" /\ awaited' = tcp
          /\ UNCHANGED udp
       \/ /\ tcp = None
          /\ owner' = "gone" /\ udp' = FALSE
          /\ UNCHANGED <<sock, stream, awaited>>
    /\ UNCHANGED <<phase, callers, layout, groups, unheard, packets, faults>>

-----------------------------------------------------------------------------
(* The console. *)

Renewed(x) == keepalive /\ tcp = x.on /\ reportId = x.id

StreamExpires ==
    /\ stream # None /\ ~Renewed(stream)
    /\ stream' = None
    /\ UNCHANGED <<recovery, sockets, subscription, groups, life, packets, faults>>

ConsoleSends ==
    /\ stream # None /\ Cardinality(packets) < MaxPackets
    /\ packets' = packets \cup {[id |-> stream.id, groups |-> stream.groups]}
    /\ UNCHANGED <<recovery, sockets, subscription, groups, life, stream, faults>>

(* Handled by handleUdpMessage(), which changes nothing here, or lost. *)
PacketGone(p) ==
    /\ packets' = packets \ {p}
    /\ UNCHANGED <<recovery, sockets, subscription, groups, life, stream, faults>>

Accepts(p) == udp /\ p.id = reportId

Next ==
    \/ OwnerConnect \/ Disconnect
    \/ \E x \in SUBSET Extras : SetExtraRequests(x)
    \/ SetIoSizes
    \/ \E s \in Sockets : TcpConnected(s) \/ TcpRefused(s) \/ TcpDropped(s) \/ TcpClosed(s)
    \/ SelectChannel \/ BindUdp \/ BindFails
    \/ UdpFails \/ Reconnect
    \/ StreamExpires \/ ConsoleSends
    \/ \E p \in packets : PacketGone(p)

Spec == Init /\ [][Next]_vars

(* Timers fire, connects and binds come to an end, a destroyed socket      *)
(* closes, packets arrive or are lost.  Nobody has to fail or to ask.      *)
Fairness ==
    /\ WF_vars(SelectChannel) /\ WF_vars(BindUdp) /\ WF_vars(Reconnect)
    /\ WF_vars(StreamExpires)
    /\ \A s \in Sockets : WF_vars(TcpConnected(s)) /\ WF_vars(TcpClosed(s))
    /\ WF_vars(\E p \in packets : PacketGone(p))

FairSpec == Spec /\ Fairness

-----------------------------------------------------------------------------
(* Properties. *)

(* Every variable has its type, and there is a report id exactly while     *)
(* there is a subscription.                                                *)
TypeOK ==
    /\ wanted <=> reportId # None
    /\ explicit \in BOOLEAN /\ phase \in {"idle", "tcp", "select", "bind"}
    /\ callers \in SUBSET {"owner", "retry"} /\ retryTimer \in BOOLEAN
    /\ sock \in [Sockets -> {"unused", "connecting", "open", "closing"}]
    /\ tcp \in Sockets \cup {None} /\ udp \in BOOLEAN
    /\ keepalive \in BOOLEAN /\ wanted \in BOOLEAN
    /\ reportId \in Ids \cup {None} /\ layout \in SUBSET (Extras \cup {"base"})
    /\ asked \in SUBSET Extras /\ extras \in SUBSET Extras /\ sizes \in BOOLEAN
    /\ owner \in {"new", "running", "closing", "gone"}
    /\ awaited \in Sockets \cup {None} /\ unheard \in BOOLEAN
    /\ stream \in Streams \cup {None} /\ packets \in SUBSET Packets
    /\ faults \in [Faults -> Nat]

(* A packet the client accepts was sent for the groups it decodes it with, *)
(* whatever resubscriptions and reconnections it was in flight across.     *)
DecodesRight == \A p \in packets : Accepts(p) => p.groups = layout

(* The console sends what the client asked for, over the connection the    *)
(* client holds, and will go on.                                           *)
Streaming ==
    /\ udp /\ tcp # None /\ sock[tcp] = "open" /\ wanted
    /\ stream # None /\ Renewed(stream)
    /\ stream.groups = {"base"} \cup extras

(* Once subscribed and until disconnect(), the client either receives the  *)
(* meters it wants or has a timer, a connect or a close event under way    *)
(* that leads back to them.                                                *)
KeepsTrying ==
    wanted /\ ~explicit =>
        \/ Streaming \/ retryTimer \/ phase # "idle"
        \/ \E s \in Sockets : sock[s] = "closing"

(* The inductive invariant behind DecodesRight: the id of the current      *)
(* subscription names no packet and no stream of an earlier one.           *)
IdsNameGroups ==
    /\ \A p \in packets : p.id = reportId => p.groups = layout
    /\ stream # None /\ stream.id = reportId => stream.groups = layout

(* And the one behind KeepsTrying: a connection that was lost while        *)
(* doConnect() was past it has armed the timer, and a connect that is      *)
(* under way for a subscribed client will be tried again if it fails.      *)
WayBack ==
    /\ KeepsTrying
    /\ tcp # None => sock[tcp] \in {"open", "closing"}
    /\ phase \in {"select", "bind"} /\ tcp = None /\ ~explicit => retryTimer
    /\ phase # "idle" /\ wanted => "retry" \in callers
    /\ \A s, t \in Sockets :
          sock[s] = "connecting" => phase = "tcp" /\ (sock[t] = "connecting" => s = t)
    /\ owner = "new" =>
          /\ ~wanted /\ ~retryTimer /\ ~udp /\ phase = "idle"
          /\ \A s \in Sockets : sock[s] = "unused"
    /\ extras = Sized(asked, sizes)

(* Together: what every step of the client, its owner and the network keeps. *)
IInv == TypeOK /\ IdsNameGroups /\ WayBack

(* A subscription that was made comes back after every loss.               *)
MetersComeBack == wanted /\ ~explicit ~> (Streaming \/ explicit)

(* Statements of the source and docs that the client does not keep, checked *)
(* by no run: the README tells how each is refuted.                          *)

(* docs/bridge.md counts one meter connection among the console            *)
(* connections used: the client never holds or dials a second one.         *)
OneConnection ==
    Cardinality({s \in Sockets : sock[s] \in {"connecting", "open"}}) <= 1

(* connectClients' comment: the client's own reconnect loop takes over     *)
(* regardless of how the first connect settles, so meters come up.         *)
MetersComeUp == owner = "running" ~> (Streaming \/ owner # "running")

(* stop()'s comment: nothing a connect in progress is about to create      *)
(* outlives the shutdown.                                                  *)
NothingOutlivesShutdown == owner = "gone" => \A s \in Sockets : sock[s] # "open"

(* disconnectClients' comment: the "error" listener stays until            *)
(* disconnect() has settled, because an error nobody hears throws.         *)
NoUnheardError == ~unheard
=============================================================================
