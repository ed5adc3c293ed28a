----------------------------- MODULE LiveSocket -----------------------------
(***************************************************************************)
(* The dashboard's side of one WebSocket channel: the connection with its  *)
(* tickets, retries and idle close, the one subscription its components    *)
(* are folded into (web/src/api/liveSocket.ts, useLive.ts), and the API    *)
(* calls that travel over it or over HTTP (web/src/api/client.ts).  A tick *)
(* of the page is one step: the microtask that flushes the subscriptions   *)
(* runs at its end.  The server's hub is modelled by the messages it takes *)
(* and gives; WsHub has its inside.                                        *)
(***************************************************************************)
EXTENDS Naturals, Sequences, FiniteSets, SequencesExt

CONSTANTS
    Panels,       \* components that subscribe to the topic
    Mounts,       \* what they may subscribe together: per component, the strips it asks for
    Writes, Reads, \* API calls of the page: those that change something, those that do not
    MaxSockets,   \* bound: connections opened
    MaxMounts,    \* bound: times the set of subscribers changes
    MaxDrops      \* bound: connections lost and tickets refused

ASSUME LiveSocketAssumption ==
    /\ MaxSockets \in Nat \ {0} /\ MaxMounts \in Nat /\ MaxDrops \in Nat
    /\ Writes \cap Reads = {}

VARIABLES
    status,     \* "idle", "connecting" or "open"
    tickets,    \* connect() calls that await their ticket
    retries,    \* retry timers that run
    idling,     \* idleTimer runs
    socket,     \* this.ws: a number of `link`, or 0
    everOpened,
    wanted,     \* per component: the strips it subscribes, {} when it does not
    sentParams, \* what the last `sub` asked for, {} when none was sent
    layout,     \* the topic's last `ack` data, {} before
    link,       \* connections by number: "opening", "up", "down" (close to be delivered), "gone"
    up, back,   \* per connection: messages to the server, and from it
    served,     \* per connection: what the hub's table has for the topic
    calls,      \* per API call: "unsent", "live", "http", "done" or "failed"
    ran,        \* per API call: how often its route ran
    misread,    \* history: a frame was decoded with the columns of another subscription
    mounts, drops

live == <<status, tickets, retries, idling, socket, everOpened>>
topic == <<wanted, sentParams, layout>>
net == <<link, up, back, served>>
liveVars == <<live, topic, net, calls, ran, misread, mounts, drops>>

Calls == Writes \cup Reads
Sockets == DOMAIN link
(* mergeStrips(): one subscription for all. *)
Merged(w) == UNION {w[p] : p \in Panels}
Wanting(w) == {p \in Panels : w[p] # {}}

(* send(): nothing leaves by a connection that is not up. *)
Sent(s, m) == IF s # 0 /\ link[s] = "up" THEN [up EXCEPT ![s] = Append(@, m)] ELSE up

(* flush(), on the open connection: one `sub` when what is wanted changed, *)
(* one `unsub` when nothing is, and the topic is forgotten.                *)
Flush(s, w, sent) ==
    IF Merged(w) = sent THEN UNCHANGED <<sentParams, layout, up>>
    ELSE /\ sentParams' = Merged(w)
         /\ up' = Sent(s, [t |-> "sub", of |-> Merged(w)])
         /\ layout' = IF Merged(w) = {} THEN {} ELSE layout

(* connect() up to its await. *)
Connect == status' = "connecting" /\ tickets' = tickets + 1

(* Components mount, unmount or ask for other strips in one tick:          *)
(* subscribe(), its undo, ensureOpen() and scheduleIdleClose().            *)
Mount(w) ==
    /\ w # wanted /\ mounts < MaxMounts /\ mounts' = mounts + 1
    /\ wanted' = w
    /\ idling' = (Wanting(w) = {})
    /\ IF Wanting(w) # {} /\ status = "idle" THEN Connect ELSE UNCHANGED <<status, tickets>>
    /\ IF status = "open" THEN Flush(socket, w, sentParams) ELSE UNCHANGED <<sentParams, layout, up>>
    /\ UNCHANGED <<retries, socket, everOpened, link, back, served, calls, ran, misread, drops>>

(* failPending(): nobody will answer; a read is asked again over HTTP, a   *)
(* write whose fate is unknown is not.                                     *)
Unanswerable(c) == IF c \in Reads THEN "http" ELSE "failed"
FailPending == calls' = [c \in Calls |-> IF calls[c] = "live" THEN Unanswerable(c) ELSE calls[c]]

(* shutdown() *)
Shutdown ==
    /\ retries' = IF retries > 0 THEN retries - 1 ELSE 0
    /\ socket' = 0 /\ everOpened' = FALSE /\ status' = "idle" /\ FailPending

(* scheduleReconnect() *)
ScheduleReconnect ==
    IF Wanting(wanted) = {} THEN Shutdown
    ELSE status' = "connecting" /\ retries' = retries + 1 /\ UNCHANGED everOpened

IdleClose ==
    /\ idling /\ idling' = FALSE
    /\ IF Wanting(wanted) # {} THEN UNCHANGED <<status, retries, socket, everOpened, link, up, calls>>
       ELSE /\ Shutdown
            /\ link' = IF socket = 0 THEN link ELSE [link EXCEPT ![socket] = "gone"]
            /\ up' = IF socket = 0 THEN up ELSE [up EXCEPT ![socket] = <<>>]
    /\ UNCHANGED <<tickets, topic, back, served, ran, misread, mounts, drops>>

RetryFires ==
    /\ retries > 0 /\ retries' = retries - 1
    /\ Connect
    /\ UNCHANGED <<idling, socket, everOpened, topic, net, calls, ran, misread, mounts, drops>>

(* connect() from its await on: the new connection takes the place of      *)
(* whatever this.ws was, unless the connection was shut down meanwhile.    *)
TicketArrives ==
    /\ tickets > 0 /\ tickets' = tickets - 1
    /\ IF status # "connecting" THEN UNCHANGED <<socket, net>>
       ELSE /\ Len(link) < MaxSockets
            /\ socket' = Len(link) + 1
            /\ link' = Append(link, "opening") /\ up' = Append(up, <<>>) /\ back' = Append(back, <<>>)
            /\ served' = Append(served, {})
    /\ UNCHANGED <<status, retries, idling, everOpened, topic, calls, ran, misread, mounts, drops>>

TicketFails ==
    /\ tickets > 0 /\ tickets' = tickets - 1 /\ drops < MaxDrops /\ drops' = drops + 1
    /\ ScheduleReconnect
    /\ IF Wanting(wanted) # {} THEN UNCHANGED <<socket, calls, link, up>>
       ELSE /\ link' = IF socket = 0 THEN link ELSE [link EXCEPT ![socket] = "gone"]
            /\ up' = IF socket = 0 THEN up ELSE [up EXCEPT ![socket] = <<>>]
    /\ UNCHANGED <<idling, topic, back, served, ran, misread, mounts>>

(* The server takes the connection and greets it. *)
Opened(s) ==
    /\ link[s] = "opening"
    /\ link' = [link EXCEPT ![s] = "up"] /\ back' = [back EXCEPT ![s] = <<[t |-> "hello"]>>]
    /\ UNCHANGED <<live, topic, up, served, calls, ran, misread, mounts, drops>>

(* The connection is lost, with what was on its way to the server and the  *)
(* end of what was on its way back.                                        *)
ConnectionDrops(s) ==
    /\ link[s] \in {"opening", "up"} /\ drops < MaxDrops /\ drops' = drops + 1
    /\ link' = [link EXCEPT ![s] = "down"] /\ up' = [up EXCEPT ![s] = <<>>]
    /\ \E n \in 0..Len(back[s]) : back' = [back EXCEPT ![s] = SubSeq(@, 1, n)]
    /\ UNCHANGED <<live, topic, served, calls, ran, misread, mounts>>

(* Mutant: a lost connection does not forget what it had subscribed. *)
ClosedRemembering(s) ==
    /\ link[s] = "down" /\ back[s] = <<>>
    /\ link' = [link EXCEPT ![s] = "gone"]
    /\ IF socket # s THEN UNCHANGED <<live, topic, calls>>
       ELSE /\ socket' = 0 /\ FailPending /\ ScheduleReconnect
            /\ UNCHANGED <<topic, tickets, idling>>
    /\ UNCHANGED <<up, back, served, ran, misread, mounts, drops>>

(* onclose *)
Closed(s) ==
    /\ link[s] = "down" /\ back[s] = <<>>
    /\ link' = [link EXCEPT ![s] = "gone"]
    /\ IF socket # s THEN UNCHANGED <<live, topic, calls>>
       ELSE /\ socket' = 0 /\ FailPending /\ ScheduleReconnect
            /\ sentParams' = {} /\ UNCHANGED <<wanted, layout, tickets, idling>>
    /\ UNCHANGED <<up, back, served, ran, misread, mounts, drops>>

(* The hub takes a message: a subscription is acknowledged with its        *)
(* columns; a request is refused unrun, or runs, in time or not.           *)
ServerTakes(s) ==
    /\ link[s] = "up" /\ up[s] # <<>>
    /\ up' = [up EXCEPT ![s] = Tail(@)]
    /\ LET m == Head(up[s]) Reply(r) == back' = [back EXCEPT ![s] = Append(@, r)]
       IN \/ /\ m.t = "sub" /\ served' = [served EXCEPT ![s] = m.of] /\ UNCHANGED ran
             /\ IF m.of = {} THEN UNCHANGED back ELSE Reply([t |-> "ack", of |-> m.of])
          \/ /\ m.t = "req" /\ Reply([t |-> "err", of |-> m.of, unrun |-> TRUE]) /\ UNCHANGED <<ran, served>>
          \/ /\ m.t = "req" /\ ran' = [ran EXCEPT ![m.of] = @ + 1] /\ UNCHANGED served
             /\ \E r \in {[t |-> "res", of |-> m.of], [t |-> "err", of |-> m.of, unrun |-> FALSE]} : Reply(r)
    /\ UNCHANGED <<live, topic, link, calls, misread, mounts, drops>>

(* The hub sends a frame of readings. *)
Frame(s) ==
    /\ link[s] = "up" /\ served[s] # {}
    /\ \A i \in DOMAIN back[s] : back[s][i].t # "evt"
    /\ back' = [back EXCEPT ![s] = Append(@, [t |-> "evt", of |-> served[s]])]
    /\ UNCHANGED <<live, topic, link, up, served, calls, ran, misread, mounts, drops>>

(* onMessage() of the connection in use. *)
OnMessage(m) ==
    CASE m.t = "hello" -> /\ status' = "open" /\ everOpened' = TRUE /\ Flush(socket, wanted, sentParams)
                          /\ UNCHANGED <<calls, misread>>
      [] m.t = "ack" -> /\ layout' = IF sentParams = {} THEN layout ELSE m.of
                        /\ UNCHANGED <<status, everOpened, sentParams, up, calls, misread>>
      [] m.t = "evt" -> /\ misread' = (misread \/ layout \notin {{}, m.of})
                        /\ UNCHANGED <<status, everOpened, sentParams, layout, up, calls>>
      [] OTHER -> /\ calls' = IF calls[m.of] # "live" THEN calls
                              ELSE [calls EXCEPT ![m.of] = IF m.t = "res" THEN "done"
                                                           ELSE IF m.unrun THEN "http" ELSE Unanswerable(m.of)]
                  /\ UNCHANGED <<status, everOpened, sentParams, layout, up, misread>>

(* Mutant: onmessage takes what an abandoned connection still delivers. *)
DeliverFromAny(s) ==
    /\ back[s] # <<>> /\ back' = [back EXCEPT ![s] = Tail(@)]
    /\ OnMessage(Head(back[s]))
    /\ UNCHANGED <<tickets, retries, idling, socket, wanted, link, served, ran, mounts, drops>>

(* onmessage *)
Deliver(s) ==
    /\ back[s] # <<>> /\ back' = [back EXCEPT ![s] = Tail(@)]
    /\ IF socket = s THEN OnMessage(Head(back[s]))
       ELSE UNCHANGED <<status, everOpened, sentParams, layout, up, calls, misread>>
    /\ UNCHANGED <<tickets, retries, idling, socket, wanted, link, served, ran, mounts, drops>>

(* apiFetch(): over the open connection, or over HTTP. *)
Call(c) ==
    /\ calls[c] = "unsent"
    /\ LET overLive == status = "open" /\ socket # 0 /\ link[socket] = "up"
       IN /\ calls' = [calls EXCEPT ![c] = IF overLive THEN "live" ELSE "http"]
          /\ up' = IF overLive THEN Sent(socket, [t |-> "req", of |-> c]) ELSE up
    /\ UNCHANGED <<live, topic, link, back, served, ran, misread, mounts, drops>>

(* Mutant: whatever was not answered in time is sent again over HTTP. *)
TimeoutRetried(c) ==
    /\ calls[c] = "live" /\ calls' = [calls EXCEPT ![c] = "http"]
    /\ UNCHANGED <<live, topic, net, ran, misread, mounts, drops>>

(* The timer of request(). *)
CallTimesOut(c) ==
    /\ calls[c] = "live" /\ calls' = [calls EXCEPT ![c] = Unanswerable(c)]
    /\ UNCHANGED <<live, topic, net, ran, misread, mounts, drops>>

(* httpFetch(): the route runs and answers, or runs without an answer, or  *)
(* is never reached.                                                       *)
HttpFetch(c) ==
    /\ calls[c] = "http"
    /\ \/ ran' = [ran EXCEPT ![c] = @ + 1] /\ \E o \in {"done", "failed"} : calls' = [calls EXCEPT ![c] = o]
       \/ calls' = [calls EXCEPT ![c] = "failed"] /\ UNCHANGED ran
    /\ UNCHANGED <<live, topic, net, misread, mounts, drops>>

LiveInit ==
    /\ status = "idle" /\ tickets = 0 /\ retries = 0 /\ idling = FALSE /\ socket = 0 /\ everOpened = FALSE
    /\ wanted = [p \in Panels |-> {}] /\ sentParams = {} /\ layout = {}
    /\ link = <<>> /\ up = <<>> /\ back = <<>> /\ served = <<>>
    /\ calls = [c \in Calls |-> "unsent"] /\ ran = [c \in Calls |-> 0]
    /\ misread = FALSE /\ mounts = 0 /\ drops = 0

LiveProgress ==
    \/ IdleClose \/ RetryFires \/ TicketArrives
    \/ \E s \in Sockets : Opened(s) \/ Closed(s) \/ ServerTakes(s) \/ Deliver(s)
LiveNext ==
    \/ LiveProgress \/ TicketFails
    \/ \E w \in Mounts : Mount(w)
    \/ \E s \in Sockets : ConnectionDrops(s) \/ Frame(s)
    \/ \E c \in Calls : Call(c) \/ CallTimesOut(c) \/ HttpFetch(c)

(* Timers, the network and the server each get to their next step. *)
LiveFairness ==
    /\ WF_liveVars(IdleClose) /\ WF_liveVars(RetryFires) /\ WF_liveVars(TicketArrives)
    /\ \A s \in 1..MaxSockets : /\ WF_liveVars(s \in Sockets /\ Opened(s)) /\ WF_liveVars(s \in Sockets /\ Closed(s))
                                 /\ WF_liveVars(s \in Sockets /\ ServerTakes(s)) /\ WF_liveVars(s \in Sockets /\ Deliver(s))

LiveSpec == LiveInit /\ [][LiveNext]_liveVars /\ LiveFairness

(* However connections drop, refuse, time out and fall back to HTTP, a     *)
(* change the page asks for is made at most once, and is made exactly once *)
(* when the page is told so.                                               *)
WritesRunOnce ==
    \A c \in Writes : ran[c] \in (IF calls[c] = "done" THEN {1} ELSE IF calls[c] = "unsent" THEN {0} ELSE {0, 1})

(* A frame of readings is never read by the columns of another             *)
(* subscription than the one it was made for, whichever connections were   *)
(* given up or reopened meanwhile.                                         *)
ReadByItsColumns == ~misread

(* How many attempts, timers and connections in use there are. *)
Attempts == tickets + retries + (IF socket # 0 THEN 1 ELSE 0)

(* Once the page stops changing and the network holds, the server serves,  *)
(* on the connection in use, what the components together ask for, unless  *)
(* two attempts to connect ever overlapped: a ticket that takes longer     *)
(* than an idle connection stays open (5 s) lets another one start.        *)
SubscriptionsAreServed ==
    [](Attempts <= 1) /\ <>[](Wanting(wanted) # {})
        => <>[](socket # 0 /\ link[socket] = "up" /\ served[socket] = Merged(wanted))
=============================================================================
