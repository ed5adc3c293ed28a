----------------------------- MODULE WingPlugin -----------------------------
(***************************************************************************)
(* The plugin (plugins/wing/wing-plugin.ts): the chain of start(),         *)
(* setConfig() and stop(), which tear the console's clients down and build *)
(* new ones across several awaits; the state cache                         *)
(* (wing-state-cache.ts), filled by pushes, by the dumps made on connect   *)
(* and by name reads (tools/names.ts), and dropped when pushes may have    *)
(* been missed; the heartbeat.                                             *)
(*                                                                         *)
(* Of the OSC client it uses what WingOscClient shows in detail: a request *)
(* is settled by the first message with its address, fails when the client *)
(* closes or the time is up, and any other message is a push.  Messages    *)
(* arrive in the order the console sent them or, while it is away, never;  *)
(* the loss of a single push is left to the age limit of cached names.     *)
(* The client made for a caller while there is no console connection is    *)
(* never connected and refuses everything: it counts as none.              *)
(***************************************************************************)
EXTENDS Naturals, Sequences, FiniteSets

CONSTANTS
    Hosts,        \* consoles that may be configured
    NoHost,       \* the empty host: nothing to connect to
    Params,       \* cached parameters: "name" is read by itself, all others by one dump
    Patches,      \* settings beside the host that tools switch on by themselves
    None,
    MaxJobs,      \* bound: calls of start(), setConfig(), updateConfig(), stop()
    MaxEvents,    \* bound: such calls, changes at the consoles, outages and stalls
    MaxMessages   \* bound: messages in flight

Configs == [host : Hosts \cup {NoHost}, on : SUBSET Patches]

ASSUME PluginAssumption ==
    /\ "name" \in Params /\ IsFiniteSet(Params) /\ Params \cap {"scene", "strip", "ack"} = {}
    /\ NoHost \notin Hosts /\ None \notin Configs \cup Patches
    /\ MaxJobs \in Nat /\ MaxEvents \in Nat /\ MaxMessages \in Nat

VARIABLES
    jobs,      \* configChain: what was queued, and how far each got
    stored,    \* what the configuration store holds for the plugin
    config,    \* this.config
    client,    \* this.client: the number of the client made, or 0
    hosts,     \* the host of each client made
    open,      \* clients whose socket is open
    timers,    \* clients whose heartbeat interval runs
    timer,     \* heartbeatTimer
    handles,   \* clients whose subscription is renewed
    handle,    \* subscriptionHandle
    failing,   \* heartbeatFailing
    cache,     \* the state cache: a parameter's <<host, value>> or None
    asked,     \* the client each reader awaits an answer of, or 0
    desk,      \* the parameters of each console
    away,      \* consoles that cannot be reached
    fed,       \* the client the console pushes changes to, or 0
    owed,      \* requests that reached a console, by client and address
    wire,      \* messages on the way to the clients
    stalled,   \* the server was too late with a renewal
    spent,     \* how many changes, outages and stalls there were
    blind      \* history: cached parameters that changed unseen

chain == <<jobs, stored, config>>
clients == <<client, hosts, open, timers, timer, handles, handle>>
console == <<desk, away, fed, spent>>
vars == <<chain, clients, failing, cache, asked, console, owed, wire, stalled, blind>>

Readers == {"name", "dump", "recall"}
Address(r) == CASE r = "name" -> "name" [] r = "dump" -> "strip" [] r = "recall" -> "ack"

Job == [kind : {"start", "set", "stop"}, conf : Configs, patch : Patches \cup {None},
        prev : Configs \cup {None},
        at : {"queued", "saving", "bridging", "closing", "connecting", "warming", "done", "failed"}]

Empty == [p \in Params |-> None]
NotConfigured == [host |-> NoHost, on |-> {}]

Init ==
    /\ jobs = <<>> /\ stored = None /\ config = None
    /\ client = 0 /\ hosts = <<>> /\ open = {}
    /\ timers = {} /\ timer = 0 /\ handles = {} /\ handle = 0
    /\ failing = FALSE /\ cache = Empty
    /\ asked = [r \in Readers |-> 0]
    /\ desk = [h \in Hosts |-> [p \in Params |-> 0]]
    /\ away = {} /\ fed = 0 /\ owed = {} /\ wire = <<>>
    /\ stalled = FALSE /\ blind = {}
    /\ spent = 0

Reachable(g) == g \in open /\ hosts[g] \notin away
Value(h, p) == <<h, desk[h][p]>>

(* A message carries values of some parameters: a push or a name's answer *)
(* of one, a dump of all others, a scene or an acknowledgement of none.   *)
Message(g, path, h, values) == [to |-> g, path |-> path, host |-> h, values |-> values]
Now(h, ps) == [p \in ps |-> desk[h][p]]
Fresh(m) == {p \in DOMAIN m.values : m.values[p] = desk[m.host][p]}

-----------------------------------------------------------------------------
(* The cache. *)

(* Messages that are on the way while the cache is dropped put old values *)
(* back: not made good.                                                   *)
Belated == UNION {DOMAIN wire[i].values \ Fresh(wire[i]) : i \in DOMAIN wire}

(* invalidateCache() and WingStateCache.clear(); the names are read again *)
(* in the background, by the reads that may happen at any time.           *)
ClearCache == cache' = Empty /\ blind' = Belated

ApplyChange(m) ==
    /\ cache' = [p \in Params |-> IF p \in DOMAIN m.values THEN <<m.host, m.values[p]>> ELSE cache[p]]
    /\ blind' = blind \ Fresh(m)

KeepCache == UNCHANGED <<cache, blind>>

(* onHeartbeat() *)
OnHeartbeat(ok) ==
    /\ failing' = ~ok
    /\ IF ok /\ failing THEN ClearCache ELSE KeepCache

(* Mutant: a scene loaded at the surface is noted and nothing else. *)
OnParamChangeSceneKept(m) ==
    /\ IF m.path = "scene" THEN cache' = cache /\ blind' = {}
       ELSE IF m.path \in Params THEN ApplyChange(m) ELSE KeepCache
    /\ UNCHANGED failing

(* onParamChange() *)
OnParamChange(m) ==
    /\ IF m.path = "scene" THEN ClearCache
       ELSE IF m.path \in Params THEN ApplyChange(m) ELSE KeepCache
    /\ UNCHANGED failing

-----------------------------------------------------------------------------
(* Configuration changes, one after the other. *)

Current == IF config = None THEN NotConfigured ELSE config

Enqueue(kind, conf, patch) ==
    /\ Len(jobs) < MaxJobs /\ Len(jobs) + spent < MaxEvents
    /\ jobs' = Append(jobs, [kind |-> kind, conf |-> conf, patch |-> patch,
                             prev |-> None, at |-> "queued"])
    /\ UNCHANGED <<stored, config, clients, failing, cache, asked, console, owed, wire,
                   stalled, blind>>

(* start() takes the stored configuration or, here, the environment's. *)
Start(h) == jobs = <<>> /\ Enqueue("start", [host |-> h, on |-> {}], None)

Running == jobs # <<>> /\ \A j \in DOMAIN jobs : jobs[j].kind # "stop"

(* setConfig() from the dashboard: the form's values, as it read them. *)
SetConfig(h) == Running /\ Enqueue("set", [Current EXCEPT !.host = h], None)

(* updateConfig(): the patch is laid over the configuration of this moment. *)
UpdateConfig(p) == Running /\ Enqueue("set", [Current EXCEPT !.on = @ \cup {p}], p)

Stop == Running /\ Enqueue("stop", NotConfigured, None)

Settled(j) == jobs[j].at \in {"done", "failed"}

(* serialized(): a job runs when all before it have settled, also badly. *)
MayRun(j) == \A i \in 1..(j - 1) : Settled(i)

Goes(j, at) == jobs' = [jobs EXCEPT ![j].at = at]

(* Mutant: the heartbeat of the old client is left running. *)
DisconnectButBeat ==
    /\ timer' = 0
    /\ handles' = handles \ {handle, client} /\ handle' = 0
    /\ open' = open \ {client} /\ client' = 0
    /\ asked' = [r \in Readers |-> IF asked[r] = client THEN 0 ELSE asked[r]]
    /\ failing' \in {failing, failing \/ timer # 0}
    /\ wire' = << >>
    /\ owed' = {q \in owed : q[1] # client}
    /\ fed' = IF fed = client THEN 0 ELSE fed
    /\ UNCHANGED <<hosts, timers, desk, away, spent, stalled>>

(* disconnectClients(): up to its first await everything of the current   *)
(* client goes, and what it was asked is rejected at once.  There are     *)
(* messages on the way to no other.                                       *)
Disconnect ==
    /\ timers' = timers \ {timer} /\ timer' = 0
    /\ handles' = handles \ {handle, client} /\ handle' = 0
    /\ open' = open \ {client} /\ client' = 0
    /\ asked' = [r \in Readers |-> IF asked[r] = client THEN 0 ELSE asked[r]]
    /\ failing' \in {failing, failing \/ timer # 0}
    /\ wire' = << >>
    /\ owed' = {q \in owed : q[1] # client}
    /\ fed' = IF fed = client THEN 0 ELSE fed
    /\ UNCHANGED <<hosts, desk, away, spent, stalled>>

(* connectClients(), up to the OSC client's connect(). *)
Connect(j) ==
    LET h == config.host IN
    /\ IF h = NoHost
       THEN Goes(j, "done") /\ client' = 0 /\ UNCHANGED hosts
       ELSE Goes(j, "connecting") /\ client' = Len(hosts) + 1 /\ hosts' = Append(hosts, h)

(* resolveConfig(), or the first half of setConfig(): the store remembers *)
(* the value at once and writes it; stop() only disconnects.              *)
Begin(j) ==
    /\ jobs[j].at = "queued" /\ MayRun(j)
    /\ \/ /\ jobs[j].kind = "start" /\ stored = None
          /\ stored' = jobs[j].conf /\ Goes(j, "saving")
          /\ UNCHANGED <<config, clients, failing, cache, asked, console, owed, wire,
                         stalled, blind>>
       \/ /\ jobs[j].kind = "set"
          /\ jobs' = [jobs EXCEPT ![j].at = "saving", ![j].prev = config]
          /\ stored' = jobs[j].conf
          /\ UNCHANGED <<config, clients, failing, cache, asked, console, owed, wire,
                         stalled, blind>>
       \/ /\ jobs[j].kind = "stop"
          /\ Goes(j, "closing") /\ Disconnect
          /\ UNCHANGED <<stored, config, cache, blind>>

Saved(j) ==
    /\ jobs[j].at = "saving"
    /\ config' = jobs[j].conf /\ Goes(j, "bridging")
    /\ UNCHANGED <<stored, clients, failing, cache, asked, console, owed, wire, stalled, blind>>

(* The write failed: start() goes on without, setConfig() is refused. *)
SaveFails(j) ==
    /\ jobs[j].at = "saving"
    /\ IF jobs[j].kind = "start" THEN Goes(j, "bridging") /\ config' = jobs[j].conf
       ELSE Goes(j, "failed") /\ UNCHANGED config
    /\ UNCHANGED <<stored, clients, failing, cache, asked, console, owed, wire, stalled, blind>>

ConnectionChanged(j) == jobs[j].prev = None \/ jobs[j].prev.host # config.host

(* The bridge is configured; then, if the console is another, the cache is *)
(* dropped and the clients replaced.                                       *)
Bridged(j) ==
    /\ jobs[j].at = "bridging"
    /\ \/ /\ jobs[j].kind = "start" /\ Connect(j)
          /\ UNCHANGED <<open, timers, timer, handles, handle, failing, cache, asked, console, owed,
                         wire, stalled, blind>>
       \/ /\ jobs[j].kind = "set" /\ ConnectionChanged(j)
          /\ Goes(j, "closing") /\ ClearCache /\ Disconnect
       \/ /\ jobs[j].kind = "set" /\ ~ConnectionChanged(j)
          /\ Goes(j, "done")
          /\ UNCHANGED <<clients, failing, cache, asked, console, owed, wire, stalled, blind>>
    /\ UNCHANGED <<stored, config>>

(* The meter client has disconnected as well (WingMeterClient). *)
Closed(j) ==
    /\ jobs[j].at = "closing"
    /\ \/ jobs[j].kind = "stop" /\ Goes(j, "done") /\ UNCHANGED <<client, hosts>>
       \/ jobs[j].kind = "set" /\ Connect(j)
    /\ UNCHANGED <<stored, config, open, timers, timer, handles, handle, failing, cache, asked,
                   console, owed, wire, stalled, blind>>

(* The socket is open, or could not be; the connect dumps a few strips. *)
Connected(j) ==
    /\ jobs[j].at = "connecting" /\ Goes(j, "warming")
    /\ \/ /\ open' = open \cup {client}
          /\ asked' = [asked EXCEPT !["dump"] = client]
          /\ owed' = IF hosts[client] \in away THEN owed ELSE owed \cup {<<client, "strip">>}
       \/ UNCHANGED <<open, asked, owed>>
    /\ UNCHANGED <<stored, config, client, hosts, timers, timer, handles, handle, failing, cache,
                   console, wire, stalled, blind>>

(* The console starts to push when it gets a subscription, and a new one  *)
(* may begin with a push of every value.                                  *)
Orders == {order \in [1 .. Cardinality(Params) -> Params] : \A p \in Params : \E i \in DOMAIN order : order[i] = p}
Push(g, p) == Message(g, p, hosts[g], Now(hosts[g], {p}))

Feed(g) ==
    IF Reachable(g)
    THEN /\ fed' = g
         /\ \/ wire' = wire
            \/ fed # g /\ \E order \in Orders : wire' = wire \o [i \in DOMAIN order |-> Push(g, order[i])]
    ELSE UNCHANGED <<fed, wire>>

(* The dumps are answered or the time for them is up: subscribe, and start *)
(* the heartbeat.                                                          *)
Subscribe(j) ==
    /\ jobs[j].at = "warming" /\ Goes(j, "done")
    /\ handles' = handles \cup {client} /\ handle' = client
    /\ timers' = timers \cup {client} /\ timer' = client
    /\ Feed(client)
    /\ UNCHANGED <<stored, config, client, hosts, open, failing, cache, asked, desk, away,
                   spent, owed, stalled, blind>>

-----------------------------------------------------------------------------
(* Requests.  ctx.client is always the client of the moment. *)

Send(r, g) ==
    /\ asked' = [asked EXCEPT ![r] = g]
    /\ owed' = IF Reachable(g) THEN owed \cup {<<g, Address(r)>>} ELSE owed

(* readEffectiveNameEntry() on a name that is not cached, too old, or to  *)
(* be read anew; recallScene().                                           *)
Ask(r) ==
    /\ r \in {"name", "recall"} /\ asked[r] = 0
    /\ client \in open
    /\ r = "recall" => Len(jobs) + spent < MaxEvents
    /\ <<client, Address(r)>> \notin owed
    /\ Send(r, client)
    /\ UNCHANGED <<chain, clients, failing, cache, console, wire, stalled, blind>>

(* The heartbeat's interval, bound to the client it was made for: a query *)
(* the console answers, or does not; its answer changes nothing else.     *)
Beat(g) ==
    /\ g \in timers
    /\ OnHeartbeat(FALSE) \/ (Reachable(g) /\ wire = <<>> /\ OnHeartbeat(TRUE))
    /\ UNCHANGED <<chain, clients, asked, console, owed, wire, stalled>>

(* A request fails when its time is up; an answer may still come. *)
TimeOut(r) ==
    /\ asked[r] # 0
    /\ asked' = [asked EXCEPT ![r] = 0]
    /\ UNCHANGED <<chain, clients, failing, cache, console, owed, wire, stalled, blind>>

(* What a settled request does: a read name and the parameters of a dump *)
(* are cached; after a recall the cache is dropped.                      *)
Continue(r, m) ==
    /\ IF r = "recall" THEN ClearCache ELSE ApplyChange(m)
    /\ UNCHANGED failing

(* handleMessage(): the first message with its address settles a request, *)
(* any other is a change, if somebody subscribed.                         *)
HandleMessage ==
    /\ wire # <<>> /\ wire' = Tail(wire)
    /\ LET m == Head(wire)
           takers == {r \in Readers : asked[r] = m.to /\ Address(r) = m.path}
       IN IF takers # {}
          THEN \E r \in takers : asked' = [asked EXCEPT ![r] = 0] /\ Continue(r, m)
          ELSE /\ IF m.to \in handles THEN OnParamChange(m)
                  ELSE KeepCache /\ UNCHANGED failing
               /\ UNCHANGED asked
    /\ UNCHANGED <<chain, clients, console, owed, stalled>>

(* Mutant: the renewal comes late and nobody is told. *)
RenewSilently(g) ==
    /\ g \in handles
    /\ cache' = cache /\ blind' = IF stalled THEN Belated ELSE blind
    /\ stalled' = FALSE
    /\ Len(wire) < MaxMessages /\ Feed(g)
    /\ UNCHANGED <<chain, clients, failing, asked, desk, away, spent, owed>>

(* The renewal interval: one that comes too late tells of the gap first. *)
Renew(g) ==
    /\ g \in handles
    /\ IF stalled THEN ClearCache ELSE KeepCache
    /\ stalled' = FALSE
    /\ Len(wire) < MaxMessages /\ Feed(g)
    /\ UNCHANGED <<chain, clients, failing, asked, desk, away, spent, owed>>

-----------------------------------------------------------------------------
(* The consoles. *)

Spend == Len(jobs) + spent < MaxEvents /\ spent' = spent + 1

Hears(h) == fed # 0 /\ hosts[fed] = h /\ h \notin away

(* Cached parameters of the console, and those an answer is bringing. *)
Held(h) ==
    {p \in Params : \/ cache[p] # None /\ cache[p][1] = h
                    \/ \E i \in DOMAIN wire : wire[i].host = h}

(* Somebody moves a control at the console. *)
Change(h, p) ==
    /\ Spend /\ Len(wire) < MaxMessages
    /\ desk' = [desk EXCEPT ![h][p] = @ + 1]
    /\ wire' = IF Hears(h) THEN Append(wire, Message(fed, p, h, [x \in {p} |-> desk[h][p] + 1])) ELSE wire
    /\ blind' = IF Hears(h) THEN blind ELSE blind \cup ({p} \cap Held(h))
    /\ UNCHANGED <<chain, clients, failing, cache, asked, away, fed, owed, stalled>>

SceneLoaded(h) == Message(fed, "scene", h, Now(h, {}))

Rewritten(h) == [desk EXCEPT ![h] = [p \in Params |-> @[p] + 1]]

(* A scene is loaded at the surface: most parameters change, and only the *)
(* push of the scene itself is counted on.                                *)
LoadScene(h) ==
    /\ Spend /\ Len(wire) < MaxMessages
    /\ desk' = Rewritten(h)
    /\ wire' = IF Hears(h) THEN Append(wire, SceneLoaded(h)) ELSE wire
    /\ blind' = IF Hears(h) THEN blind ELSE blind \cup Held(h)
    /\ UNCHANGED <<chain, clients, failing, cache, asked, away, fed, owed, stalled>>

(* The console answers a request with the values it has by then; a recall *)
(* it carries out first.                                                  *)
Answer(g, path) ==
    /\ <<g, path>> \in owed /\ Len(wire) < MaxMessages
    /\ owed' = owed \ {<<g, path>>}
    /\ LET h == hosts[g]
           read == [name |-> {"name"}, strip |-> Params \ {"name"}, ack |-> {}]
           reply == Message(g, path, h, Now(h, read[path]))
       IN IF path = "ack"
          THEN /\ Spend /\ desk' = Rewritten(h)
               /\ wire' = (IF Hears(h) THEN Append(wire, SceneLoaded(h)) ELSE wire)
                            \o <<reply>>
               /\ blind' = IF Hears(h) THEN blind ELSE blind \cup Held(h)
          ELSE wire' = Append(wire, reply) /\ UNCHANGED <<desk, spent, blind>>
    /\ UNCHANGED <<chain, clients, failing, cache, asked, away, fed, stalled>>

ToHost(g, h) == g # 0 /\ hosts[g] = h

(* The console is switched off or unplugged; it may forget who subscribed. *)
GoAway(h) ==
    /\ Spend /\ h \notin away
    /\ away' = away \cup {h}
    /\ wire' = IF ToHost(client, h) THEN << >> ELSE wire
    /\ owed' = {q \in owed : ~ToHost(q[1], h)}
    /\ blind' = IF ToHost(client, h) /\ (wire' # wire \/ owed' # owed) THEN blind \cup Held(h) ELSE blind
    /\ fed' \in IF ToHost(fed, h) THEN {0, fed} ELSE {fed}
    /\ UNCHANGED <<chain, clients, failing, cache, asked, desk, stalled>>

(* OutagesAreNoticed: an outage lasts longer than it takes a heartbeat to *)
(* fail.                                                                  *)
ComeBack(h) ==
    /\ h \in away /\ (timers # {} => failing)
    /\ away' = away \ {h}
    /\ UNCHANGED <<chain, clients, failing, cache, asked, desk, fed, spent, owed, wire,
                   stalled, blind>>

(* The server is busy for longer than a subscription lives. *)
Stall ==
    /\ Spend /\ fed # 0 /\ ~stalled
    /\ stalled' = TRUE /\ fed' = 0
    /\ UNCHANGED <<chain, clients, failing, cache, asked, desk, away, owed, wire, blind>>

-----------------------------------------------------------------------------
Step(j) == Begin(j) \/ Saved(j) \/ SaveFails(j) \/ Bridged(j) \/ Closed(j) \/ Connected(j) \/ Subscribe(j)

Next ==
    \/ Stop
    \/ \E h \in Hosts \cup {NoHost} : Start(h) \/ SetConfig(h)
    \/ \E p \in Patches : UpdateConfig(p)
    \/ \E j \in DOMAIN jobs : Step(j)
    \/ \E r \in Readers : Ask(r) \/ TimeOut(r)
    \/ \E g \in DOMAIN hosts : Beat(g) \/ Renew(g) \/ \E r \in Readers : Answer(g, Address(r))
    \/ HandleMessage \/ Stall
    \/ \E h \in Hosts : LoadScene(h) \/ GoAway(h) \/ ComeBack(h) \/ \E p \in Params : Change(h, p)

Spec == Init /\ [][Next]_vars

-----------------------------------------------------------------------------
Messages ==
    [to : DOMAIN hosts, path : Params \cup {"strip", "scene", "ack"}, host : Hosts,
     values : UNION {[ps -> Nat] : ps \in SUBSET Params}]

TypeOK ==
    /\ jobs \in Seq(Job) /\ Len(jobs) <= MaxJobs
    /\ stored \in Configs \cup {None} /\ config \in Configs \cup {None}
    /\ hosts \in Seq(Hosts) /\ client \in 0..Len(hosts)
    /\ open \subseteq DOMAIN hosts /\ timers \subseteq DOMAIN hosts /\ handles \subseteq DOMAIN hosts
    /\ timer \in 0..Len(hosts) /\ handle \in 0..Len(hosts) /\ fed \in 0..Len(hosts)
    /\ failing \in BOOLEAN /\ stalled \in BOOLEAN
    /\ cache \in [Params -> (Hosts \X Nat) \cup {None}]
    /\ blind \subseteq Params
    /\ asked \in [Readers -> 0..Len(hosts)]
    /\ desk \in [Hosts -> [Params -> Nat]] /\ away \subseteq Hosts /\ spent \in Nat
    /\ wire \in Seq(Messages) /\ owed \subseteq (DOMAIN hosts) \X {"name", "strip", "ack"}

(* A cached value is the console's, of the console now connected, unless a *)
(* message that will correct it is on its way or the change fell into a    *)
(* blind moment nothing has told of yet: changed consoles, loaded scenes,  *)
(* late renewals and outages all end in a dropped cache.                   *)
OnItsWay(p) ==
    \/ \E i \in DOMAIN wire : wire[i].path \in {p, "scene", "ack"}
    \/ \E q \in owed : q[2] \in {p, "scene", "ack"}

CacheIsCurrent ==
    Running => \A p \in Params : cache[p] = None \/ p \in blind \/ OnItsWay(p)
        \/ (client # 0 /\ cache[p] = Value(hosts[client], p))

(* No heartbeat, subscription or socket of a replaced client stays behind, *)
(* and with the chain idle the client is connected to the console that is  *)
(* configured.                                                             *)
Idle == \A j \in DOMAIN jobs : Settled(j)

NothingLeaks ==
    /\ timers \subseteq {timer} /\ handles \subseteq {handle} /\ open \subseteq {client}
    /\ {timer, handle} \subseteq {0, client}

ClientsFollowConfig ==
    /\ NothingLeaks
    /\ Idle /\ Running /\ config # None =>
         IF config.host = NoHost THEN client = 0
         ELSE client # 0 /\ hosts[client] = config.host /\ timers = {client} /\ handles = {client}

(* A statement of the source that does not hold, checked by no run: see   *)
(* the README.                                                             *)

(* "Merges `patch` into the plugin config": what a tool has switched on   *)
(* stays on when another tool switches on something else.                 *)
PatchesAddUp ==
    \A j \in DOMAIN jobs : jobs[j].patch # None /\ jobs[j].at = "done" => jobs[j].patch \in config.on
=============================================================================
