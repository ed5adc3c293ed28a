------------------------- MODULE WingPlugin_proofs -------------------------
(***************************************************************************)
(* Proofs about the plugin (WingPlugin): with the chain of start(),        *)
(* setConfig() and stop() idle, the client serves the configuration in     *)
(* force and nothing of an earlier one is left; what the cache shows is    *)
(* the console's, for any number of hosts, parameters, changes, outages    *)
(* and calls.                                                              *)
(***************************************************************************)
EXTENDS WingPlugin, SequenceTheorems, FiniteSetTheorems, TLAPS

(* Nobody is served, or one client serves with all it has. *)
Gone == client = 0 /\ timer = 0 /\ handle = 0 /\ timers = {} /\ handles = {} /\ open = {}
Serves(c) ==
    IF c = None \/ c.host = NoHost THEN Gone
    ELSE /\ client # 0 /\ hosts[client] = c.host /\ timer = client /\ handle = client
         /\ timers = {client} /\ handles = {client} /\ open \subseteq {client}

(* The chain: one job is under way at a time, stop() is the last, and each *)
(* job is where its kind and the clients allow.                            *)
OneAtATime == \A i, j \in DOMAIN jobs : i < j /\ jobs[j].at # "queued" => Settled(i)
StopIsLast == \A j \in DOMAIN jobs : jobs[j].kind = "stop" => j = Len(jobs)
JobInv(j) ==
    LET at == jobs[j].at IN
    /\ jobs[j].kind = "start" => j = 1 /\ jobs[j].prev = None /\ at # "closing" /\ (at \in {"queued", "saving"} => config = None)
    /\ jobs[j].kind = "set" /\ at = "saving" => jobs[j].prev = config
    /\ jobs[j].kind = "stop" => at \in {"queued", "closing", "done"} /\ (at = "done" => Gone)
    /\ at = "bridging" => config = jobs[j].conf /\ Serves(jobs[j].prev)
    /\ at = "closing" => Gone /\ (jobs[j].kind = "set" => config # None)
    /\ at \in {"connecting", "warming"} =>
         /\ config # None /\ config.host # NoHost /\ client # 0 /\ hosts[client] = config.host
         /\ timer = 0 /\ handle = 0 /\ timers = {} /\ handles = {}
         /\ open \subseteq (IF at = "warming" THEN {client} ELSE {})
AtRest(j) == jobs[j].at \in {"queued", "saving", "done", "failed"} /\ (jobs[j].kind = "stop" => jobs[j].at = "queued")
ChainInv ==
    /\ OneAtATime /\ StopIsLast /\ \A j \in DOMAIN jobs : JobInv(j)
    /\ jobs = << >> => config = None
    /\ (\A j \in DOMAIN jobs : AtRest(j)) => Serves(config)

(* Who is asked, fed, owed an answer or on the way concerns the client of  *)
(* the moment alone: disconnectClients() lets the others go.               *)
OfClient(m) ==
    /\ m.to = client /\ m.host = hosts[client]
    /\ m.path \in Params => DOMAIN m.values = {m.path}
    /\ m.path = "strip" => DOMAIN m.values = Params \ {"name"}
    /\ m.path \in {"scene", "ack"} => DOMAIN m.values = {}
LinkInv ==
    /\ fed \in {0, client} /\ (fed # 0 => client \in handles)
    /\ \A r \in Readers : asked[r] \in {0, client}
    /\ \A q \in owed : q[1] = client
    /\ \A i \in DOMAIN wire : OfClient(wire[i])

(* A console's values only get newer, and arrive in the order they had.    *)
InOrder ==
    /\ \A i \in DOMAIN wire : \A p \in DOMAIN wire[i].values : wire[i].values[p] <= desk[wire[i].host][p]
    /\ \A i, k \in DOMAIN wire : i < k => \A p \in DOMAIN wire[i].values \cap DOMAIN wire[k].values : wire[i].values[p] <= wire[k].values[p]

(* A value shown, or on the way at place i, is the console's, or noted as  *)
(* missed, or a later message the client listens to will replace it.       *)
Desk(p) == desk[hosts[client]][p]
Right(p, v, i) ==
    \/ v = Desk(p) \/ p \in blind
    \/ client \in handles /\ \E k \in DOMAIN wire : k > i /\ wire[k].path \in {p, "scene"}
ShownInv ==
    /\ client = 0 => cache = Empty
    /\ \A p \in Params : cache[p] # None => cache[p][1] = hosts[client] /\ Right(p, cache[p][2], 0)
    /\ \A i \in DOMAIN wire : \A p \in DOMAIN wire[i].values : Right(p, wire[i].values[p], i)
NotStopped == \A j \in DOMAIN jobs : jobs[j].kind # "stop"

(* What a stopped plugin still has cached nobody reads. *)
PluginInv == TypeOK /\ ChainInv /\ LinkInv /\ InOrder /\ (NotStopped => ShownInv)

-----------------------------------------------------------------------------
(* The chain of configuration changes.                                      *)

LEMMA JobHas ==
    ASSUME TypeOK, NEW j \in DOMAIN jobs
    PROVE  /\ DOMAIN jobs = 1 .. Len(jobs) /\ Len(jobs) \in Nat /\ j \in 1 .. Len(jobs) /\ jobs[j] \in Job
           /\ jobs[j].kind \in {"start", "set", "stop"} /\ jobs[j].conf \in Configs /\ jobs[j].prev \in Configs \cup {None}
           /\ jobs[j].patch \in Patches \cup {None}
           /\ jobs[j].at \in {"queued", "saving", "bridging", "closing", "connecting", "warming", "done", "failed"}
<1>1. jobs \in Seq(Job) /\ jobs[j] \in Job
  BY DEF TypeOK
<1>2. QED
  BY <1>1 DEF Job

\* Only one job of the chain moves, and it only gets further.
Moves(j) ==
    /\ jobs' \in Seq(Job) /\ Len(jobs') = Len(jobs) /\ \A i \in DOMAIN jobs : i # j => jobs'[i] = jobs[i]
    /\ jobs'[j].kind = jobs[j].kind /\ jobs'[j].conf = jobs[j].conf /\ jobs'[j].at # "queued"

LEMMA GoesMoves ==
    ASSUME TypeOK, NEW j \in DOMAIN jobs, NEW at \in {"saving", "bridging", "closing", "connecting", "warming", "done", "failed"}, Goes(j, at)
    PROVE  Moves(j) /\ jobs'[j].at = at /\ jobs'[j].prev = jobs[j].prev
<1>1. PICK job : job = [jobs[j] EXCEPT !.at = at]
  OBVIOUS
<1>2. /\ job \in Job /\ job.at = at /\ job.kind = jobs[j].kind /\ job.conf = jobs[j].conf /\ job.prev = jobs[j].prev
  BY <1>1, JobHas DEF Job
<1>3. jobs' = [jobs EXCEPT ![j] = job]
  BY <1>1 DEF Goes
<1>4. jobs \in Seq(Job)
  BY DEF TypeOK
<1>5. jobs' \in Seq(Job) /\ Len(jobs') = Len(jobs) /\ jobs'[j] = job /\ \A i \in DOMAIN jobs : i # j => jobs'[i] = jobs[i]
  BY <1>2, <1>3, <1>4
<1>6. QED
  BY <1>2, <1>5 DEF Moves

\* While one job is under way, or may begin, those before it are over and those after it wait.
LEMMA Alone ==
    ASSUME TypeOK, ChainInv, NEW j \in DOMAIN jobs, ~Settled(j), jobs[j].at # "queued" \/ MayRun(j), NEW i \in DOMAIN jobs, i # j
    PROVE  /\ i < j => Settled(i) /\ jobs[i].kind # "stop"
           /\ i > j => jobs[i].at = "queued" /\ jobs[i].kind # "start"
<1>1. i \in 1 .. Len(jobs) /\ j \in 1 .. Len(jobs) /\ Len(jobs) \in Nat
  BY JobHas
<1>2. i < j => Settled(i)
  BY <1>1 DEF ChainInv, OneAtATime, MayRun
<1>3. i < j => jobs[i].kind # "stop"
  BY <1>1 DEF ChainInv, StopIsLast
<1>4. i > j => jobs[i].at = "queued"
  BY <1>1 DEF ChainInv, OneAtATime
<1>5. i > j => jobs[i].kind # "start"
  BY <1>1 DEF ChainInv, JobInv
<1>6. QED
  BY <1>2, <1>3, <1>4, <1>5

\* A step of a job keeps the chain in order if it does its own part.
LEMMA ChainMoves ==
    ASSUME TypeOK, ChainInv, NEW j \in DOMAIN jobs, ~Settled(j), jobs[j].at # "queued" \/ MayRun(j), Moves(j),
           JobInv(j)', AtRest(j)' => Serves(config)'
    PROVE  ChainInv'
<1>1. jobs \in Seq(Job) /\ jobs' \in Seq(Job) /\ DOMAIN jobs' = DOMAIN jobs /\ DOMAIN jobs = 1 .. Len(jobs) /\ Len(jobs') = Len(jobs)
      /\ Len(jobs) \in Nat /\ j \in 1 .. Len(jobs)
  BY JobHas DEF Moves, TypeOK
<1>2. \A i \in DOMAIN jobs : i # j => jobs'[i] = jobs[i]
  BY DEF Moves
<1>3. \A i \in DOMAIN jobs : i < j => Settled(i) /\ jobs[i].kind # "stop"
  BY <1>1, Alone
<1>4. \A i \in DOMAIN jobs : i > j => jobs[i].at = "queued" /\ jobs[i].kind # "start"
  BY <1>1, Alone
<1>5. OneAtATime'
  BY <1>1, <1>2, <1>3, <1>4 DEF OneAtATime, Settled, Moves
<1>6. StopIsLast'
  <2>1. \A i \in DOMAIN jobs : jobs'[i].kind = jobs[i].kind
    BY <1>2 DEF Moves
  <2>2. QED
    BY <1>1, <2>1 DEF StopIsLast, ChainInv
<1>7. ASSUME NEW i \in DOMAIN jobs, i # j PROVE JobInv(i)' /\ AtRest(i)'
  <2>1. JobInv(i) /\ jobs'[i] = jobs[i] /\ jobs[i].at \in {"queued", "done", "failed"} /\ (jobs[i].kind = "stop" => jobs[i].at = "queued")
        /\ (jobs[i].kind = "start" => jobs[i].at # "queued")
    BY <1>1, <1>2, <1>3, <1>4, <1>7 DEF ChainInv, Settled
  <2>2. QED
    BY <2>1 DEF JobInv, AtRest
<1>8. jobs' # << >>
  BY <1>1
<1>9. QED
  BY <1>1, <1>5, <1>6, <1>7, <1>8 DEF ChainInv

LEMMA EnqueueChain ==
    ASSUME TypeOK, ChainInv, NEW kind \in {"start", "set", "stop"}, NEW conf \in Configs, NEW patch \in Patches \cup {None},
           kind = "start" => jobs = << >>, kind # "start" => jobs # << >>, NotStopped, Enqueue(kind, conf, patch)
    PROVE  TypeOK' /\ ChainInv'
<1> DEFINE job == [kind |-> kind, conf |-> conf, patch |-> patch, prev |-> None, at |-> "queued"]
<1>1. job \in Job /\ job.kind = kind /\ job.at = "queued" /\ job.prev = None
  BY DEF Job
<1>2. jobs' = Append(jobs, job) /\ Len(jobs) < MaxJobs /\ jobs \in Seq(Job)
  BY DEF Enqueue, TypeOK
<1> HIDE DEF job
<1>3. /\ jobs' \in Seq(Job) /\ Len(jobs') = Len(jobs) + 1 /\ Len(jobs) \in Nat /\ DOMAIN jobs' = 1 .. Len(jobs) + 1 /\ DOMAIN jobs = 1 .. Len(jobs)
      /\ jobs'[Len(jobs) + 1] = job /\ \A i \in 1 .. Len(jobs) : jobs'[i] = jobs[i]
  BY <1>1, <1>2
<1>4. TypeOK'
  <2>1. UNCHANGED <<stored, config, client, hosts, open, timers, timer, handles, handle, failing, cache, asked>>
        /\ UNCHANGED <<desk, away, fed, spent, owed, wire, stalled, blind>>
    BY DEF Enqueue, clients, console
  <2>2. Messages' = Messages
    BY <2>1 DEF Messages
  <2>3. jobs' \in Seq(Job) /\ Len(jobs') <= MaxJobs
    BY <1>2, <1>3, PluginAssumption
  <2>4. QED
    BY <2>1, <2>2, <2>3 DEF TypeOK
<1>5. \A i \in DOMAIN jobs' : i \in DOMAIN jobs \/ i = Len(jobs) + 1
  BY <1>3
<1>6. \A i \in DOMAIN jobs : i \in DOMAIN jobs' /\ jobs'[i] = jobs[i]
  BY <1>3
<1>7. OneAtATime'
  <2>1. OneAtATime
    BY DEF ChainInv
  <2>2. ASSUME NEW i \in DOMAIN jobs', NEW k \in DOMAIN jobs', i < k, jobs'[k].at # "queued" PROVE Settled(i)'
    <3>1. k \in 1 .. Len(jobs) /\ i \in 1 .. Len(jobs)
      BY <1>1, <1>3, <2>2
    <3>2. QED
      BY <1>3, <2>1, <2>2, <3>1 DEF OneAtATime, Settled
  <2>3. QED
    BY <2>2 DEF OneAtATime
<1>8. StopIsLast'
  BY <1>3, <1>5 DEF NotStopped, StopIsLast
<1>9. ASSUME NEW i \in DOMAIN jobs' PROVE JobInv(i)'
  <2>1. CASE i \in DOMAIN jobs
    <3>1. JobInv(i) /\ jobs'[i] = jobs[i]
      BY <1>3, <2>1 DEF ChainInv
    <3>2. QED
      BY <3>1 DEF JobInv, Enqueue, clients, Serves, Gone
  <2>2. CASE i = Len(jobs) + 1
    <3>1. kind = "start" => i = 1 /\ config = None
      BY <1>3, <2>2 DEF ChainInv
    <3>2. jobs'[i].kind = kind /\ jobs'[i].at = "queued" /\ jobs'[i].prev = None /\ config' = config
      BY <1>1, <1>3, <2>2 DEF Enqueue
    <3>3. QED
      BY <3>1, <3>2 DEF JobInv
  <2>3. QED
    BY <1>5, <2>1, <2>2
<1>10. jobs' # << >>
  BY <1>3
<1>11. (\A i \in DOMAIN jobs' : AtRest(i)') => Serves(config)'
  <2>1. \A i \in DOMAIN jobs : AtRest(i)' => AtRest(i)
    BY <1>6 DEF AtRest
  <2>2. Serves(config) => Serves(config)'
    BY DEF Enqueue, clients, Serves, Gone
  <2>3. QED
    BY <1>6, <2>1, <2>2 DEF ChainInv
<1>12. QED
  BY <1>4, <1>7, <1>8, <1>9, <1>10, <1>11 DEF ChainInv

\* Whatever served a configuration is gone after disconnectClients().
LEMMA DisconnectGone ==
    ASSUME TypeOK, NEW c, Serves(c), Disconnect
    PROVE  Gone'
BY DEF Serves, Gone, Disconnect

LEMMA DisconnectTypes ==
    ASSUME TypeOK, Disconnect
    PROVE  /\ hosts' = hosts /\ client' = 0 /\ open' \subseteq DOMAIN hosts /\ timers' \subseteq DOMAIN hosts /\ handles' \subseteq DOMAIN hosts
           /\ timer' = 0 /\ handle' = 0 /\ fed' \in 0 .. Len(hosts) /\ failing' \in BOOLEAN /\ asked' \in [Readers -> 0 .. Len(hosts)]
           /\ wire' \in Seq(Messages') /\ owed' \subseteq (DOMAIN hosts) \X {"name", "strip", "ack"}
<1>1. hosts \in Seq(Hosts) /\ 0 \in 0 .. Len(hosts) /\ failing \in BOOLEAN
  BY DEF TypeOK
<1>2. failing' \in BOOLEAN
  BY <1>1 DEF Disconnect
<1>3. asked' \in [Readers -> 0 .. Len(hosts)]
  BY <1>1 DEF Disconnect, TypeOK
<1>4. wire' \in Seq(Messages')
  BY DEF Disconnect
<1>5. QED
  BY <1>1, <1>2, <1>3, <1>4 DEF Disconnect, TypeOK

\* connectClients() makes a client of the configured console, or none.
LEMMA ConnectMakes ==
    ASSUME TypeOK, NEW j \in DOMAIN jobs, Gone, config # None, Connect(j)
    PROVE  /\ Moves(j) /\ jobs'[j].prev = jobs[j].prev
           /\ \/ config.host = NoHost /\ jobs'[j].at = "done" /\ client' = 0 /\ hosts' = hosts
              \/ /\ config.host # NoHost /\ jobs'[j].at = "connecting" /\ client' = Len(hosts) + 1 /\ hosts' = Append(hosts, config.host)
                 /\ hosts' \in Seq(Hosts) /\ Len(hosts') = Len(hosts) + 1 /\ Len(hosts) \in Nat /\ hosts'[client'] = config.host
<1>1. config \in Configs /\ hosts \in Seq(Hosts)
  BY DEF TypeOK
<1>2. config.host \in Hosts \cup {NoHost}
  BY <1>1 DEF Configs
<1>3. CASE config.host = NoHost
  BY <1>3, GoesMoves DEF Connect
<1>4. CASE config.host # NoHost
  <2>1. Goes(j, "connecting") /\ client' = Len(hosts) + 1 /\ hosts' = Append(hosts, config.host)
    BY <1>4 DEF Connect
  <2>2. hosts' \in Seq(Hosts) /\ Len(hosts') = Len(hosts) + 1 /\ Len(hosts) \in Nat /\ hosts'[client'] = config.host
    BY <1>1, <1>2, <1>4, <2>1
  <2>3. QED
    BY <1>4, <2>1, <2>2, GoesMoves
<1>5. QED
  BY <1>3, <1>4

LEMMA SeqGrows ==
    ASSUME NEW S, NEW T, S \subseteq T, NEW q \in Seq(S)
    PROVE  q \in Seq(T)
<1>1. Len(q) \in Nat /\ \A i \in 1 .. Len(q) : q[i] \in T
  OBVIOUS
<1>2. q = [i \in 1 .. Len(q) |-> q[i]]
  OBVIOUS
<1>3. QED
  BY <1>1, <1>2

\* Before a job changes the configuration, and while it is being saved, the clients are those of the one in force.
LEMMA RestBefore ==
    ASSUME TypeOK, ChainInv, NEW j \in DOMAIN jobs, jobs[j].at = "saving" \/ (jobs[j].at = "queued" /\ MayRun(j))
    PROVE  Serves(config)
<1>1. ~Settled(j) /\ (jobs[j].at # "queued" \/ MayRun(j))
  BY DEF Settled
<1>2. AtRest(j)
  BY DEF ChainInv, JobInv, AtRest
<1>3. ASSUME NEW i \in DOMAIN jobs, i # j PROVE AtRest(i)
  <2>1. i < j \/ i > j
    BY <1>3, JobHas
  <2>2. (i < j => Settled(i) /\ jobs[i].kind # "stop") /\ (i > j => jobs[i].at = "queued")
    BY <1>1, <1>3, Alone
  <2>3. QED
    BY <2>1, <2>2 DEF AtRest, Settled
<1>4. QED
  BY <1>2, <1>3 DEF ChainInv

LEMMA BeginChain ==
    ASSUME TypeOK, ChainInv, NEW j \in DOMAIN jobs, Begin(j)
    PROVE  TypeOK' /\ ChainInv'
<1>1. jobs[j].at = "queued" /\ MayRun(j) /\ ~Settled(j) /\ JobInv(j) /\ Serves(config)
  BY RestBefore DEF Begin, Settled, ChainInv
<1>2. jobs[j].conf \in Configs /\ Len(jobs) <= MaxJobs
  BY JobHas DEF TypeOK
<1>3. CASE jobs[j].kind = "start" /\ Goes(j, "saving") /\ stored' = jobs[j].conf
           /\ UNCHANGED <<config, clients, failing, cache, asked, console, owed, wire, stalled, blind>>
  <2>1. Moves(j) /\ jobs'[j].at = "saving" /\ jobs'[j].prev = jobs[j].prev
    BY <1>3, GoesMoves
  <2>2. TypeOK'
    BY <1>2, <1>3, <2>1 DEF Moves, TypeOK, Messages, clients, console
  <2>3. JobInv(j)'
    BY <1>1, <1>3, <2>1 DEF JobInv, Moves
  <2>4. Serves(config)'
    BY <1>1, <1>3 DEF Serves, Gone, clients
  <2>5. QED
    BY <1>1, <2>1, <2>2, <2>3, <2>4, ChainMoves
<1>4. CASE /\ jobs[j].kind = "set" /\ jobs' = [jobs EXCEPT ![j].at = "saving", ![j].prev = config] /\ stored' = jobs[j].conf
           /\ UNCHANGED <<config, clients, failing, cache, asked, console, owed, wire, stalled, blind>>
  <2>1. PICK job : job = [jobs[j] EXCEPT !.at = "saving", !.prev = config]
    OBVIOUS
  <2>2. /\ job \in Job /\ job.at = "saving" /\ job.prev = config /\ job.kind = jobs[j].kind /\ job.conf = jobs[j].conf
    BY <2>1, JobHas DEF Job, TypeOK
  <2>3. jobs' = [jobs EXCEPT ![j] = job] /\ jobs \in Seq(Job)
    BY <1>4, <2>1 DEF TypeOK
  <2>4. jobs' \in Seq(Job) /\ Len(jobs') = Len(jobs) /\ jobs'[j] = job /\ \A i \in DOMAIN jobs : i # j => jobs'[i] = jobs[i]
    BY <2>2, <2>3
  <2>5. Moves(j) /\ jobs'[j].at = "saving" /\ jobs'[j].prev = config
    BY <2>2, <2>4 DEF Moves
  <2>6. TypeOK'
    BY <1>2, <1>4, <2>4 DEF TypeOK, Messages, clients, console
  <2>7. JobInv(j)'
    BY <1>1, <1>4, <2>5 DEF JobInv, Moves
  <2>8. Serves(config)'
    BY <1>1, <1>4 DEF Serves, Gone, clients
  <2>9. QED
    BY <1>1, <2>5, <2>6, <2>7, <2>8, ChainMoves
<1>5. CASE jobs[j].kind = "stop" /\ Goes(j, "closing") /\ Disconnect /\ UNCHANGED <<stored, config, cache, blind>>
  <2>1. Moves(j) /\ jobs'[j].at = "closing" /\ jobs'[j].prev = jobs[j].prev
    BY <1>5, GoesMoves
  <2>2. Gone'
    BY <1>1, <1>5, DisconnectGone
  <2>3. TypeOK'
    BY <1>2, <1>5, <2>1, DisconnectTypes DEF Moves, TypeOK, Disconnect
  <2>4. JobInv(j)' /\ ~AtRest(j)'
    BY <1>1, <1>5, <2>1, <2>2 DEF JobInv, AtRest, Moves
  <2>5. QED
    BY <1>1, <2>1, <2>3, <2>4, ChainMoves
<1>6. QED
  BY <1>3, <1>4, <1>5 DEF Begin

LEMMA SavedChain ==
    ASSUME TypeOK, ChainInv, NEW j \in DOMAIN jobs, Saved(j) \/ SaveFails(j)
    PROVE  TypeOK' /\ ChainInv'
<1>1. /\ jobs[j].at = "saving" /\ JobInv(j) /\ Serves(config) /\ ~Settled(j) /\ jobs[j].conf \in Configs /\ Len(jobs) <= MaxJobs
      /\ UNCHANGED <<stored, clients, failing, cache, asked, console, owed, wire, stalled, blind>>
  BY RestBefore, JobHas DEF Saved, SaveFails, Settled, ChainInv, TypeOK
<1>2. CASE config' = jobs[j].conf /\ Goes(j, "bridging")
  <2>1. Moves(j) /\ jobs'[j].at = "bridging" /\ jobs'[j].prev = jobs[j].prev
    BY <1>2, GoesMoves
  <2>2. TypeOK'
    BY <1>1, <1>2, <2>1 DEF Moves, TypeOK, Messages, clients, console
  <2>3. jobs[j].prev = config
    BY <1>1, JobHas DEF JobInv
  <2>4. Serves(jobs[j].prev)'
    <3>1. jobs'[j].prev = config
      BY <2>1, <2>3
    <3>2. QED
      BY <1>1, <3>1 DEF Serves, Gone, clients
  <2>5. jobs'[j].conf = jobs[j].conf /\ jobs'[j].kind = jobs[j].kind /\ jobs[j].kind # "stop"
    BY <1>1, <2>1 DEF Moves, JobInv
  <2>6. jobs[j].kind = "start" => j = 1 /\ jobs[j].prev = None
    BY <1>1 DEF JobInv
  <2>7. JobInv(j)' /\ ~AtRest(j)'
    BY <1>2, <2>1, <2>4, <2>5, <2>6 DEF JobInv, AtRest
  <2>8. QED
    BY <1>1, <2>1, <2>2, <2>7, ChainMoves
<1>3. CASE jobs[j].kind # "start" /\ Goes(j, "failed") /\ config' = config
  <2>1. Moves(j) /\ jobs'[j].at = "failed" /\ jobs'[j].prev = jobs[j].prev
    BY <1>3, GoesMoves
  <2>2. TypeOK'
    BY <1>1, <1>3, <2>1 DEF Moves, TypeOK, Messages, clients, console
  <2>3. JobInv(j)' /\ Serves(config)'
    BY <1>1, <1>3, <2>1 DEF JobInv, Moves, Serves, Gone, clients
  <2>4. QED
    BY <1>1, <2>1, <2>2, <2>3, ChainMoves
<1>4. QED
  BY <1>2, <1>3 DEF Saved, SaveFails

-----------------------------------------------------------------------------
(* Messages and the cache.                                                  *)

LEMMA MessageHas ==
    ASSUME TypeOK, NEW i \in DOMAIN wire
    PROVE  /\ DOMAIN wire = 1 .. Len(wire) /\ Len(wire) \in Nat /\ i \in 1 .. Len(wire) /\ wire[i] \in Messages
           /\ wire[i].to \in DOMAIN hosts /\ wire[i].host \in Hosts /\ wire[i].path \in Params \cup {"strip", "scene", "ack"}
           /\ DOMAIN wire[i].values \subseteq Params /\ \A p \in DOMAIN wire[i].values : wire[i].values[p] \in Nat
<1>1. wire \in Seq(Messages) /\ wire[i] \in Messages
  BY DEF TypeOK
<1>2. PICK ps \in SUBSET Params : wire[i].values \in [ps -> Nat]
  BY <1>1 DEF Messages
<1>3. QED
  BY <1>1, <1>2 DEF Messages

LEMMA MessageIs ==
    ASSUME NEW g \in DOMAIN hosts, NEW path \in Params \cup {"strip", "scene", "ack"}, NEW h \in Hosts,
           NEW ps \in SUBSET Params, NEW values \in [ps -> Nat]
    PROVE  Message(g, path, h, values) \in Messages
BY DEF Message, Messages

LEMMA NowIs ==
    ASSUME TypeOK, NEW h \in Hosts, NEW ps \in SUBSET Params
    PROVE  Now(h, ps) \in [ps -> Nat] /\ \A p \in ps : Now(h, ps)[p] = desk[h][p]
BY DEF Now, TypeOK

LEMMA ClearTypes ==
    ASSUME TypeOK, ClearCache
    PROVE  cache' \in [Params -> (Hosts \X Nat) \cup {None}] /\ blind' \subseteq Params
<1>1. cache' \in [Params -> (Hosts \X Nat) \cup {None}]
  BY DEF ClearCache, Empty
<1>2. Belated \subseteq Params
  BY MessageHas DEF Belated
<1>3. QED
  BY <1>1, <1>2 DEF ClearCache

LEMMA ApplyTypes ==
    ASSUME TypeOK, NEW i \in DOMAIN wire, ApplyChange(wire[i])
    PROVE  cache' \in [Params -> (Hosts \X Nat) \cup {None}] /\ blind' \subseteq Params
<1>1. cache' \in [Params -> (Hosts \X Nat) \cup {None}]
  BY MessageHas DEF ApplyChange, TypeOK
<1>2. QED
  BY <1>1 DEF ApplyChange, TypeOK

LEMMA MoreHosts ==
    ASSUME TypeOK, hosts' \in Seq(Hosts), Len(hosts') >= Len(hosts)
    PROVE  wire \in Seq(Messages') /\ DOMAIN hosts \subseteq DOMAIN hosts' /\ 0 .. Len(hosts) \subseteq 0 .. Len(hosts')
<1>1. hosts \in Seq(Hosts) /\ wire \in Seq(Messages)
  BY DEF TypeOK
<1>2. DOMAIN hosts \subseteq DOMAIN hosts' /\ 0 .. Len(hosts) \subseteq 0 .. Len(hosts')
  BY <1>1
<1>3. Messages \subseteq Messages'
  BY <1>2 DEF Messages
<1>4. QED
  BY <1>1, <1>2, <1>3, SeqGrows

\* What connectClients() and the chain leave alone keeps its type.
LEMMA ConnectTypes ==
    ASSUME TypeOK, jobs' \in Seq(Job), Len(jobs') = Len(jobs), hosts' \in Seq(Hosts), Len(hosts') >= Len(hosts), client' \in 0 .. Len(hosts'),
           UNCHANGED <<stored, config, open, timers, timer, handles, handle, failing, cache, asked, console, owed, wire, stalled, blind>>
    PROVE  TypeOK'
<1>1. hosts \in Seq(Hosts) /\ wire \in Seq(Messages') /\ DOMAIN hosts \subseteq DOMAIN hosts' /\ 0 .. Len(hosts) \subseteq 0 .. Len(hosts')
  BY MoreHosts DEF TypeOK
<1>2. asked \in [Readers -> 0 .. Len(hosts')]
  BY <1>1 DEF TypeOK
<1>3. QED
  BY <1>1, <1>2 DEF TypeOK, console

LEMMA ConnectChain ==
    ASSUME TypeOK, ChainInv, NEW j \in DOMAIN jobs, ~Settled(j), jobs[j].at # "queued", jobs[j].kind # "stop", Gone, config # None, Connect(j),
           UNCHANGED <<stored, config, open, timers, timer, handles, handle, failing, cache, asked, console, owed, wire, stalled, blind>>
    PROVE  TypeOK' /\ ChainInv'
<1>1. /\ Moves(j) /\ jobs'[j].prev = jobs[j].prev
      /\ \/ config.host = NoHost /\ jobs'[j].at = "done" /\ client' = 0 /\ hosts' = hosts
         \/ /\ config.host # NoHost /\ jobs'[j].at = "connecting" /\ client' = Len(hosts) + 1 /\ hosts' = Append(hosts, config.host)
            /\ hosts' \in Seq(Hosts) /\ Len(hosts') = Len(hosts) + 1 /\ Len(hosts) \in Nat /\ hosts'[client'] = config.host
  BY ConnectMakes
<1>2. hosts' \in Seq(Hosts) /\ Len(hosts') >= Len(hosts) /\ client' \in 0 .. Len(hosts')
  BY <1>1 DEF TypeOK
<1>3. TypeOK'
  BY <1>1, <1>2, ConnectTypes DEF Moves
<1>4. JobInv(j) /\ jobs'[j].kind = jobs[j].kind
  BY <1>1 DEF ChainInv, Moves
<1>5. JobInv(j)'
  BY <1>1, <1>2, <1>4 DEF JobInv, Gone
<1>6. AtRest(j)' => Serves(config)'
  BY <1>1 DEF AtRest, Serves, Gone
<1>7. QED
  BY <1>1, <1>3, <1>5, <1>6, ChainMoves

LEMMA BridgedChain ==
    ASSUME TypeOK, ChainInv, NEW j \in DOMAIN jobs, Bridged(j)
    PROVE  TypeOK' /\ ChainInv'
<1>1. /\ jobs[j].at = "bridging" /\ ~Settled(j) /\ JobInv(j) /\ config = jobs[j].conf /\ Serves(jobs[j].prev) /\ Len(jobs) <= MaxJobs
      /\ UNCHANGED <<stored, config>>
  BY DEF Bridged, Settled, ChainInv, TypeOK, JobInv
<1>2. config \in Configs /\ config # None
  BY <1>1, JobHas, PluginAssumption
<1>3. CASE jobs[j].kind = "start" /\ Connect(j)
           /\ UNCHANGED <<open, timers, timer, handles, handle, failing, cache, asked, console, owed, wire, stalled, blind>>
  <2>1. Gone
    BY <1>1, <1>3 DEF JobInv, Serves
  <2>2. QED
    BY <1>1, <1>2, <1>3, <2>1, ConnectChain
<1>4. CASE jobs[j].kind = "set" /\ Goes(j, "closing") /\ ClearCache /\ Disconnect
  <2>1. Moves(j) /\ jobs'[j].at = "closing" /\ jobs'[j].prev = jobs[j].prev
    BY <1>4, GoesMoves
  <2>2. PICK c : c = jobs[j].prev
    OBVIOUS
  <2>3. Gone'
    BY <1>1, <1>4, <2>2, DisconnectGone
  <2>4. TypeOK'
    <3>1. /\ hosts' = hosts /\ client' = 0 /\ open' \subseteq DOMAIN hosts /\ timers' \subseteq DOMAIN hosts /\ handles' \subseteq DOMAIN hosts
          /\ timer' = 0 /\ handle' = 0 /\ fed' \in 0 .. Len(hosts) /\ failing' \in BOOLEAN /\ asked' \in [Readers -> 0 .. Len(hosts)]
          /\ wire' \in Seq(Messages') /\ owed' \subseteq (DOMAIN hosts) \X {"name", "strip", "ack"}
      BY <1>4, DisconnectTypes
    <3>2. cache' \in [Params -> (Hosts \X Nat) \cup {None}] /\ blind' \subseteq Params
      BY <1>4, ClearTypes
    <3>3. QED
      BY <1>1, <1>4, <2>1, <3>1, <3>2 DEF Moves, TypeOK, Disconnect
  <2>5. JobInv(j)' /\ ~AtRest(j)'
    BY <1>1, <1>2, <1>4, <2>1, <2>3 DEF JobInv, AtRest, Moves
  <2>6. QED
    BY <1>1, <2>1, <2>4, <2>5, ChainMoves
<1>5. CASE jobs[j].kind = "set" /\ ~ConnectionChanged(j) /\ Goes(j, "done")
           /\ UNCHANGED <<clients, failing, cache, asked, console, owed, wire, stalled, blind>>
  <2>1. Moves(j) /\ jobs'[j].at = "done" /\ jobs'[j].prev = jobs[j].prev
    BY <1>5, GoesMoves
  <2>2. TypeOK'
    BY <1>1, <1>5, <2>1 DEF Moves, TypeOK, Messages, clients, console
  <2>3. Serves(config)'
    BY <1>1, <1>2, <1>5 DEF ConnectionChanged, Serves, Gone, clients
  <2>4. JobInv(j)'
    BY <1>1, <1>5, <2>1 DEF JobInv, Moves
  <2>5. QED
    BY <1>1, <2>1, <2>2, <2>3, <2>4, ChainMoves
<1>6. QED
  BY <1>1, <1>3, <1>4, <1>5 DEF Bridged

LEMMA ClosedChain ==
    ASSUME TypeOK, ChainInv, NEW j \in DOMAIN jobs, Closed(j)
    PROVE  TypeOK' /\ ChainInv'
<1>1. /\ jobs[j].at = "closing" /\ ~Settled(j) /\ JobInv(j) /\ Gone /\ Len(jobs) <= MaxJobs
      /\ UNCHANGED <<stored, config, open, timers, timer, handles, handle, failing, cache, asked, console, owed, wire, stalled, blind>>
  BY DEF Closed, Settled, ChainInv, TypeOK, JobInv
<1>2. CASE jobs[j].kind = "stop" /\ Goes(j, "done") /\ UNCHANGED <<client, hosts>>
  <2>1. Moves(j) /\ jobs'[j].at = "done" /\ jobs'[j].prev = jobs[j].prev
    BY <1>2, GoesMoves
  <2>2. TypeOK'
    BY <1>1, <1>2, <2>1 DEF Moves, TypeOK, Messages, console
  <2>3. JobInv(j)' /\ ~AtRest(j)'
    BY <1>1, <1>2, <2>1 DEF JobInv, AtRest, Gone, Moves
  <2>4. QED
    BY <1>1, <2>1, <2>2, <2>3, ChainMoves
<1>3. CASE jobs[j].kind = "set" /\ Connect(j)
  <2>1. config # None
    BY <1>1, <1>3 DEF JobInv
  <2>2. QED
    BY <1>1, <1>3, <2>1, ConnectChain
<1>4. QED
  BY <1>2, <1>3 DEF Closed

LEMMA ConnectedChain ==
    ASSUME TypeOK, ChainInv, NEW j \in DOMAIN jobs, Connected(j)
    PROVE  TypeOK' /\ ChainInv'
<1>1. /\ jobs[j].at = "connecting" /\ Goes(j, "warming") /\ ~Settled(j) /\ JobInv(j) /\ Len(jobs) <= MaxJobs
      /\ UNCHANGED <<stored, config, client, hosts, timers, timer, handles, handle, failing, cache, console, wire, stalled, blind>>
  BY DEF Connected, Settled, ChainInv, TypeOK
<1>2. client \in DOMAIN hosts /\ client # 0
  BY <1>1 DEF JobInv, TypeOK
<1>3. /\ open' \subseteq DOMAIN hosts /\ open' \subseteq open \cup {client} /\ asked' \in [Readers -> 0 .. Len(hosts)]
      /\ owed' \subseteq (DOMAIN hosts) \X {"name", "strip", "ack"}
  <2>1. CASE /\ open' = open \cup {client} /\ asked' = [asked EXCEPT !["dump"] = client]
             /\ owed' = IF hosts[client] \in away THEN owed ELSE owed \cup {<<client, "strip">>}
    <3>1. asked \in [Readers -> 0 .. Len(hosts)] /\ client \in 0 .. Len(hosts) /\ open \subseteq DOMAIN hosts
          /\ owed \subseteq (DOMAIN hosts) \X {"name", "strip", "ack"}
      BY DEF TypeOK
    <3>2. asked' \in [Readers -> 0 .. Len(hosts)]
      BY <2>1, <3>1
    <3>3. QED
      BY <1>2, <2>1, <3>1, <3>2
  <2>2. CASE UNCHANGED <<open, asked, owed>>
    BY <2>2 DEF TypeOK
  <2>3. QED
    BY <2>1, <2>2 DEF Connected
<1>4. Moves(j) /\ jobs'[j].at = "warming" /\ jobs'[j].prev = jobs[j].prev
  BY <1>1, GoesMoves
<1>5. TypeOK'
  BY <1>1, <1>3, <1>4 DEF Moves, TypeOK, Messages, console
<1>6. JobInv(j)' /\ ~AtRest(j)'
  BY <1>1, <1>3, <1>4 DEF JobInv, AtRest, Moves
<1>7. QED
  BY <1>1, <1>4, <1>5, <1>6, ChainMoves

\* The console pushes to whom it was asked to, perhaps beginning with every value.
LEMMA FeedIs ==
    ASSUME TypeOK, NEW g \in DOMAIN hosts, Feed(g)
    PROVE  \E more \in Seq(Messages) :
             /\ wire' = wire \o more /\ \A i \in DOMAIN more : \E p \in Params : more[i] = Push(g, p)
             /\ \/ fed' = g
                \/ fed' = fed /\ more = << >>
<1>1. wire \in Seq(Messages) /\ hosts[g] \in Hosts
  BY DEF TypeOK
<1>2. wire \o << >> = wire
  BY <1>1
<1>3. CASE wire' = wire /\ fed' \in {fed, g}
  <2>0. << >> \in Seq(Messages)
    OBVIOUS
  <2>1. PICK more \in Seq(Messages) : more = << >>
    BY <2>0
  <2>2. wire' = wire \o more /\ \A i \in DOMAIN more : \E p \in Params : more[i] = Push(g, p)
    BY <1>2, <1>3, <2>1
  <2>3. QED
    BY <1>3, <2>1, <2>2
<1>4. CASE fed' = g /\ \E order \in Orders : wire' = wire \o [i \in DOMAIN order |-> Push(g, order[i])]
  <2>1. PICK order \in Orders : wire' = wire \o [i \in DOMAIN order |-> Push(g, order[i])]
    BY <1>4
  <2>2. PICK more : more = [i \in DOMAIN order |-> Push(g, order[i])]
    OBVIOUS
  <2>3. Cardinality(Params) \in Nat /\ order \in [1 .. Cardinality(Params) -> Params]
    BY PluginAssumption, FS_CardinalityType DEF Orders
  <2>4. \A p \in Params : Push(g, p) \in Messages
    <3>1. ASSUME NEW p \in Params PROVE Push(g, p) \in Messages
      <4>1. {p} \in SUBSET Params /\ Now(hosts[g], {p}) \in [{p} -> Nat]
        BY <1>1, NowIs
      <4>2. PICK h \in Hosts : h = hosts[g]
        BY <1>1
      <4>3. PICK values \in [{p} -> Nat] : values = Now(hosts[g], {p})
        BY <4>1
      <4>4. QED
        BY <4>1, <4>2, <4>3, MessageIs DEF Push
    <3>2. QED
      BY <3>1
  <2>5. more \in Seq(Messages)
    BY <2>2, <2>3, <2>4
  <2>6. QED
    BY <1>4, <2>1, <2>2, <2>3, <2>5
<1>5. QED
  BY <1>3, <1>4 DEF Feed

LEMMA FeedTypes ==
    ASSUME TypeOK, NEW g \in DOMAIN hosts, Feed(g)
    PROVE  wire' \in Seq(Messages) /\ fed' \in 0 .. Len(hosts)
<1>1. PICK more \in Seq(Messages) : wire' = wire \o more /\ fed' \in {fed, g}
  BY FeedIs
<1>2. QED
  BY <1>1 DEF TypeOK

LEMMA SubscribeChain ==
    ASSUME TypeOK, ChainInv, NEW j \in DOMAIN jobs, Subscribe(j)
    PROVE  TypeOK' /\ ChainInv'
<1>1. /\ jobs[j].at = "warming" /\ Goes(j, "done") /\ ~Settled(j) /\ JobInv(j) /\ Len(jobs) <= MaxJobs
      /\ handles' = handles \cup {client} /\ handle' = client /\ timers' = timers \cup {client} /\ timer' = client /\ Feed(client)
      /\ UNCHANGED <<stored, config, client, hosts, open, failing, cache, asked, desk, away, spent, owed, stalled, blind>>
  BY DEF Subscribe, Settled, ChainInv, TypeOK
<1>2. client \in DOMAIN hosts /\ client # 0 /\ client \in 0 .. Len(hosts)
  BY <1>1 DEF JobInv, TypeOK
<1>3. wire' \in Seq(Messages) /\ fed' \in 0 .. Len(hosts)
  BY <1>1, <1>2, FeedTypes
<1>4. Moves(j) /\ jobs'[j].at = "done" /\ jobs'[j].prev = jobs[j].prev
  BY <1>1, GoesMoves
<1>5. TypeOK'
  BY <1>1, <1>2, <1>3, <1>4 DEF Moves, TypeOK, Messages
<1>6. JobInv(j)'
  BY <1>1, <1>4 DEF JobInv, Moves
<1>7. Serves(config)'
  BY <1>1, <1>2 DEF JobInv, Serves
<1>8. QED
  BY <1>1, <1>4, <1>5, <1>6, <1>7, ChainMoves

LEMMA ChainStays ==
    ASSUME ChainInv, UNCHANGED <<chain, clients>>
    PROVE  ChainInv'
<1>1. UNCHANGED <<jobs, config, client, hosts, open, timers, timer, handles, handle>>
  BY DEF chain, clients
<1>2. OneAtATime' /\ StopIsLast' /\ \A j \in DOMAIN jobs : JobInv(j)'
  BY <1>1 DEF ChainInv, OneAtATime, Settled, StopIsLast, JobInv, Serves, Gone
<1>3. QED
  BY <1>1, <1>2 DEF ChainInv, AtRest, Serves, Gone

-----------------------------------------------------------------------------
(* What is on the way, and what is cached.                                  *)

\* Without a client nothing is on the way and nobody waits for an answer.
LEMMA Quiet ==
    ASSUME TypeOK, LinkInv, client = 0
    PROVE  wire = << >> /\ fed = 0 /\ owed = {} /\ \A r \in Readers : asked[r] = 0
<1>1. hosts \in Seq(Hosts) /\ wire \in Seq(Messages)
  BY DEF TypeOK
<1>2. ASSUME NEW i \in DOMAIN wire PROVE FALSE
  <2>1. wire[i].to \in DOMAIN hosts /\ wire[i].to = 0
    BY MessageHas DEF LinkInv, OfClient
  <2>2. QED
    BY <1>1, <2>1
<1>3. owed = {}
  BY <1>1 DEF LinkInv, TypeOK
<1>4. QED
  BY <1>1, <1>2, <1>3 DEF LinkInv

LEMMA DataStays ==
    ASSUME LinkInv, InOrder, UNCHANGED <<client, hosts, handles, fed, asked, owed, wire, desk>>
    PROVE  LinkInv' /\ InOrder' /\ (ShownInv /\ UNCHANGED <<cache, blind>> => ShownInv')
<1>1. LinkInv' /\ InOrder'
  <2>1. \A i \in DOMAIN wire : OfClient(wire[i])'
    BY DEF LinkInv, OfClient
  <2>2. LinkInv'
    BY <2>1 DEF LinkInv
  <2>3. InOrder'
    BY DEF InOrder
  <2>4. QED
    BY <2>2, <2>3
<1>2. ShownInv /\ UNCHANGED <<cache, blind>> => ShownInv'
  BY DEF ShownInv, Right, Desk
<1>3. QED
  BY <1>1, <1>2

LEMMA DisconnectData ==
    ASSUME TypeOK, LinkInv, Disconnect
    PROVE  LinkInv' /\ InOrder' /\ (cache' = Empty => ShownInv')
<1>1. wire' = << >> /\ DOMAIN wire' = {} /\ client' = 0
  BY DEF Disconnect
<1>2. \A r \in Readers : asked'[r] = 0
  BY DEF Disconnect, LinkInv
<1>3. fed' = 0 /\ \A q \in owed' : FALSE
  BY DEF Disconnect, LinkInv
<1>4. LinkInv' /\ InOrder'
  BY <1>1, <1>2, <1>3 DEF LinkInv, InOrder
<1>5. cache' = Empty => ShownInv'
  BY <1>1 DEF ShownInv, Empty
<1>6. QED
  BY <1>4, <1>5

LEMMA ConnectData ==
    ASSUME TypeOK, LinkInv, client = 0, UNCHANGED <<handles, fed, asked, owed, wire, desk, cache, blind>>
    PROVE  LinkInv' /\ InOrder' /\ (ShownInv => ShownInv')
<1>1. wire' = << >> /\ DOMAIN wire' = {} /\ fed' = 0 /\ owed' = {} /\ \A r \in Readers : asked'[r] = 0
  BY Quiet
<1>2. LinkInv' /\ InOrder'
  BY <1>1 DEF LinkInv, InOrder
<1>3. ShownInv => ShownInv'
  BY <1>1 DEF ShownInv, Empty
<1>4. QED
  BY <1>2, <1>3

\* What is sent to the client is the newest, and comes last.
LEMMA WireGrows ==
    ASSUME TypeOK, LinkInv, InOrder, NEW more \in Seq(Messages), wire' = wire \o more, UNCHANGED <<client, hosts>>,
           desk' \in [Hosts -> [Params -> Nat]], \A h \in Hosts : \A p \in Params : desk[h][p] <= desk'[h][p],
           \A k \in DOMAIN more : OfClient(more[k]) /\ \A p \in DOMAIN more[k].values : more[k].values[p] = desk'[hosts[client]][p]
    PROVE  /\ wire' \in Seq(Messages) /\ (\A i \in DOMAIN wire' : OfClient(wire[i])') /\ InOrder'
           /\ (\A i \in DOMAIN wire : i \in DOMAIN wire' /\ wire'[i] = wire[i])
           /\ (\A k \in DOMAIN more : Len(wire) + k \in DOMAIN wire' /\ wire'[Len(wire) + k] = more[k])
           /\ \A i \in DOMAIN wire' : i \in DOMAIN wire \/ \E k \in DOMAIN more : i = Len(wire) + k
<1>1. wire \in Seq(Messages) /\ DOMAIN wire = 1 .. Len(wire) /\ DOMAIN more = 1 .. Len(more) /\ Len(wire) \in Nat /\ Len(more) \in Nat
  BY DEF TypeOK
<1>2. /\ wire' \in Seq(Messages) /\ DOMAIN wire' = 1 .. Len(wire) + Len(more) /\ \A i \in 1 .. Len(wire) : wire'[i] = wire[i]
  BY <1>1
<1>3. \A k \in 1 .. Len(more) : wire'[Len(wire) + k] = more[k]
  BY <1>1
<1>4. /\ \A i \in DOMAIN wire : i \in DOMAIN wire' /\ wire'[i] = wire[i]
      /\ \A k \in DOMAIN more : Len(wire) + k \in DOMAIN wire' /\ wire'[Len(wire) + k] = more[k]
  BY <1>1, <1>2, <1>3
<1>5. ASSUME NEW i \in DOMAIN wire' PROVE i \in DOMAIN wire \/ \E k \in DOMAIN more : i = Len(wire) + k
  <2>1. i \in 1 .. Len(wire) \/ (i - Len(wire) \in 1 .. Len(more) /\ i = Len(wire) + (i - Len(wire)))
    BY <1>1, <1>2
  <2>2. QED
    BY <1>1, <2>1
<1>6. \A i \in DOMAIN wire' : OfClient(wire[i])'
  <2>1. ASSUME NEW i \in DOMAIN wire' PROVE OfClient(wire[i])'
    <3>1. PICK m : m = wire'[i] /\ OfClient(m)
      BY <1>4, <1>5 DEF LinkInv
    <3>2. QED
      BY <3>1 DEF OfClient
  <2>2. QED
    BY <2>1
<1>7. ASSUME NEW i \in DOMAIN wire', NEW p \in DOMAIN wire'[i].values
      PROVE  /\ p \in Params /\ wire'[i].values[p] \in Nat /\ wire'[i].values[p] <= desk'[hosts[client]][p] /\ desk'[hosts[client]][p] \in Nat
             /\ (i \notin DOMAIN wire => wire'[i].values[p] = desk'[hosts[client]][p])
  <2>1. p \in Params /\ wire'[i].values[p] \in Nat /\ wire'[i].host = hosts[client] /\ hosts[client] \in Hosts
    <3>1. wire'[i] \in Messages
      BY <1>2
    <3>2. PICK ps \in SUBSET Params : wire'[i].values \in [ps -> Nat] /\ wire'[i].host \in Hosts
      BY <3>1 DEF Messages
    <3>3. wire'[i].host = hosts[client]
      BY <1>6 DEF OfClient
    <3>4. QED
      BY <3>2, <3>3
  <2>2. CASE i \in DOMAIN wire
    <3>1. wire[i].values[p] <= desk[hosts[client]][p] /\ wire'[i] = wire[i]
      BY <1>4, <1>7, <2>1, <2>2 DEF InOrder
    <3>2. desk[hosts[client]][p] <= desk'[hosts[client]][p] /\ desk[hosts[client]][p] \in Nat /\ desk'[hosts[client]][p] \in Nat
      BY <2>1 DEF TypeOK
    <3>3. QED
      BY <2>1, <2>2, <3>1, <3>2
  <2>3. CASE i \notin DOMAIN wire
    <3>1. wire'[i].values[p] = desk'[hosts[client]][p]
      BY <1>4, <1>5, <1>7, <2>3
    <3>2. QED
      BY <2>1, <3>1
  <2>4. QED
    BY <2>2, <2>3
<1>8. InOrder'
  <2>1. \A i \in DOMAIN wire' : \A p \in DOMAIN wire'[i].values : wire'[i].values[p] <= desk'[wire'[i].host][p]
    BY <1>6, <1>7 DEF OfClient
  <2>2. ASSUME NEW i \in DOMAIN wire', NEW k \in DOMAIN wire', i < k, NEW p \in DOMAIN wire'[i].values \cap DOMAIN wire'[k].values
        PROVE  wire'[i].values[p] <= wire'[k].values[p]
    <3>1. CASE k \in DOMAIN wire
      <4>1. i \in DOMAIN wire
        BY <1>1, <1>2, <2>2, <3>1
      <4>2. QED
        BY <1>4, <2>2, <3>1, <4>1 DEF InOrder
    <3>2. CASE k \notin DOMAIN wire
      BY <1>7, <2>2, <3>2
    <3>3. QED
      BY <3>1, <3>2
  <2>3. QED
    BY <2>1, <2>2 DEF InOrder
<1>9. QED
  BY <1>2, <1>4, <1>5, <1>6, <1>8

\* What was read or is on the way stays right if every parameter that changed is noted as missed or will be told.
LEMMA RightGrows ==
    ASSUME TypeOK, LinkInv, ShownInv, NEW more \in Seq(Messages), wire' = wire \o more, UNCHANGED <<client, hosts, cache>>,
           \A i \in DOMAIN wire : i \in DOMAIN wire' /\ wire'[i] = wire[i],
           \A k \in DOMAIN more : Len(wire) + k \in DOMAIN wire' /\ wire'[Len(wire) + k] = more[k],
           \A i \in DOMAIN wire' : i \in DOMAIN wire \/ \E k \in DOMAIN more : i = Len(wire) + k,
           \A k \in DOMAIN more : \A p \in DOMAIN more[k].values : more[k].values[p] = Desk(p)',
           client \in handles => client \in handles',
           \A p \in Params : p \in blind \/ desk'[hosts[client]][p] # Desk(p) =>
             \/ p \in blind'
             \/ client \in handles' /\ \E k \in DOMAIN more : more[k].path \in {p, "scene"}
             \/ cache[p] = None /\ \A i \in DOMAIN wire : p \notin DOMAIN wire[i].values
    PROVE  ShownInv'
<1>1. wire \in Seq(Messages) /\ DOMAIN wire = 1 .. Len(wire) /\ DOMAIN more = 1 .. Len(more) /\ Len(wire) \in Nat /\ Len(more) \in Nat
  BY DEF TypeOK
<1>2. ASSUME NEW p \in Params, NEW v, NEW i \in 0 .. Len(wire), Right(p, v, i),
             cache[p] # None \/ \E n \in DOMAIN wire : p \in DOMAIN wire[n].values
      PROVE  Right(p, v, i)'
  <2>1. CASE client \in handles /\ \E k \in DOMAIN wire : k > i /\ wire[k].path \in {p, "scene"}
    BY <2>1 DEF Right
  <2>2. CASE p \in blind' \/ (client \in handles' /\ \E k \in DOMAIN more : more[k].path \in {p, "scene"})
    <3>1. ASSUME client \in handles', NEW k \in DOMAIN more, more[k].path \in {p, "scene"} PROVE Right(p, v, i)'
      <4>1. Len(wire) + k \in DOMAIN wire' /\ wire'[Len(wire) + k].path \in {p, "scene"} /\ Len(wire) + k > i
        BY <1>1, <3>1
      <4>2. client' \in handles'
        BY <3>1
      <4>3. QED
        BY <4>1, <4>2 DEF Right
    <3>2. p \in blind' => Right(p, v, i)'
      BY DEF Right
    <3>3. QED
      BY <2>2, <3>1, <3>2
  <2>3. CASE v = Desk(p) /\ desk'[hosts[client]][p] = Desk(p)
    BY <2>3 DEF Right, Desk
  <2>4. QED
    BY <1>2, <2>1, <2>2, <2>3 DEF Right
<1>3. ASSUME NEW p \in Params, cache'[p] # None PROVE cache'[p][1] = hosts'[client'] /\ Right(p, cache[p][2], 0)'
  <2>1. cache[p] # None /\ cache[p][1] = hosts[client] /\ Right(p, cache[p][2], 0)
    BY <1>3 DEF ShownInv
  <2>2. PICK v : v = cache[p][2]
    OBVIOUS
  <2>3. Right(p, v, 0)'
    BY <1>1, <1>2, <2>1, <2>2
  <2>4. QED
    BY <2>1, <2>2, <2>3 DEF Right
<1>4. ASSUME NEW i \in DOMAIN wire', NEW p \in DOMAIN wire'[i].values PROVE Right(p, wire[i].values[p], i)'
  <2>1. CASE i \in DOMAIN wire
    <3>1. PICK v : v = wire[i].values[p]
      OBVIOUS
    <3>2. p \in Params /\ Right(p, v, i) /\ p \in DOMAIN wire[i].values /\ wire'[i].values[p] = v
      BY <1>4, <2>1, <3>1, MessageHas DEF ShownInv
    <3>3. Right(p, v, i)'
      BY <1>1, <1>2, <2>1, <3>2
    <3>4. QED
      BY <3>2, <3>3 DEF Right
  <2>2. CASE \E k \in DOMAIN more : i = Len(wire) + k
    BY <1>4, <2>2 DEF Right
  <2>3. QED
    BY <2>1, <2>2
<1>5. QED
  BY <1>3, <1>4 DEF ShownInv

\* Dropping the cache leaves only what is on the way, each old value of it noted.
LEMMA ClearShown ==
    ASSUME TypeOK, LinkInv, ClearCache, UNCHANGED <<client, hosts, desk>>,
           NEW n \in Nat, \A i \in DOMAIN wire' : i + n \in DOMAIN wire /\ wire'[i] = wire[i + n]
    PROVE  ShownInv'
<1>1. cache' = Empty /\ blind' = Belated
  BY DEF ClearCache
<1>2. ASSUME NEW i \in DOMAIN wire', NEW p \in DOMAIN wire'[i].values PROVE Right(p, wire[i].values[p], i)'
  <2>1. PICK m : m = wire'[i] /\ m = wire[i + n] /\ i + n \in DOMAIN wire
    OBVIOUS
  <2>2. m.host = hosts[client] /\ p \in DOMAIN m.values
    BY <1>2, <2>1 DEF LinkInv, OfClient
  <2>3. m.values[p] = desk[hosts[client]][p] \/ p \in Belated
    BY <2>1, <2>2 DEF Belated, Fresh
  <2>4. QED
    BY <1>1, <2>1, <2>3 DEF Right, Desk
<1>3. QED
  BY <1>1, <1>2 DEF ShownInv, Empty

LEMMA AskKeeps ==
    ASSUME PluginInv, NEW r \in Readers, Ask(r) \/ TimeOut(r)
    PROVE  PluginInv'
<1>1. TypeOK /\ ChainInv /\ LinkInv /\ InOrder /\ (NotStopped => ShownInv) /\ UNCHANGED <<chain, clients, failing, cache, console, wire, stalled, blind>>
      /\ jobs' = jobs /\ client' = client /\ hosts' = hosts /\ handles' = handles /\ desk' = desk /\ fed' = fed /\ (NotStopped' => NotStopped)
  BY DEF PluginInv, Ask, TimeOut, chain, clients, console, NotStopped
<1>2. \/ asked' = [asked EXCEPT ![r] = 0] /\ owed' = owed
      \/ /\ client \in DOMAIN hosts /\ asked' = [asked EXCEPT ![r] = client]
         /\ owed' = owed \/ owed' = owed \cup {<<client, Address(r)>>}
  BY <1>1 DEF Ask, TimeOut, Send, TypeOK
<1>3. Address(r) \in {"name", "strip", "ack"}
  BY DEF Address, Readers
<1>4. asked \in [Readers -> 0 .. Len(hosts)] /\ client \in 0 .. Len(hosts) /\ 0 \in 0 .. Len(hosts)
  BY <1>1 DEF TypeOK
<1>5. asked' \in [Readers -> 0 .. Len(hosts)] /\ \A x \in Readers : asked'[x] \in {0, client}
  BY <1>1, <1>2, <1>4 DEF LinkInv
<1>6. owed' \subseteq (DOMAIN hosts) \X {"name", "strip", "ack"} /\ \A q \in owed' : q[1] = client
  BY <1>1, <1>2, <1>3 DEF TypeOK, LinkInv
<1>7. TypeOK'
  BY <1>1, <1>5, <1>6 DEF TypeOK, Messages, chain, clients, console
<1>8. LinkInv' /\ InOrder' /\ (ShownInv => ShownInv')
  <2>1. \A i \in DOMAIN wire : OfClient(wire[i])'
    BY <1>1 DEF LinkInv, OfClient
  <2>2. LinkInv'
    BY <1>1, <1>5, <1>6, <2>1 DEF LinkInv
  <2>3. QED
    BY <1>1, <2>2 DEF InOrder, ShownInv, Right, Desk
<1>9. QED
  BY <1>1, <1>7, <1>8, ChainStays DEF PluginInv

LEMMA BeatKeeps ==
    ASSUME PluginInv, NEW g \in DOMAIN hosts, Beat(g)
    PROVE  PluginInv'
<1>1. TypeOK /\ ChainInv /\ LinkInv /\ InOrder /\ (NotStopped => ShownInv) /\ UNCHANGED <<chain, clients, asked, console, owed, wire, stalled>>
      /\ jobs' = jobs /\ client' = client /\ hosts' = hosts /\ handles' = handles /\ desk' = desk /\ fed' = fed /\ (NotStopped' => NotStopped)
  BY DEF PluginInv, Beat, chain, clients, console, NotStopped
<1>2. failing' \in BOOLEAN /\ (ClearCache \/ KeepCache)
  BY DEF Beat, OnHeartbeat
<1>3. cache' \in [Params -> (Hosts \X Nat) \cup {None}] /\ blind' \subseteq Params
  BY <1>1, <1>2, ClearTypes DEF KeepCache, TypeOK
<1>4. TypeOK'
  BY <1>1, <1>2, <1>3 DEF TypeOK, Messages, chain, clients, console
<1>5. LinkInv' /\ InOrder' /\ (ShownInv /\ KeepCache => ShownInv')
  BY <1>1, DataStays DEF KeepCache
<1>6. ClearCache => ShownInv'
  <2>1. \A i \in DOMAIN wire' : i + 0 \in DOMAIN wire /\ wire'[i] = wire[i + 0]
    BY <1>1 DEF TypeOK
  <2>2. 0 \in Nat
    OBVIOUS
  <2>3. QED
    BY <1>1, <2>1, <2>2, ClearShown
<1>7. QED
  BY <1>1, <1>2, <1>4, <1>5, <1>6, ChainStays DEF PluginInv

LEMMA ComeBackKeeps ==
    ASSUME PluginInv, NEW h \in Hosts, ComeBack(h)
    PROVE  PluginInv'
<1>1. TypeOK /\ ChainInv /\ LinkInv /\ InOrder /\ (NotStopped => ShownInv)
      /\ away' = away \ {h} /\ UNCHANGED <<chain, clients, failing, cache, asked, desk, fed, spent, owed, wire, stalled, blind>>
      /\ jobs' = jobs /\ client' = client /\ hosts' = hosts /\ handles' = handles /\ (NotStopped' => NotStopped)
  BY DEF PluginInv, ComeBack, chain, clients, NotStopped
<1>2. TypeOK'
  BY <1>1 DEF TypeOK, Messages, chain, clients
<1>3. LinkInv' /\ InOrder' /\ (ShownInv => ShownInv')
  BY <1>1, DataStays
<1>4. QED
  BY <1>1, <1>2, <1>3, ChainStays DEF PluginInv

LEMMA StallKeeps ==
    ASSUME PluginInv, Stall
    PROVE  PluginInv'
<1>1. TypeOK /\ ChainInv /\ LinkInv /\ InOrder /\ (NotStopped => ShownInv) /\ spent' = spent + 1 /\ stalled' = TRUE /\ fed' = 0
      /\ UNCHANGED <<chain, clients, failing, cache, asked, desk, away, owed, wire, blind>>
      /\ jobs' = jobs /\ client' = client /\ hosts' = hosts /\ handles' = handles /\ (NotStopped' => NotStopped)
  BY DEF PluginInv, Stall, Spend, chain, clients, NotStopped
<1>2. TypeOK'
  BY <1>1 DEF TypeOK, Messages, chain, clients
<1>3. LinkInv'
  <2>1. \A i \in DOMAIN wire : OfClient(wire[i])'
    BY <1>1 DEF LinkInv, OfClient
  <2>2. QED
    BY <1>1, <2>1 DEF LinkInv
<1>4. InOrder' /\ (ShownInv => ShownInv')
  BY <1>1 DEF InOrder, ShownInv, Right, Desk
<1>5. QED
  BY <1>1, <1>2, <1>3, <1>4, ChainStays DEF PluginInv

\* The head of what is on the way is taken.
LEMMA TailIs ==
    ASSUME TypeOK, wire # << >>, wire' = Tail(wire)
    PROVE  /\ Head(wire) = wire[1] /\ 1 \in DOMAIN wire /\ wire' \in Seq(Messages) /\ DOMAIN wire \subseteq Nat
           /\ \A i \in DOMAIN wire' : i \in Nat /\ i + 1 \in DOMAIN wire /\ wire'[i] = wire[i + 1]
           /\ \A k \in DOMAIN wire : k # 1 => k - 1 \in DOMAIN wire' /\ wire'[k - 1] = wire[k] /\ k > 1
<1>1. wire \in Seq(Messages) /\ DOMAIN wire = 1 .. Len(wire) /\ Len(wire) \in Nat
  BY DEF TypeOK
<1>2. Head(wire) = wire[1] /\ wire' \in Seq(Messages) /\ DOMAIN wire' = 1 .. Len(wire) - 1 /\ \A i \in 1 .. Len(wire) - 1 : wire'[i] = wire[i + 1]
      /\ Len(wire) > 0
  BY <1>1
<1>3. \A k \in 1 .. Len(wire) : k # 1 => k - 1 \in 1 .. Len(wire) - 1 /\ k = (k - 1) + 1 /\ k > 1
  BY <1>1
<1>4. \A i \in 1 .. Len(wire) - 1 : i \in Nat /\ i + 1 \in 1 .. Len(wire)
  BY <1>1
<1>5. QED
  BY <1>1, <1>2, <1>3, <1>4

\* What still corrects a value once the head is taken that does not.
LEMMA RightShrinks ==
    ASSUME TypeOK, wire # << >>, wire' = Tail(wire), UNCHANGED <<client, hosts, handles, desk>>,
           NEW p \in Params, NEW v, NEW i \in Nat, Right(p, v, i), i # 0 \/ client \notin handles \/ wire[1].path \notin {p, "scene"},
           NEW j \in Nat, (i # 0 => j = i - 1), (i = 0 => j = 0), p \in blind => p \in blind' \/ v = Desk(p)
    PROVE  Right(p, v, j)'
<1>1. CASE v = Desk(p)
  BY <1>1 DEF Right, Desk
<1>2. CASE p \in blind'
  BY <1>2 DEF Right
<1>3. CASE client \in handles /\ \E k \in DOMAIN wire : k > i /\ wire[k].path \in {p, "scene"}
  <2>1. PICK k \in DOMAIN wire : k > i /\ wire[k].path \in {p, "scene"}
    BY <1>3
  <2>2. k # 1 /\ k \in Nat /\ k - 1 \in DOMAIN wire' /\ wire'[k - 1] = wire[k] /\ k > 1
    BY <1>3, <2>1, TailIs
  <2>3. k - 1 > j
    BY <2>1, <2>2
  <2>4. QED
    BY <1>3, <2>1, <2>2, <2>3 DEF Right
<1>4. QED
  BY <1>1, <1>2, <1>3 DEF Right

LEMMA ApplyShown ==
    ASSUME TypeOK, LinkInv, InOrder, ShownInv, wire # << >>, wire' = Tail(wire), UNCHANGED <<client, hosts, handles, desk>>,
           wire[1].path \in Params \cup {"strip"}, ApplyChange(wire[1])
    PROVE  ShownInv'
<1>1. PICK m : m = wire[1]
  OBVIOUS
<1>2. 1 \in DOMAIN wire /\ OfClient(m) /\ DOMAIN m.values \subseteq Params /\ m.path # "scene" /\ client # 0
      /\ cache' = [p \in Params |-> IF p \in DOMAIN m.values THEN <<m.host, m.values[p]>> ELSE cache[p]] /\ blind' = blind \ Fresh(m)
  <2>1. 1 \in DOMAIN wire
    BY TailIs
  <2>2. client # 0
    BY Quiet
  <2>3. QED
    BY <1>1, <2>1, <2>2, MessageHas, PluginAssumption DEF LinkInv, ApplyChange
<1>3. Fresh(m) = {p \in DOMAIN m.values : m.values[p] = Desk(p)}
  BY <1>2 DEF Fresh, OfClient, Desk
<1>4. ASSUME NEW p \in Params, cache'[p] # None PROVE cache'[p][1] = hosts'[client'] /\ Right(p, cache[p][2], 0)'
  <2>1. PICK v : v = cache'[p][2]
    OBVIOUS
  <2>2. CASE p \in DOMAIN m.values
    <3>1. v = m.values[p] /\ cache'[p][1] = m.host
      BY <1>2, <2>1, <2>2
    <3>2. Right(p, v, 1)
      BY <1>1, <1>2, <2>2, <3>1 DEF ShownInv
    <3>3. p \in blind => p \in blind' \/ v = Desk(p)
      BY <1>2, <1>3, <3>1
    <3>4. Right(p, v, 0)'
      <4>1. PICK i \in Nat, j \in Nat : i = 1 /\ j = 0
        OBVIOUS
      <4>2. Right(p, v, i) /\ i # 0 /\ j = i - 1
        BY <3>2, <4>1
      <4>3. Right(p, v, j)'
        BY <3>3, <4>2, RightShrinks
      <4>4. QED
        BY <4>1, <4>3
    <3>5. QED
      BY <1>2, <2>1, <3>1, <3>4 DEF OfClient, Right
  <2>3. CASE p \notin DOMAIN m.values
    <3>1. cache'[p] = cache[p] /\ cache[p] # None /\ Right(p, v, 0) /\ cache[p][1] = hosts[client]
      BY <1>2, <1>4, <2>1, <2>3 DEF ShownInv
    <3>2. wire[1].path \notin {p, "scene"}
      BY <1>1, <1>2, <2>3 DEF OfClient
    <3>3. p \in blind => p \in blind'
      BY <1>2, <1>3, <2>3
    <3>4. Right(p, v, 0)'
      <4>1. PICK i \in Nat : i = 0
        OBVIOUS
      <4>2. Right(p, v, i)
        BY <3>1, <4>1
      <4>3. Right(p, v, i)'
        BY <3>2, <3>3, <4>1, <4>2, RightShrinks
      <4>4. QED
        BY <4>1, <4>3
    <3>5. QED
      BY <2>1, <3>1, <3>4 DEF Right
  <2>4. QED
    BY <2>2, <2>3
<1>5. ASSUME NEW j \in DOMAIN wire', NEW p \in DOMAIN wire'[j].values PROVE Right(p, wire[j].values[p], j)'
  <2>1. PICK v, i : v = wire'[j].values[p] /\ i = j + 1
    OBVIOUS
  <2>2. j \in Nat /\ i \in DOMAIN wire /\ wire'[j] = wire[i] /\ i \in Nat /\ i > 1 /\ j = i - 1
    BY <2>1, TailIs
  <2>3. Right(p, v, i) /\ p \in Params /\ p \in DOMAIN wire[i].values /\ v = wire[i].values[p]
    BY <1>5, <2>1, <2>2, MessageHas DEF ShownInv
  <2>4. ASSUME p \in Fresh(m) PROVE v = Desk(p)
    <3>1. m.values[p] <= v
      BY <1>1, <1>2, <2>2, <2>3, <2>4 DEF InOrder, Fresh
    <3>2. v <= Desk(p) /\ v \in Nat
      BY <2>2, <2>3, MessageHas DEF InOrder, LinkInv, OfClient, Desk
    <3>3. m.values[p] = Desk(p) /\ m.values[p] \in Nat
      BY <1>1, <1>2, <1>3, <2>4, MessageHas
    <3>4. QED
      BY <3>1, <3>2, <3>3
  <2>5. Right(p, v, j)'
    BY <1>2, <2>2, <2>3, <2>4, RightShrinks
  <2>6. QED
    BY <2>1, <2>5 DEF Right
<1>6. QED
  BY <1>2, <1>4, <1>5 DEF ShownInv

LEMMA KeepShown ==
    ASSUME TypeOK, LinkInv, ShownInv, wire # << >>, wire' = Tail(wire), UNCHANGED <<client, hosts, handles, desk, cache, blind>>,
           client \notin handles \/ wire[1].path \in {"strip", "ack"}
    PROVE  ShownInv'
<1>1. \A p \in Params : client \notin handles \/ wire[1].path \notin {p, "scene"}
  BY PluginAssumption
<1>2. ASSUME NEW p \in Params, cache[p] # None PROVE Right(p, cache[p][2], 0)'
  <2>1. PICK v, i : v = cache[p][2] /\ i = 0 /\ i \in Nat
    OBVIOUS
  <2>2. Right(p, v, i)
    BY <1>2, <2>1 DEF ShownInv
  <2>3. Right(p, v, i)'
    BY <1>1, <2>1, <2>2, RightShrinks
  <2>4. QED
    BY <2>1, <2>3 DEF Right
<1>3. ASSUME NEW j \in DOMAIN wire', NEW p \in DOMAIN wire'[j].values PROVE Right(p, wire[j].values[p], j)'
  <2>1. PICK v, i : v = wire'[j].values[p] /\ i = j + 1
    OBVIOUS
  <2>2. j \in Nat /\ i \in DOMAIN wire /\ wire'[j] = wire[i] /\ i \in Nat /\ i > 1 /\ j = i - 1
    BY <2>1, TailIs
  <2>3. Right(p, v, i) /\ p \in Params
    BY <1>3, <2>1, <2>2, MessageHas DEF ShownInv
  <2>4. Right(p, v, j)'
    BY <2>2, <2>3, RightShrinks
  <2>5. QED
    BY <2>1, <2>4 DEF Right
<1>4. QED
  BY <1>2, <1>3 DEF ShownInv

LEMMA HandleMessageKeeps ==
    ASSUME PluginInv, HandleMessage
    PROVE  PluginInv'
<1>1. TypeOK /\ ChainInv /\ LinkInv /\ InOrder /\ (NotStopped => ShownInv) /\ UNCHANGED <<chain, clients, console, owed, stalled>>
      /\ wire # << >> /\ wire' = Tail(wire)
      /\ jobs' = jobs /\ client' = client /\ hosts' = hosts /\ handles' = handles /\ desk' = desk /\ fed' = fed /\ (NotStopped' => NotStopped)
  BY DEF PluginInv, HandleMessage, chain, clients, console, NotStopped
<1>2. PICK m : m = wire[1] /\ m = Head(wire) /\ OfClient(m) /\ m.path \in Params \cup {"strip", "scene", "ack"}
  <2>1. 1 \in DOMAIN wire /\ Head(wire) = wire[1]
    BY <1>1, TailIs
  <2>2. QED
    BY <1>1, <2>1, MessageHas DEF LinkInv
<1>3. /\ failing' = failing
      /\ \/ \E r \in Readers : asked[r] = m.to /\ Address(r) = m.path /\ asked' = [asked EXCEPT ![r] = 0] /\ Continue(r, m)
         \/ asked' = asked /\ m.to \in handles /\ OnParamChange(m)
         \/ asked' = asked /\ m.to \notin handles /\ KeepCache
  <2>1. CASE {r \in Readers : asked[r] = m.to /\ Address(r) = m.path} # {}
    BY <1>2, <2>1 DEF HandleMessage, Continue
  <2>2. CASE {r \in Readers : asked[r] = m.to /\ Address(r) = m.path} = {}
    BY <1>2, <2>2 DEF HandleMessage, OnParamChange
  <2>3. QED
    BY <2>1, <2>2
<1>4. \/ ClearCache
      \/ ApplyChange(m) /\ m.path \in Params \cup {"strip"}
      \/ KeepCache /\ (client \notin handles \/ m.path \in {"strip", "ack"})
  <2>1. CASE \E r \in Readers : Address(r) = m.path /\ Continue(r, m)
    <3>1. PICK r \in Readers : Address(r) = m.path /\ Continue(r, m)
      BY <2>1
    <3>2. r # "recall" => m.path \in {"name", "strip"}
      BY <3>1 DEF Address, Readers
    <3>3. QED
      BY <3>1, <3>2, PluginAssumption DEF Continue
  <2>2. CASE OnParamChange(m)
    BY <1>2, <2>2 DEF OnParamChange
  <2>3. CASE m.to \notin handles /\ KeepCache
    BY <1>2, <2>3 DEF OfClient
  <2>4. QED
    BY <1>3, <2>1, <2>2, <2>3
<1>5. asked' \in [Readers -> 0 .. Len(hosts)] /\ \A x \in Readers : asked'[x] \in {0, client}
  <2>1. asked \in [Readers -> 0 .. Len(hosts)] /\ 0 \in 0 .. Len(hosts) /\ \A x \in Readers : asked[x] \in {0, client}
    BY <1>1 DEF TypeOK, LinkInv
  <2>2. QED
    BY <1>3, <2>1
<1>6. cache' \in [Params -> (Hosts \X Nat) \cup {None}] /\ blind' \subseteq Params
  <2>1. ApplyChange(m) => cache' \in [Params -> (Hosts \X Nat) \cup {None}] /\ blind' \subseteq Params
    BY <1>1, <1>2, TailIs, ApplyTypes
  <2>2. ClearCache => cache' \in [Params -> (Hosts \X Nat) \cup {None}] /\ blind' \subseteq Params
    BY <1>1, ClearTypes
  <2>3. KeepCache => cache' \in [Params -> (Hosts \X Nat) \cup {None}] /\ blind' \subseteq Params
    BY <1>1 DEF KeepCache, TypeOK
  <2>4. QED
    BY <1>4, <2>1, <2>2, <2>3
<1>7. TypeOK'
  <2>1. wire' \in Seq(Messages)
    BY <1>1, TailIs
  <2>2. QED
    BY <1>1, <1>3, <1>5, <1>6, <2>1 DEF TypeOK, Messages, chain, clients, console
<1>8. \A i \in DOMAIN wire' : i \in Nat /\ i + 1 \in DOMAIN wire /\ wire'[i] = wire[i + 1]
  BY <1>1, TailIs
<1>9. LinkInv'
  <2>1. ASSUME NEW i \in DOMAIN wire' PROVE OfClient(wire[i])'
    <3>1. PICK n : n = wire'[i] /\ OfClient(n)
      BY <1>1, <1>8 DEF LinkInv
    <3>2. QED
      BY <1>1, <3>1 DEF OfClient
  <2>2. QED
    BY <1>1, <1>5, <2>1 DEF LinkInv
<1>10. InOrder'
  <2>1. \A i \in DOMAIN wire' : \A p \in DOMAIN wire'[i].values : wire'[i].values[p] <= desk'[wire'[i].host][p]
    BY <1>1, <1>8 DEF InOrder
  <2>2. ASSUME NEW i \in DOMAIN wire', NEW k \in DOMAIN wire', i < k, NEW p \in DOMAIN wire'[i].values \cap DOMAIN wire'[k].values
        PROVE  wire'[i].values[p] <= wire'[k].values[p]
    <3>1. i + 1 < k + 1
      BY <1>8, <2>2
    <3>2. QED
      BY <1>1, <1>8, <2>2, <3>1 DEF InOrder
  <2>3. QED
    BY <2>1, <2>2 DEF InOrder
<1>11. ShownInv => ShownInv'
  <2>1. ClearCache => ShownInv'
    <3>1. 1 \in Nat
      OBVIOUS
    <3>2. QED
      BY <1>1, <1>8, <3>1, ClearShown
  <2>2. ShownInv /\ ApplyChange(m) /\ m.path \in Params \cup {"strip"} => ShownInv'
    BY <1>1, <1>2, ApplyShown
  <2>3. ShownInv /\ KeepCache /\ (client \notin handles \/ m.path \in {"strip", "ack"}) => ShownInv'
    BY <1>1, <1>2, KeepShown DEF KeepCache
  <2>4. QED
    BY <1>4, <2>1, <2>2, <2>3
<1>12. QED
  BY <1>1, <1>7, <1>9, <1>10, <1>11, ChainStays DEF PluginInv

\* No heartbeat, subscription or socket but the client's, at any point of the chain.
LEMMA NothingLeaksIs ==
    ASSUME TypeOK, ChainInv
    PROVE  NothingLeaks /\ handles \subseteq {client}
<1>1. \A c : Serves(c) => NothingLeaks
  BY DEF Serves, Gone, NothingLeaks
<1>2. ASSUME NEW j \in DOMAIN jobs, ~AtRest(j) PROVE NothingLeaks
  <2>1. JobInv(j) /\ jobs[j].kind \in {"start", "set", "stop"}
        /\ jobs[j].at \in {"queued", "saving", "bridging", "closing", "connecting", "warming", "done", "failed"}
    BY JobHas DEF ChainInv
  <2>2. CASE jobs[j].at = "bridging"
    <3>1. PICK c : c = jobs[j].prev
      OBVIOUS
    <3>2. Serves(c)
      BY <2>1, <2>2, <3>1 DEF JobInv
    <3>3. QED
      BY <1>1, <3>2
  <2>3. CASE jobs[j].at = "closing" \/ (jobs[j].kind = "stop" /\ jobs[j].at = "done")
    BY <2>1, <2>3 DEF JobInv, Gone, NothingLeaks
  <2>4. CASE jobs[j].at \in {"connecting", "warming"}
    BY <2>1, <2>4 DEF JobInv, NothingLeaks
  <2>5. QED
    BY <1>2, <2>1, <2>2, <2>3, <2>4 DEF AtRest, JobInv
<1>3. NothingLeaks
  BY <1>1, <1>2 DEF ChainInv
<1>4. handles \subseteq {client}
  BY <1>3 DEF NothingLeaks, TypeOK
<1>5. QED
  BY <1>3, <1>4

LEMMA FeedGrows ==
    ASSUME TypeOK, client \in DOMAIN hosts, Feed(client)
    PROVE  \E more \in Seq(Messages) :
             /\ wire' = wire \o more /\ fed' \in {fed, client}
             /\ \A k \in DOMAIN more : OfClient(more[k]) /\ \A p \in DOMAIN more[k].values : more[k].values[p] = desk[hosts[client]][p]
<1>1. PICK more \in Seq(Messages) : wire' = wire \o more /\ fed' \in {fed, client} /\ \A k \in DOMAIN more : \E p \in Params : more[k] = Push(client, p)
  BY FeedIs
<1>2. ASSUME NEW p \in Params PROVE OfClient(Push(client, p)) /\ \A q \in DOMAIN Push(client, p).values : Push(client, p).values[q] = desk[hosts[client]][q]
  <2>1. Push(client, p) = [to |-> client, path |-> p, host |-> hosts[client], values |-> [x \in {p} |-> desk[hosts[client]][x]]]
    BY DEF Push, Message, Now
  <2>2. p \notin {"scene", "strip", "ack"}
    BY PluginAssumption
  <2>3. QED
    BY <2>1, <2>2 DEF OfClient
<1>3. ASSUME NEW k \in DOMAIN more PROVE OfClient(more[k]) /\ \A p \in DOMAIN more[k].values : more[k].values[p] = desk[hosts[client]][p]
  BY <1>1, <1>2
<1>4. QED
  BY <1>1, <1>3

\* Renewals and the first subscription: the console pushes, what is shown stays right.
LEMMA FeedKeeps ==
    ASSUME TypeOK, LinkInv, InOrder, client \in DOMAIN hosts, Feed(client), client \in handles', ClearCache \/ KeepCache,
           UNCHANGED <<client, hosts, asked, owed, desk>>
    PROVE  LinkInv' /\ InOrder' /\ (ShownInv => ShownInv')
<1>1. PICK more \in Seq(Messages) :
        /\ wire' = wire \o more /\ fed' \in {fed, client}
        /\ \A k \in DOMAIN more : OfClient(more[k]) /\ \A p \in DOMAIN more[k].values : more[k].values[p] = desk[hosts[client]][p]
  BY FeedGrows
<1>2. desk' \in [Hosts -> [Params -> Nat]] /\ \A h \in Hosts : \A p \in Params : desk[h][p] <= desk'[h][p]
  BY DEF TypeOK
<1>3. /\ (\A i \in DOMAIN wire' : OfClient(wire[i])') /\ InOrder' /\ (\A i \in DOMAIN wire : i \in DOMAIN wire' /\ wire'[i] = wire[i])
      /\ (\A k \in DOMAIN more : Len(wire) + k \in DOMAIN wire' /\ wire'[Len(wire) + k] = more[k])
      /\ \A i \in DOMAIN wire' : i \in DOMAIN wire \/ \E k \in DOMAIN more : i = Len(wire) + k
  <2>1. /\ more \in Seq(Messages) /\ wire' = wire \o more /\ UNCHANGED <<client, hosts>>
        /\ desk' \in [Hosts -> [Params -> Nat]] /\ \A h \in Hosts : \A p \in Params : desk[h][p] <= desk'[h][p]
    BY <1>1, <1>2
  <2>2. \A k \in DOMAIN more : OfClient(more[k]) /\ \A p \in DOMAIN more[k].values : more[k].values[p] = desk'[hosts[client]][p]
    BY <1>1
  <2>3. QED
    BY <2>1, <2>2, WireGrows
<1>4. LinkInv'
  BY <1>1, <1>3 DEF LinkInv
<1>5. CASE KeepCache
  <2>1. \A k \in DOMAIN more : \A p \in DOMAIN more[k].values : more[k].values[p] = Desk(p)'
    BY <1>1 DEF Desk
  <2>2. \A p \in Params : p \in blind \/ desk'[hosts[client]][p] # Desk(p) => p \in blind'
    BY <1>5 DEF KeepCache, Desk
  <2>3. ASSUME ShownInv PROVE ShownInv'
    <3>1. wire' = wire \o more /\ UNCHANGED <<client, hosts, cache>> /\ (client \in handles => client \in handles')
      BY <1>1, <1>5 DEF KeepCache
    <3>2. \A p \in Params : p \in blind \/ desk'[hosts[client]][p] # Desk(p) =>
             \/ p \in blind'
             \/ client \in handles' /\ \E k \in DOMAIN more : more[k].path \in {p, "scene"}
             \/ cache[p] = None /\ \A i \in DOMAIN wire : p \notin DOMAIN wire[i].values
      BY <2>2
    <3>3. QED
      BY <1>3, <2>1, <2>3, <3>1, <3>2, RightGrows
  <2>4. QED
    BY <1>3, <1>4, <2>3
<1>6. CASE ClearCache
  <2>1. ASSUME NEW i \in DOMAIN wire', NEW p \in DOMAIN wire'[i].values PROVE Right(p, wire[i].values[p], i)'
    <3>1. PICK m : m = wire'[i]
      OBVIOUS
    <3>2. m.values[p] = desk[hosts[client]][p] \/ p \in Belated
      <4>1. CASE i \in DOMAIN wire
        <5>1. m = wire[i] /\ m.host = hosts[client]
          BY <1>3, <3>1, <4>1 DEF LinkInv, OfClient
        <5>2. QED
          BY <2>1, <3>1, <4>1, <5>1 DEF Belated, Fresh
      <4>2. CASE \E k \in DOMAIN more : i = Len(wire) + k
        BY <1>1, <1>3, <2>1, <3>1, <4>2
      <4>3. QED
        BY <1>3, <4>1, <4>2
    <3>3. QED
      BY <1>6, <3>1, <3>2 DEF Right, Desk, ClearCache
  <2>2. ShownInv'
    BY <1>6, <2>1 DEF ShownInv, ClearCache, Empty
  <2>3. QED
    BY <1>3, <1>4, <2>2
<1>7. QED
  BY <1>5, <1>6

LEMMA RenewKeeps ==
    ASSUME PluginInv, NEW g \in DOMAIN hosts, Renew(g)
    PROVE  PluginInv'
<1>1. TypeOK /\ ChainInv /\ LinkInv /\ InOrder /\ (NotStopped => ShownInv) /\ UNCHANGED <<chain, clients, failing, asked, desk, away, spent, owed>>
      /\ g \in handles /\ (ClearCache \/ KeepCache) /\ stalled' = FALSE /\ Feed(g)
      /\ jobs' = jobs /\ client' = client /\ hosts' = hosts /\ handles' = handles /\ (NotStopped' => NotStopped)
  BY DEF PluginInv, Renew, chain, clients, NotStopped
<1>2. g = client /\ client \in DOMAIN hosts /\ Feed(client) /\ client \in handles'
  BY <1>1, NothingLeaksIs DEF TypeOK
<1>3. cache' \in [Params -> (Hosts \X Nat) \cup {None}] /\ blind' \subseteq Params
  BY <1>1, ClearTypes DEF KeepCache, TypeOK
<1>4. TypeOK'
  BY <1>1, <1>2, <1>3, FeedTypes DEF TypeOK, Messages, chain, clients
<1>5. LinkInv' /\ InOrder' /\ (ShownInv => ShownInv')
  BY <1>1, <1>2, FeedKeeps
<1>6. QED
  BY <1>1, <1>4, <1>5, ChainStays DEF PluginInv

\* A console that changes some parameters tells the client, if it feeds one; if not, what was held of them is noted as missed.
Speaks(h, ps, more) ==
    /\ UNCHANGED <<chain, clients, failing, cache, asked, away, fed, stalled>> /\ spent' \in Nat /\ owed' \subseteq owed
    /\ desk' \in [Hosts -> [Params -> Nat]]
    /\ \A g \in Hosts : \A p \in Params : desk[g][p] <= desk'[g][p] /\ (g # h \/ p \notin ps => desk'[g][p] = desk[g][p])
    /\ wire' = wire \o more
    /\ \A k \in DOMAIN more : OfClient(more[k]) /\ \A p \in DOMAIN more[k].values : more[k].values[p] = desk'[hosts[client]][p]
    /\ blind' = IF Hears(h) THEN blind ELSE blind \cup (ps \cap Held(h))
    /\ Hears(h) => \A p \in ps : \E k \in DOMAIN more : more[k].path \in {p, "scene"}

LEMMA SpeaksKeeps ==
    ASSUME PluginInv, NEW h \in Hosts, NEW ps \in SUBSET Params, NEW more \in Seq(Messages), Speaks(h, ps, more)
    PROVE  PluginInv'
<1> USE DEF Speaks
<1>1. /\ TypeOK /\ ChainInv /\ LinkInv /\ InOrder /\ (NotStopped => ShownInv)
      /\ jobs' = jobs /\ client' = client /\ hosts' = hosts /\ handles' = handles /\ cache' = cache /\ (NotStopped' => NotStopped)
  BY DEF PluginInv, chain, clients, NotStopped
<1>2. \A g \in Hosts : \A p \in Params : desk[g][p] <= desk'[g][p]
  OBVIOUS
<1>3. /\ wire' \in Seq(Messages) /\ (\A i \in DOMAIN wire' : OfClient(wire[i])') /\ InOrder' /\ (\A i \in DOMAIN wire : i \in DOMAIN wire' /\ wire'[i] = wire[i])
      /\ (\A k \in DOMAIN more : Len(wire) + k \in DOMAIN wire' /\ wire'[Len(wire) + k] = more[k])
      /\ \A i \in DOMAIN wire' : i \in DOMAIN wire \/ \E k \in DOMAIN more : i = Len(wire) + k
  BY <1>1, <1>2, WireGrows
<1>4. TypeOK'
  BY <1>1, <1>3 DEF TypeOK, Messages, chain, clients
<1>5. LinkInv'
  BY <1>1, <1>3 DEF LinkInv
<1>6. ASSUME ShownInv PROVE ShownInv'
  <2>1. \A k \in DOMAIN more : \A p \in DOMAIN more[k].values : more[k].values[p] = Desk(p)'
    BY <1>1 DEF Desk
  <2>2. ASSUME NEW p \in Params, p \in blind \/ desk'[hosts[client]][p] # Desk(p)
        PROVE  \/ p \in blind'
               \/ client \in handles' /\ \E k \in DOMAIN more : more[k].path \in {p, "scene"}
               \/ cache[p] = None /\ \A i \in DOMAIN wire : p \notin DOMAIN wire[i].values
    <3>1. CASE client = 0
      <4>1. cache[p] = None /\ DOMAIN wire = {}
        BY <1>1, <1>6, <3>1, Quiet DEF ShownInv, Empty
      <4>2. QED
        BY <4>1
    <3>2. CASE p \in blind
      BY <3>2
    <3>3. CASE client # 0 /\ desk'[hosts[client]][p] # Desk(p)
      <4>1. hosts[client] \in Hosts
        BY <1>1, <3>3 DEF TypeOK
      <4>2. hosts[client] = h /\ p \in ps
        BY <3>3, <4>1 DEF Desk
      <4>3. CASE Hears(h)
        BY <1>1, <4>2, <4>3 DEF LinkInv, Hears
      <4>4. CASE ~Hears(h) /\ p \notin Held(h)
        BY <1>1, <1>6, <4>2, <4>4 DEF Held, ShownInv, LinkInv, OfClient
      <4>5. QED
        BY <4>2, <4>3, <4>4
    <3>4. QED
      BY <2>2, <3>1, <3>2, <3>3
  <2>3. wire' = wire \o more /\ UNCHANGED <<client, hosts, cache>> /\ (client \in handles => client \in handles')
    BY <1>1
  <2>4. QED
    BY <1>1, <1>3, <1>6, <2>1, <2>2, <2>3, RightGrows
<1>7. QED
  BY <1>1, <1>3, <1>4, <1>5, <1>6, ChainStays DEF PluginInv

LEMMA OneMore ==
    ASSUME TypeOK, NEW m \in Messages
    PROVE  /\ Append(wire, m) = wire \o <<m>> /\ <<m>> \in Seq(Messages) /\ DOMAIN <<m>> = {1} /\ <<m>>[1] = m
           /\ wire \o << >> = wire /\ << >> \in Seq(Messages) /\ DOMAIN << >> = {}
<1>1. wire \in Seq(Messages)
  BY DEF TypeOK
<1>2. Append(wire, m) = wire \o <<m>>
  BY <1>1, AppendIsConcat
<1>3. QED
  BY <1>1, <1>2

\* The console feeds nobody but the client.
LEMMA HearsIs ==
    ASSUME TypeOK, LinkInv, NEW h \in Hosts, Hears(h)
    PROVE  fed = client /\ client \in DOMAIN hosts /\ hosts[client] = h
<1>1. fed = client /\ client # 0 /\ hosts[client] = h
  BY DEF Hears, LinkInv
<1>2. QED
  BY <1>1 DEF TypeOK

LEMMA ChangeKeeps ==
    ASSUME PluginInv, NEW h \in Hosts, NEW p \in Params, Change(h, p)
    PROVE  PluginInv'
<1>1. /\ TypeOK /\ LinkInv /\ UNCHANGED <<chain, clients, failing, cache, asked, away, fed, stalled>> /\ owed' \subseteq owed
      /\ spent' = spent + 1 /\ desk' = [desk EXCEPT ![h][p] = @ + 1] /\ blind' = IF Hears(h) THEN blind ELSE blind \cup ({p} \cap Held(h))
  BY DEF PluginInv, Change, Spend
<1>2. desk \in [Hosts -> [Params -> Nat]] /\ spent' \in Nat
  BY <1>1 DEF TypeOK
<1>3. /\ desk' \in [Hosts -> [Params -> Nat]] /\ desk'[h][p] = desk[h][p] + 1
      /\ \A g \in Hosts : \A q \in Params : desk[g][q] <= desk'[g][q] /\ (g # h \/ q \notin {p} => desk'[g][q] = desk[g][q])
  <2>1. \A g \in Hosts : g # h => desk'[g] = desk[g]
    BY <1>1, <1>2
  <2>2. desk'[h] = [desk[h] EXCEPT ![p] = @ + 1] /\ desk[h] \in [Params -> Nat]
    BY <1>1, <1>2
  <2>3. desk'[h] \in [Params -> Nat] /\ desk'[h][p] = desk[h][p] + 1 /\ \A q \in Params : q # p => desk'[h][q] = desk[h][q]
    BY <2>2
  <2>4. DOMAIN desk' = Hosts /\ desk' = [g \in Hosts |-> desk'[g]]
    BY <1>1, <1>2
  <2>5. \A g \in Hosts : desk'[g] \in [Params -> Nat]
    BY <1>2, <2>1, <2>3
  <2>6. desk' \in [Hosts -> [Params -> Nat]]
    BY <2>4, <2>5
  <2>7. \A g \in Hosts : \A q \in Params : desk[g][q] \in Nat
    BY <1>2
  <2>8. QED
    BY <2>1, <2>3, <2>6, <2>7
<1>4. PICK ps \in SUBSET Params : ps = {p}
  OBVIOUS
<1>5. /\ blind' = IF Hears(h) THEN blind ELSE blind \cup (ps \cap Held(h))
      /\ \A g \in Hosts : \A q \in Params : desk[g][q] <= desk'[g][q] /\ (g # h \/ q \notin ps => desk'[g][q] = desk[g][q])
  BY <1>1, <1>3, <1>4
<1>6. CASE Hears(h)
  <2>1. PICK values : values = [x \in {p} |-> desk[h][x] + 1]
    OBVIOUS
  <2>2. PICK m : m = Message(fed, p, h, values)
    OBVIOUS
  <2>3. fed = client /\ client \in DOMAIN hosts /\ hosts[client] = h
    BY <1>1, <1>6, HearsIs
  <2>4. values \in [{p} -> Nat] /\ values[p] = desk'[h][p] /\ values = [x \in {p} |-> desk[h][p] + 1]
    BY <1>2, <1>3, <2>1
  <2>5. wire' = Append(wire, m)
    <3>1. m = Message(fed, p, h, [x \in {p} |-> desk[h][p] + 1])
      BY <2>2, <2>4
    <3>2. QED
      BY <1>6, <3>1 DEF Change
  <2>6. m \in Messages
    BY <1>4, <2>2, <2>3, <2>4, MessageIs
  <2>7. m.path = p /\ OfClient(m) /\ \A q \in DOMAIN m.values : m.values[q] = desk'[hosts[client]][q]
    <3>1. m.to = client /\ m.path = p /\ m.host = h /\ m.values = values
      BY <2>2, <2>3 DEF Message
    <3>2. DOMAIN values = {p} /\ p \notin {"scene", "strip", "ack"}
      BY <2>4, PluginAssumption
    <3>3. QED
      BY <2>3, <2>4, <3>1, <3>2 DEF OfClient
  <2>8. PICK more \in Seq(Messages) : more = <<m>> /\ wire' = wire \o more /\ DOMAIN more = {1} /\ more[1] = m
    BY <1>1, <2>5, <2>6, OneMore
  <2>9. \A k \in DOMAIN more : OfClient(more[k]) /\ \A q \in DOMAIN more[k].values : more[k].values[q] = desk'[hosts[client]][q]
    BY <2>7, <2>8
  <2>10. \A q \in ps : \E k \in DOMAIN more : more[k].path \in {q, "scene"}
    BY <1>4, <2>7, <2>8
  <2>11. Speaks(h, ps, more)
    BY <1>1, <1>2, <1>3, <1>5, <2>8, <2>9, <2>10 DEF Speaks
  <2>12. QED
    BY <2>11, SpeaksKeeps
<1>7. CASE ~Hears(h)
  <2>0. << >> \in Seq(Messages)
    OBVIOUS
  <2>1. PICK more \in Seq(Messages) : more = << >>
    BY <2>0
  <2>2. wire' = wire \o more /\ DOMAIN more = {}
    BY <1>1, <1>7, <2>1 DEF Change, TypeOK
  <2>3. Speaks(h, ps, more)
    BY <1>1, <1>2, <1>3, <1>5, <1>7, <2>2 DEF Speaks
  <2>4. QED
    BY <2>3, SpeaksKeeps
<1>8. QED
  BY <1>6, <1>7

\* A message of values read now, to the client from its console.
LEMMA ReadNow ==
    ASSUME TypeOK, client \in DOMAIN hosts, NEW path \in Params \cup {"strip", "scene", "ack"}, NEW ps \in SUBSET Params,
           path \in Params => ps = {path}, path = "strip" => ps = Params \ {"name"}, path \in {"scene", "ack"} => ps = {},
           NEW m, m = Message(client, path, hosts[client], Now(hosts[client], ps))
    PROVE  m \in Messages /\ OfClient(m) /\ m.path = path /\ DOMAIN m.values = ps /\ \A q \in ps : m.values[q] = desk[hosts[client]][q]
<1>1. PICK h \in Hosts : h = hosts[client]
  BY DEF TypeOK
<1>2. PICK values \in [ps -> Nat] : values = Now(h, ps) /\ \A p \in ps : values[p] = desk[h][p]
  BY NowIs
<1>3. m \in Messages
  BY <1>1, <1>2, MessageIs
<1>4. m.to = client /\ m.host = h /\ m.path = path /\ m.values = values
  BY <1>1, <1>2 DEF Message
<1>5. OfClient(m)
  BY <1>1, <1>2, <1>4, PluginAssumption DEF OfClient
<1>6. QED
  BY <1>1, <1>2, <1>3, <1>4, <1>5

LEMMA RewrittenIs ==
    ASSUME TypeOK, NEW h \in Hosts
    PROVE  /\ Rewritten(h) \in [Hosts -> [Params -> Nat]]
           /\ \A g \in Hosts : \A p \in Params : desk[g][p] <= Rewritten(h)[g][p] /\ (g # h => Rewritten(h)[g][p] = desk[g][p])
<1>1. desk \in [Hosts -> [Params -> Nat]] /\ desk[h] \in [Params -> Nat]
  BY DEF TypeOK
<1>2. PICK row : row = [p \in Params |-> desk[h][p] + 1]
  OBVIOUS
<1>3. row \in [Params -> Nat] /\ \A p \in Params : row[p] = desk[h][p] + 1
  BY <1>1, <1>2
<1>4. Rewritten(h) = [desk EXCEPT ![h] = row]
  BY <1>1, <1>2 DEF Rewritten
<1>5. Rewritten(h) \in [Hosts -> [Params -> Nat]] /\ Rewritten(h)[h] = row /\ \A g \in Hosts : g # h => Rewritten(h)[g] = desk[g]
  BY <1>1, <1>3, <1>4
<1>6. \A g \in Hosts : \A p \in Params : desk[g][p] \in Nat
  BY <1>1
<1>7. QED
  BY <1>3, <1>5, <1>6

LEMMA SceneIs ==
    ASSUME TypeOK, LinkInv, NEW h \in Hosts, Hears(h), NEW m, m = SceneLoaded(h)
    PROVE  m \in Messages /\ OfClient(m) /\ m.path = "scene" /\ DOMAIN m.values = {}
<1>1. fed = client /\ client \in DOMAIN hosts /\ hosts[client] = h
  BY HearsIs
<1>2. PICK ps \in SUBSET Params : ps = {}
  OBVIOUS
<1>3. PICK path \in Params \cup {"strip", "scene", "ack"} : path = "scene" /\ path \notin Params
  BY PluginAssumption
<1>4. m = Message(client, path, hosts[client], Now(hosts[client], ps))
  BY <1>1, <1>2, <1>3 DEF SceneLoaded
<1>5. QED
  BY <1>1, <1>2, <1>3, <1>4, ReadNow

LEMMA LoadSceneKeeps ==
    ASSUME PluginInv, NEW h \in Hosts, LoadScene(h)
    PROVE  PluginInv'
<1>1. /\ TypeOK /\ LinkInv /\ UNCHANGED <<chain, clients, failing, cache, asked, away, fed, stalled>> /\ owed' \subseteq owed
      /\ spent' \in Nat /\ desk' = Rewritten(h) /\ blind' = IF Hears(h) THEN blind ELSE blind \cup Held(h)
  BY DEF PluginInv, LoadScene, Spend, TypeOK
<1>2. /\ desk' \in [Hosts -> [Params -> Nat]]
      /\ \A g \in Hosts : \A p \in Params : desk[g][p] <= desk'[g][p] /\ (g # h => desk'[g][p] = desk[g][p])
  BY <1>1, RewrittenIs
<1>3. PICK ps \in SUBSET Params : ps = Params
  OBVIOUS
<1>4. ps \cap Held(h) = Held(h)
  BY <1>3 DEF Held
<1>5. CASE Hears(h)
  <2>1. PICK m \in Messages : m = SceneLoaded(h) /\ OfClient(m) /\ m.path = "scene" /\ DOMAIN m.values = {}
    BY <1>1, <1>5, SceneIs
  <2>2. PICK more \in Seq(Messages) : more = <<m>> /\ wire' = wire \o more /\ DOMAIN more = {1} /\ more[1] = m
    BY <1>1, <1>5, <2>1, OneMore DEF LoadScene
  <2>3. Speaks(h, ps, more)
    BY <1>1, <1>2, <1>3, <1>4, <1>5, <2>1, <2>2 DEF Speaks
  <2>4. QED
    BY <2>3, SpeaksKeeps
<1>6. CASE ~Hears(h)
  <2>0. << >> \in Seq(Messages)
    OBVIOUS
  <2>1. PICK more \in Seq(Messages) : more = << >>
    BY <2>0
  <2>2. wire' = wire \o more /\ DOMAIN more = {}
    BY <1>1, <1>6, <2>1 DEF LoadScene, TypeOK
  <2>3. Speaks(h, ps, more)
    BY <1>1, <1>2, <1>3, <1>4, <1>6, <2>2 DEF Speaks
  <2>4. QED
    BY <2>3, SpeaksKeeps
<1>7. QED
  BY <1>5, <1>6

LEMMA AnswerKeeps ==
    ASSUME PluginInv, NEW g \in DOMAIN hosts, NEW path \in {"name", "strip", "ack"}, Answer(g, path)
    PROVE  PluginInv'
<1>1. /\ TypeOK /\ LinkInv /\ <<g, path>> \in owed /\ owed' \subseteq owed
      /\ UNCHANGED <<chain, clients, failing, cache, asked, away, fed, stalled>>
  BY DEF PluginInv, Answer
<1>2. g = client /\ client \in DOMAIN hosts
  BY <1>1 DEF LinkInv
<1>3. PICK h \in Hosts : h = hosts[client]
  BY <1>1, <1>2 DEF TypeOK
<1>4. "name" \in Params /\ "strip" \notin Params /\ "ack" \notin Params /\ "scene" \notin Params
  BY PluginAssumption
<1>5. PICK read \in SUBSET Params : read = IF path = "name" THEN {"name"} ELSE IF path = "strip" THEN Params \ {"name"} ELSE {}
  BY <1>4
<1>6. PICK m : m = Message(client, path, hosts[client], Now(hosts[client], read))
  OBVIOUS
<1>7. m \in Messages /\ OfClient(m) /\ m.path = path /\ DOMAIN m.values = read /\ \A q \in read : m.values[q] = desk[hosts[client]][q]
  <2>1. path \in Params \cup {"strip", "scene", "ack"}
    BY <1>4
  <2>2. (path \in Params => read = {path}) /\ (path = "strip" => read = Params \ {"name"}) /\ (path \in {"scene", "ack"} => read = {})
    BY <1>4, <1>5
  <2>3. QED
    BY <1>1, <1>2, <1>6, <2>1, <2>2, ReadNow
<1>8. [name |-> {"name"}, strip |-> Params \ {"name"}, ack |-> {}][path] = read
  BY <1>5
<1>9. CASE path # "ack"
  <2>1. wire' = Append(wire, m) /\ UNCHANGED <<desk, spent, blind>>
    BY <1>2, <1>6, <1>8, <1>9 DEF Answer
  <2>2. PICK more \in Seq(Messages) : more = <<m>> /\ wire' = wire \o more /\ DOMAIN more = {1} /\ more[1] = m
    BY <1>1, <1>7, <2>1, OneMore
  <2>3. PICK ps \in SUBSET Params : ps = {}
    OBVIOUS
  <2>4. spent' \in Nat /\ desk' \in [Hosts -> [Params -> Nat]] /\ \A x \in Hosts : \A p \in Params : desk[x][p] <= desk'[x][p]
    BY <1>1, <2>1 DEF TypeOK
  <2>5. Speaks(h, ps, more)
    BY <1>1, <1>7, <2>1, <2>2, <2>3, <2>4 DEF Speaks
  <2>6. QED
    BY <2>5, SpeaksKeeps
<1>10. CASE path = "ack"
  <2>1. /\ desk' = Rewritten(h) /\ blind' = (IF Hears(h) THEN blind ELSE blind \cup Held(h)) /\ spent' \in Nat
        /\ wire' = (IF Hears(h) THEN Append(wire, SceneLoaded(h)) ELSE wire) \o <<m>>
    <3>1. /\ Spend /\ desk' = Rewritten(h) /\ blind' = (IF Hears(h) THEN blind ELSE blind \cup Held(h))
          /\ wire' = (IF Hears(h) THEN Append(wire, SceneLoaded(h)) ELSE wire) \o <<m>>
      BY <1>2, <1>3, <1>6, <1>8, <1>10 DEF Answer
    <3>2. spent' \in Nat
      BY <1>1, <3>1 DEF Spend, TypeOK
    <3>3. QED
      BY <3>1, <3>2
  <2>2. /\ desk' \in [Hosts -> [Params -> Nat]]
        /\ \A x \in Hosts : \A p \in Params : desk[x][p] <= desk'[x][p] /\ (x # h => desk'[x][p] = desk[x][p])
    BY <1>1, <2>1, RewrittenIs
  <2>3. PICK ps \in SUBSET Params : ps = Params
    OBVIOUS
  <2>4. ps \cap Held(h) = Held(h)
    BY <2>3 DEF Held
  <2>5. DOMAIN m.values = {}
    BY <1>5, <1>7, <1>10
  <2>6. CASE Hears(h)
    <3>1. PICK s \in Messages : s = SceneLoaded(h) /\ OfClient(s) /\ s.path = "scene" /\ DOMAIN s.values = {}
      BY <1>1, <2>6, SceneIs
    <3>2. wire \in Seq(Messages) /\ m \in Messages
      BY <1>1, <1>7 DEF TypeOK
    <3>3. <<s, m>> \in Seq(Messages)
      BY <3>1, <3>2
    <3>4. PICK more \in Seq(Messages) : more = <<s, m>>
      BY <3>3
    <3>5. DOMAIN more = {1, 2} /\ more[1] = s /\ more[2] = m
      BY <3>4
    <3>6. wire' = wire \o more
      <4>1. Append(wire, s) \o <<m>> = wire \o <<s, m>>
        BY <3>1, <3>2
      <4>2. QED
        BY <2>1, <2>6, <3>1, <3>4, <4>1
    <3>7. Speaks(h, ps, more)
      BY <1>1, <1>7, <2>1, <2>2, <2>3, <2>4, <2>5, <2>6, <3>1, <3>5, <3>6 DEF Speaks
    <3>8. QED
      BY <3>7, SpeaksKeeps
  <2>7. CASE ~Hears(h)
    <3>1. PICK more \in Seq(Messages) : more = <<m>> /\ wire' = wire \o more /\ DOMAIN more = {1} /\ more[1] = m
      BY <1>1, <1>7, <2>1, <2>7, OneMore
    <3>2. Speaks(h, ps, more)
      BY <1>1, <1>7, <2>1, <2>2, <2>3, <2>4, <2>5, <2>7, <3>1 DEF Speaks
    <3>3. QED
      BY <3>2, SpeaksKeeps
  <2>8. QED
    BY <2>6, <2>7
<1>11. QED
  BY <1>9, <1>10

\* What is lost when a console goes away was on its way to the client, and is noted.
LEMMA GoAwayKeeps ==
    ASSUME PluginInv, NEW h \in Hosts, GoAway(h)
    PROVE  PluginInv'
<1>1. /\ TypeOK /\ ChainInv /\ LinkInv /\ InOrder /\ (NotStopped => ShownInv) /\ UNCHANGED <<chain, clients, failing, cache, asked, desk, stalled>>
      /\ jobs' = jobs /\ client' = client /\ hosts' = hosts /\ handles' = handles /\ (NotStopped' => NotStopped)
      /\ away' = away \cup {h} /\ spent' \in Nat /\ fed' \in {0, fed} /\ owed' \subseteq owed
      /\ wire' = IF ToHost(client, h) THEN << >> ELSE wire
      /\ blind' = IF ToHost(client, h) /\ (wire' # wire \/ owed' # owed) THEN blind \cup Held(h) ELSE blind
  BY DEF PluginInv, GoAway, Spend, chain, clients, NotStopped, TypeOK
<1>2. wire' \in Seq(Messages) /\ \A i \in DOMAIN wire' : i \in DOMAIN wire /\ wire'[i] = wire[i]
  BY <1>1 DEF TypeOK
<1>3. TypeOK'
  <2>1. /\ UNCHANGED <<stored, config, open, timers, timer, handle, failing, cache, asked, desk, stalled>>
        /\ UNCHANGED <<jobs, client, hosts, handles>>
    BY <1>1 DEF chain, clients
  <2>2. Messages' = Messages
    BY <2>1 DEF Messages
  <2>3. blind' \subseteq Params
    BY <1>1 DEF TypeOK, Held
  <2>4. away' \subseteq Hosts /\ spent' \in Nat /\ fed' \in 0 .. Len(hosts) /\ owed' \subseteq (DOMAIN hosts) \X {"name", "strip", "ack"}
    BY <1>1 DEF TypeOK
  <2>5. QED
    BY <1>1, <1>2, <2>1, <2>2, <2>3, <2>4 DEF TypeOK
<1>4. LinkInv'
  <2>1. ASSUME NEW i \in DOMAIN wire' PROVE OfClient(wire[i])'
    <3>1. PICK m : m = wire'[i] /\ OfClient(m)
      BY <1>1, <1>2 DEF LinkInv
    <3>2. QED
      BY <1>1, <3>1 DEF OfClient
  <2>2. QED
    BY <1>1, <2>1 DEF LinkInv
<1>5. InOrder'
  BY <1>1, <1>2 DEF InOrder
<1>6. ASSUME ShownInv PROVE ShownInv'
  <2>1. CASE wire' = wire
    BY <1>1, <1>6, <2>1 DEF ShownInv, Right, Desk
  <2>2. CASE wire' # wire
    <3>1. ToHost(client, h) /\ wire' = << >> /\ DOMAIN wire' = {} /\ blind' = blind \cup Held(h) /\ client # 0 /\ hosts[client] = h
      BY <1>1, <2>2 DEF ToHost
    <3>2. \A p \in Params : cache[p] # None => cache[p][1] = h /\ p \in Held(h)
      BY <1>6, <3>1 DEF ShownInv, Held
    <3>3. QED
      BY <1>1, <3>1, <3>2 DEF ShownInv, Right
  <2>3. QED
    BY <2>1, <2>2
<1>7. QED
  BY <1>1, <1>3, <1>4, <1>5, <1>6, ChainStays DEF PluginInv

-----------------------------------------------------------------------------
(* The chain's steps, and what is on the way.                               *)

LEMMA EnqueueKeeps ==
    ASSUME PluginInv, NEW kind \in {"start", "set", "stop"}, NEW conf \in Configs, NEW patch \in Patches \cup {None},
           kind = "start" => jobs = << >>, kind # "start" => jobs # << >>, NotStopped, Enqueue(kind, conf, patch)
    PROVE  PluginInv'
<1>1. /\ TypeOK /\ ChainInv /\ LinkInv /\ InOrder /\ ShownInv
      /\ UNCHANGED <<stored, config, clients, failing, cache, asked, console, owed, wire, stalled, blind>>
  BY DEF PluginInv, Enqueue
<1>2. TypeOK' /\ ChainInv'
  BY <1>1, EnqueueChain
<1>3. LinkInv' /\ InOrder' /\ ShownInv'
  BY <1>1, DataStays DEF clients, console
<1>4. QED
  BY <1>2, <1>3 DEF PluginInv

LEMMA StopGoesOn ==
    ASSUME TypeOK, NEW j \in DOMAIN jobs, Step(j)
    PROVE  NotStopped' => NotStopped
<1>1. CASE \E at \in {"saving", "bridging", "closing", "connecting", "warming", "done", "failed"} : Goes(j, at)
  <2>1. Moves(j)
    BY <1>1, GoesMoves
  <2>2. DOMAIN jobs' = DOMAIN jobs
    BY <2>1 DEF Moves, TypeOK
  <2>3. \A i \in DOMAIN jobs : jobs'[i].kind = jobs[i].kind
    BY <2>1 DEF Moves
  <2>4. QED
    BY <2>2, <2>3 DEF NotStopped
<1>2. CASE jobs' = [jobs EXCEPT ![j].at = "saving", ![j].prev = config]
  <2>1. PICK job : job = [jobs[j] EXCEPT !.at = "saving", !.prev = config]
    OBVIOUS
  <2>2. jobs' = [jobs EXCEPT ![j] = job] /\ job.kind = jobs[j].kind
    BY <1>2, <2>1, JobHas DEF Job
  <2>3. DOMAIN jobs' = DOMAIN jobs /\ \A i \in DOMAIN jobs : jobs'[i].kind = jobs[i].kind
    BY <2>2
  <2>4. QED
    BY <2>3 DEF NotStopped
<1>3. QED
  BY <1>1, <1>2 DEF Step, Begin, Saved, SaveFails, Bridged, Closed, Connected, Subscribe, Connect

\* stop() ends with a closing that leaves the cache as it is: nobody reads it then.
LEMMA StepData ==
    ASSUME TypeOK, ChainInv, LinkInv, InOrder, NEW j \in DOMAIN jobs, Step(j)
    PROVE  LinkInv' /\ InOrder' /\ (NotStopped' /\ ShownInv => ShownInv')
<1>1. JobInv(j) /\ (NotStopped' => NotStopped)
  BY StopGoesOn DEF ChainInv
<1>2. ASSUME UNCHANGED <<clients, failing, cache, asked, console, owed, wire, stalled, blind>>
      PROVE  LinkInv' /\ InOrder' /\ (ShownInv => ShownInv')
  BY <1>2, DataStays DEF clients, console
<1>3. ASSUME Gone, UNCHANGED <<handles, cache, asked, console, owed, wire, blind>>
      PROVE  LinkInv' /\ InOrder' /\ (ShownInv => ShownInv')
  BY <1>3, ConnectData DEF Gone, console
<1>4. CASE Begin(j)
  <2>1. CASE jobs[j].kind = "stop" /\ Disconnect
    BY <1>1, <2>1, DisconnectData DEF NotStopped
  <2>2. QED
    BY <1>2, <1>4, <2>1 DEF Begin
<1>5. CASE Saved(j) \/ SaveFails(j)
  BY <1>2, <1>5 DEF Saved, SaveFails
<1>6. CASE Bridged(j)
  <2>1. CASE jobs[j].kind = "start" /\ UNCHANGED <<handles, cache, asked, console, owed, wire, blind>>
    <3>1. Gone
      BY <1>1, <1>6, <2>1 DEF Bridged, JobInv, Serves
    <3>2. QED
      BY <1>3, <2>1, <3>1
  <2>2. CASE ClearCache /\ Disconnect
    BY <2>2, DisconnectData DEF ClearCache
  <2>3. QED
    BY <1>2, <1>6, <2>1, <2>2 DEF Bridged
<1>7. CASE Closed(j)
  <2>1. Gone /\ UNCHANGED <<handles, cache, asked, console, owed, wire, blind>>
    BY <1>1, <1>7 DEF Closed, JobInv
  <2>2. QED
    BY <1>3, <2>1
<1>8. CASE Connected(j)
  <2>1. /\ client \in DOMAIN hosts /\ UNCHANGED <<client, hosts, handles, cache, wire, fed, desk, blind>>
        /\ (\A r \in Readers : asked'[r] \in {0, client}) /\ \A q \in owed' : q[1] = client
    <3>1. client \in DOMAIN hosts /\ asked \in [Readers -> 0 .. Len(hosts)]
      BY <1>1, <1>8 DEF Connected, JobInv, TypeOK
    <3>2. CASE asked' = [asked EXCEPT !["dump"] = client] /\ (owed' = owed \/ owed' = owed \cup {<<client, "strip">>})
      BY <1>8, <3>1, <3>2 DEF Connected, LinkInv, console
    <3>3. CASE UNCHANGED <<asked, owed>>
      BY <1>8, <3>1, <3>3 DEF Connected, LinkInv, console
    <3>4. QED
      BY <1>8, <3>2, <3>3 DEF Connected
  <2>2. LinkInv'
    <3>1. \A i \in DOMAIN wire : OfClient(wire[i])'
      BY <2>1 DEF LinkInv, OfClient
    <3>2. QED
      BY <2>1, <3>1 DEF LinkInv
  <2>3. InOrder' /\ (ShownInv => ShownInv')
    BY <2>1 DEF InOrder, ShownInv, Right, Desk
  <2>4. QED
    BY <2>2, <2>3
<1>9. CASE Subscribe(j)
  <2>1. client \in DOMAIN hosts
    BY <1>1, <1>9 DEF Subscribe, JobInv, TypeOK
  <2>2. Feed(client) /\ client \in handles' /\ KeepCache /\ UNCHANGED <<client, hosts, asked, owed, desk>>
    BY <1>9 DEF Subscribe, KeepCache
  <2>3. QED
    BY <2>1, <2>2, FeedKeeps
<1>10. QED
  BY <1>4, <1>5, <1>6, <1>7, <1>8, <1>9 DEF Step

LEMMA StepKeeps ==
    ASSUME PluginInv, NEW j \in DOMAIN jobs, Step(j)
    PROVE  PluginInv'
<1>1. TypeOK /\ ChainInv /\ LinkInv /\ InOrder /\ (NotStopped => ShownInv)
  BY DEF PluginInv
<1>2. TypeOK' /\ ChainInv'
  BY <1>1, BeginChain, SavedChain, BridgedChain, ClosedChain, ConnectedChain, SubscribeChain DEF Step
<1>3. LinkInv' /\ InOrder' /\ (NotStopped' /\ ShownInv => ShownInv') /\ (NotStopped' => NotStopped)
  BY <1>1, StepData, StopGoesOn
<1>4. QED
  BY <1>1, <1>2, <1>3 DEF PluginInv

-----------------------------------------------------------------------------
(* The plugin as a whole.                                                   *)

LEMMA PluginInvInit ==
    ASSUME Init
    PROVE  PluginInv
<1>1. << >> \in Seq(Job) /\ << >> \in Seq(Hosts) /\ << >> \in Seq(Messages) /\ DOMAIN << >> = {} /\ Len(<< >>) = 0
  OBVIOUS
<1>2. TypeOK
  <2>1. hosts = << >> /\ Len(hosts) = 0 /\ DOMAIN hosts = {} /\ 0 \in 0 .. Len(hosts)
    BY <1>1 DEF Init
  <2>2. jobs \in Seq(Job) /\ Len(jobs) <= MaxJobs /\ wire \in Seq(Messages) /\ hosts \in Seq(Hosts)
    BY <1>1, PluginAssumption DEF Init
  <2>3. asked \in [Readers -> 0 .. Len(hosts)] /\ cache \in [Params -> (Hosts \X Nat) \cup {None}] /\ desk \in [Hosts -> [Params -> Nat]]
    BY <2>1 DEF Init, Empty
  <2>4. QED
    BY <2>1, <2>2, <2>3 DEF Init, TypeOK
<1>3. ChainInv
  BY <1>1 DEF Init, ChainInv, OneAtATime, StopIsLast, Serves, Gone
<1>4. LinkInv /\ InOrder /\ ShownInv
  BY <1>1 DEF Init, LinkInv, InOrder, ShownInv, Empty
<1>5. QED
  BY <1>2, <1>3, <1>4 DEF PluginInv

LEMMA PluginInvNext ==
    ASSUME PluginInv, [Next]_vars
    PROVE  PluginInv'
<1>1. TypeOK /\ ChainInv /\ LinkInv /\ InOrder /\ (NotStopped => ShownInv)
  BY DEF PluginInv
<1>2. Current \in Configs
  BY <1>1 DEF Current, NotConfigured, Configs, TypeOK
<1>3. Running => jobs # << >> /\ NotStopped
  BY DEF Running, NotStopped
<1>4. None \in Patches \cup {None} /\ NotConfigured \in Configs
  BY DEF NotConfigured, Configs
<1>5. CASE Stop
  BY <1>3, <1>4, <1>5, EnqueueKeeps DEF Stop
<1>6. ASSUME NEW h \in Hosts \cup {NoHost}, Start(h) \/ SetConfig(h) PROVE PluginInv'
  <2>1. [host |-> h, on |-> {}] \in Configs /\ [Current EXCEPT !.host = h] \in Configs
    BY <1>2 DEF Configs
  <2>2. CASE Start(h)
    <3>1. jobs = << >> /\ NotStopped
      BY <2>2 DEF Start, NotStopped
    <3>2. QED
      BY <1>4, <2>1, <2>2, <3>1, EnqueueKeeps DEF Start
  <2>3. CASE SetConfig(h)
    BY <1>3, <1>4, <2>1, <2>3, EnqueueKeeps DEF SetConfig
  <2>4. QED
    BY <1>6, <2>2, <2>3
<1>7. ASSUME NEW p \in Patches, UpdateConfig(p) PROVE PluginInv'
  <2>1. [Current EXCEPT !.on = @ \cup {p}] \in Configs
    BY <1>2 DEF Configs
  <2>2. QED
    BY <1>3, <1>7, <2>1, EnqueueKeeps DEF UpdateConfig
<1>8. ASSUME NEW g \in DOMAIN hosts, NEW r \in Readers, Answer(g, Address(r)) PROVE PluginInv'
  <2>1. Address(r) \in {"name", "strip", "ack"}
    BY DEF Address, Readers
  <2>2. QED
    BY <1>8, <2>1, AnswerKeeps
<1>9. CASE UNCHANGED vars
  <2>1. UNCHANGED <<chain, clients, failing, cache, asked, console, owed, wire, stalled, blind>>
    BY <1>9 DEF vars
  <2>2. TypeOK'
    BY <1>1, <2>1 DEF TypeOK, Messages, chain, clients, console
  <2>3. LinkInv' /\ InOrder' /\ (ShownInv => ShownInv')
    BY <1>1, <2>1, DataStays DEF clients, console
  <2>4. NotStopped' => NotStopped
    BY <2>1 DEF chain, NotStopped
  <2>5. QED
    BY <1>1, <2>1, <2>2, <2>3, <2>4, ChainStays DEF PluginInv
<1>10. QED
  BY <1>5, <1>6, <1>7, <1>8, <1>9, StepKeeps, AskKeeps, BeatKeeps, RenewKeeps, HandleMessageKeeps, StallKeeps, LoadSceneKeeps, GoAwayKeeps,
     ComeBackKeeps, ChangeKeeps DEF Next

LEMMA PluginInvHolds == Spec => []PluginInv
BY PluginInvInit, PluginInvNext, PTL DEF Spec

(* Every variable of the plugin and of the consoles stays in its set,       *)
(* however many clients are made and whatever is on the way.                *)
THEOREM PluginTypes == Spec => []TypeOK
<1>1. PluginInv => TypeOK
  BY DEF PluginInv
<1>2. QED
  BY <1>1, PluginInvHolds, PTL

(* No heartbeat, subscription or socket of a replaced client stays behind;  *)
(* with the chain idle the client is connected to the configured console.   *)
THEOREM ConfigIsFollowed == Spec => []ClientsFollowConfig
<1>1. PluginInv => ClientsFollowConfig
  <2>1. SUFFICES ASSUME PluginInv PROVE ClientsFollowConfig
    OBVIOUS
  <2>2. TypeOK /\ ChainInv /\ NothingLeaks
    BY <2>1, NothingLeaksIs DEF PluginInv
  <2>3. Idle /\ Running => Serves(config)
    BY <2>2 DEF Idle, Running, Settled, ChainInv, AtRest
  <2>4. QED
    BY <2>2, <2>3 DEF ClientsFollowConfig, Serves, Gone
<1>2. QED
  BY <1>1, PluginInvHolds, PTL

(* A cached value is that of the console now connected, unless a message    *)
(* that corrects it is coming or it changed while nobody could see.         *)
THEOREM ShownIsCurrent == Spec => []CacheIsCurrent
<1>1. PluginInv => CacheIsCurrent
  <2>1. SUFFICES ASSUME PluginInv, Running, NEW p \in Params, cache[p] # None
                 PROVE  p \in blind \/ OnItsWay(p) \/ (client # 0 /\ cache[p] = Value(hosts[client], p))
    BY DEF CacheIsCurrent
  <2>2. TypeOK /\ ShownInv
    BY <2>1 DEF PluginInv, Running, NotStopped
  <2>3. client # 0 /\ cache[p] \in Hosts \X Nat /\ cache[p][1] = hosts[client] /\ Right(p, cache[p][2], 0)
    BY <2>1, <2>2 DEF ShownInv, TypeOK, Empty
  <2>4. cache[p] = <<hosts[client], cache[p][2]>>
    BY <2>3
  <2>5. CASE cache[p][2] = Desk(p)
    BY <2>3, <2>4, <2>5 DEF Value, Desk
  <2>6. CASE cache[p][2] # Desk(p)
    BY <2>3, <2>6 DEF Right, OnItsWay
  <2>7. QED
    BY <2>5, <2>6
<1>2. QED
  BY <1>1, PluginInvHolds, PTL
=============================================================================
