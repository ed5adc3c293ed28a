-------------------------- MODULE WingNativeProxy --------------------------
(***************************************************************************)
(* The native half of the tablet bridge (wing-bridge-native.ts): tablets    *)
(* share one upstream connection to the console, and the proxy walks the    *)
(* console's node tree (walkNodeMap, wing-native-node-map.ts) to know which *)
(* nodes the safe strips protect.                                           *)
(*                                                                          *)
(* The console answers what it is asked in order; it may be slow (the       *)
(* request's timer fires first) or leave a request unanswered. Tablets come *)
(* and go, the connection is lost, the safes change at any time.            *)
(*                                                                          *)
(* Abstracted: bytes, channels and WebSockets; of the tree, the root and    *)
(* the strips below it, each with the nodes below the strip as one unit.    *)
(* Values (pushes, writes, trailing reads) have no part in the pipeline's   *)
(* order but as requests, like a tablet's "data".                           *)
(***************************************************************************)
EXTENDS Integers, Sequences, FiniteSets, SequencesExt

CONSTANTS
    Tablets,        \* connections of tablets, each made at most once
    Strips,         \* nodes below the root, any of which may be made safe
    Root,
    Walker,         \* who asks when the map is walked
    Window,         \* IN_FLIGHT_WINDOW
    MaxTimeouts,    \* MAX_CONSECUTIVE_TIMEOUTS
    MaxAsks,        \* bound: requests of one tablet
    MaxChanges      \* bound: changes of the safes

ASSUME NamesAssumption == Root \notin Strips /\ Walker \notin Tablets
ASSUME LimitsAssumption ==
    /\ Window \in Nat \ {0} /\ MaxTimeouts \in Nat \ {0}
    /\ MaxAsks \in Nat /\ MaxChanges \in Nat /\ IsFiniteSet(Strips)

Nodes == {Root} \cup Strips
Requests == [by : Tablets, kind : {"def", "data"}, node : Nodes, n : 1 .. MaxAsks]
    \cup [by : {Walker}, kind : {"def"}, node : Nodes, n : {0}]

VARIABLES
    up,             \* upstream.state
    dialing,        \* upstream.connecting: "no", "pending", or "dead" if it can settle no more
    waiting,        \* upstream.waiting
    inFlight,       \* upstream.inFlight
    armed,          \* the timer of the head of inFlight runs
    timeouts,       \* consecutiveTimeouts
    owed,           \* what the console has yet to answer, in order
    tablet,         \* [tablet -> "new", "open" or "closed"]
    asked,          \* [tablet -> requests it has made]
    linger,         \* lingerTimer runs
    safes,          \* the strips opts.safety protects
    changes,
    learnt,         \* nodes whose children's definitions have all come in
    map,            \* mapState, mapStale, the walk, and the map's `complete` lists
    clean,          \* history: all was answered in time on this connection
    stray           \* history: a tablet got an answer on this connection to what it had not asked

link == <<up, dialing, linger>>
pipe == <<waiting, inFlight, armed, timeouts, owed>>
vars == <<link, pipe, tablet, asked, safes, changes, learnt, map, clean, stray>>

Open == {t \in Tablets : tablet[t] = "open"}

Init ==
    /\ up = "disconnected" /\ dialing = "no" /\ linger = FALSE
    /\ waiting = << >> /\ inFlight = << >> /\ owed = << >>
    /\ armed = FALSE /\ timeouts = 0
    /\ tablet = [t \in Tablets |-> "new"]
    /\ asked = [t \in Tablets |-> 0]
    /\ safes \in SUBSET Strips /\ changes = 0
    /\ learnt = {}
    /\ map = [state |-> "idle", stale |-> FALSE, walk |-> "no", awaits |-> {},
              targets |-> {}, late |-> {}, complete |-> {}, root |-> "unknown"]
    /\ clean = TRUE /\ stray = FALSE
-----------------------------------------------------------------------------
(* The walk. Each operator takes the map before and gives the map after; the *)
(* continuations of a promise run before anything else happens.              *)

Failed(m) == [m EXCEPT !.walk = "no", !.state = "error", !.awaits = {}, !.late = {}]

\* Mutant: the map is taken as fresh when the walk ends, not when it starts.
FinishedFresh(m) == [m EXCEPT !.walk = "no", !.state = "ready", !.stale = FALSE]

Finished(m) == [m EXCEPT !.walk = "no", !.state = IF m.stale THEN "walking" ELSE "ready"]

\* The root is listed: the target strips are found below it, and listed.
Expand(m) ==
    IF m.root # "right" \/ Root \notin learnt THEN Failed(m)
    ELSE IF m.targets \subseteq m.complete THEN Finished(m)
    ELSE [m EXCEPT !.awaits = m.targets \ m.complete]

\* walkNodeMap for the safes S, once connected. A complete list is not asked for again.
Listing(m, S) ==
    LET begun == [m EXCEPT !.state = "walking", !.walk = "listing", !.stale = FALSE,
                          !.targets = S, !.late = {}]
    IN IF S = {} THEN Finished(begun)
       ELSE IF Root \in m.complete THEN Expand(begun)
       ELSE [begun EXCEPT !.awaits = {Root}]

\* ensureMap.
Ensured(m, S, connected) ==
    IF S = {} THEN [m EXCEPT !.state = "ready", !.stale = FALSE]
    ELSE IF m.walk # "no" \/ (m.state = "ready" /\ ~m.stale) THEN m
    ELSE IF connected THEN Listing(m, S)
    ELSE [m EXCEPT !.state = "walking", !.walk = "dialing"]

\* The end of a walk starts another if the map went stale meanwhile.
Rewalked(m) == IF m.walk = "no" /\ m.stale /\ Open # {} THEN Ensured(m, safes, TRUE) ELSE m

\* The walker's request for n has ended, with or without an answer.
Resolved(m, n) ==
    LET done == [m EXCEPT !.complete = @ \cup {n}, !.awaits = @ \ {n},
                          !.root = IF n = Root /\ @ = "unknown" THEN "right" ELSE @]
    IN IF done.awaits # {} THEN done
       ELSE IF n = Root THEN Expand(done) ELSE Finished(done)

\* The requests a step of the walk makes.
Asks(m, after) ==
    LET new == SetToSeq(after.awaits \ m.awaits)
    IN [i \in 1 .. Len(new) |-> [by |-> Walker, kind |-> "def", node |-> new[i], n |-> 0]]
-----------------------------------------------------------------------------
(* The pipeline.                                                             *)

\* pump: what waits is sent, first come first served, while the window is open.
\* (The round robin skips requests of the requester object last sent, but every
\* request brings an object of its own.)
Pump(w, f, o) ==
    LET room == Window - Len(f)
        k == IF Len(w) < room THEN Len(w) ELSE IF room > 0 THEN room ELSE 0
        sent == SubSeq(w, 1, k)
    IN /\ waiting' = SubSeq(w, k + 1, Len(w))
       /\ inFlight' = f \o sent
       /\ owed' = o \o [i \in 1 .. k |-> [req |-> sent[i], told |-> sent[i].kind = "data"]]

Request(q) ==
    IF up = "connected"
    THEN Pump(waiting \o q, inFlight, owed) /\ armed' = (inFlight' # << >>)
    ELSE waiting' = waiting \o q /\ UNCHANGED <<inFlight, owed, armed>>

\* onClosed: nothing is kept of the connection, and the map is stale. The walker's
\* requests resolve, those for the nodes `gone` among them, but what the walk asks
\* for next is refused.
Closed(gone) ==
    LET dropped == inFlight \o waiting
        nodes == {dropped[i].node : i \in {j \in DOMAIN dropped : dropped[j].by = Walker}} \cup gone
        cut == [map EXCEPT !.stale = TRUE, !.complete = @ \cup nodes, !.awaits = {},
                           !.root = IF Root \in nodes /\ @ = "unknown" THEN "right" ELSE @]
        over == Root \in learnt /\ cut.root = "right" /\ map.targets \subseteq cut.complete
    IN /\ up' = "disconnected"
       /\ waiting' = << >> /\ inFlight' = << >> /\ owed' = << >> /\ armed' = FALSE
       /\ map' = IF map.walk # "listing" THEN cut ELSE IF over THEN Finished(cut) ELSE Failed(cut)

\* Every tablet's view lags the console: all are closed, to come back and resync.
CloseTablets ==
    /\ tablet' = [t \in Tablets |-> IF t \in Open THEN "closed" ELSE tablet[t]]
    /\ linger' = (linger \/ Open # {})

\* connect(), unless there is a connection or one is being made.
Dial ==
    IF up # "connected" /\ dialing = "no" THEN up' = "connecting" /\ dialing' = "pending"
    ELSE UNCHANGED <<up, dialing>>
-----------------------------------------------------------------------------
(* Tablets.                                                                  *)

Accept(t) ==
    /\ tablet[t] = "new"
    /\ tablet' = [tablet EXCEPT ![t] = "open"]
    /\ linger' = FALSE
    /\ Dial
    /\ map' = IF up = "connected" THEN Ensured(map, safes, TRUE)
              ELSE IF map.walk = "dialing" THEN [map EXCEPT !.late = @ \cup {t}]
              ELSE map
    /\ Request(Asks(map, map'))
    /\ UNCHANGED <<timeouts, asked, safes, changes, learnt, clean, stray>>

\* handleToken: a tablet asks for a node's definitions or its value (of whichever
\* node: values go to every tablet).
Ask(t, kind, node) ==
    /\ tablet[t] = "open" /\ asked[t] < MaxAsks
    /\ asked' = [asked EXCEPT ![t] = @ + 1]
    /\ Request(<<[by |-> t, kind |-> kind, node |-> node, n |-> asked[t] + 1]>>)
    /\ UNCHANGED <<link, timeouts, tablet, safes, changes, learnt, map, clean, stray>>

Gone(t) ==
    /\ tablet' = [tablet EXCEPT ![t] = "closed"]
    /\ linger' = (linger \/ Open = {t})

\* forget: the requests of others, in their order.
Without(w, t) ==
    LET kept[i \in 0 .. Len(w)] ==
            IF i = 0 THEN << >> ELSE IF w[i].by = t THEN kept[i - 1] ELSE Append(kept[i - 1], w[i])
    IN kept[Len(w)]

\* Mutant: what a closed tablet has in flight is forgotten too.
LeaveForgettingAll(t) ==
    /\ tablet[t] = "open"
    /\ Gone(t)
    /\ waiting' = Without(waiting, t)
    /\ inFlight' = Without(inFlight, t)
    /\ armed' = (inFlight' # << >>)
    /\ UNCHANGED <<up, dialing, timeouts, owed, asked, safes, changes, learnt, map, clean, stray>>

\* A tablet disconnects, falls silent, stops reading or sends what does not parse:
\* only what still waits is forgotten.
Leave(t) ==
    /\ tablet[t] = "open"
    /\ Gone(t)
    /\ waiting' = Without(waiting, t)
    /\ UNCHANGED <<up, dialing, inFlight, armed, timeouts, owed, asked, safes, changes, learnt, map, clean, stray>>
-----------------------------------------------------------------------------
(* The connection.                                                           *)

Connected ==
    /\ dialing = "pending"
    /\ dialing' = "no" /\ up' = "connected"
    /\ map' = IF map.walk = "dialing" THEN Listing(map, safes) ELSE Ensured(map, safes, TRUE)
    /\ Pump(waiting \o Asks(map, map'), inFlight, << >>)
    /\ armed' = (inFlight' # << >>)
    /\ clean' = TRUE /\ stray' = FALSE
    /\ UNCHANGED <<linger, timeouts, tablet, asked, safes, changes, learnt>>

\* Tablets hear of the failure in the order they came, and so does a walk waiting for
\* the connection: while a tablet that came after it is still open, it tries again.
Redials == map.walk = "dialing" /\ map.stale /\ map.late \cap Open # {}

\* The attempt is only reported while it is still wanted.
DialFails ==
    /\ dialing = "pending"
    /\ IF up = "connecting"
       THEN /\ dialing' = IF Redials THEN "pending" ELSE "no"
            /\ up' = "disconnected"
            /\ waiting' = << >>
            /\ map' = IF map.walk # "dialing" THEN [map EXCEPT !.stale = TRUE]
                      ELSE IF Redials THEN [map EXCEPT !.late = {}]
                      ELSE [Failed(map) EXCEPT !.stale = TRUE]
            /\ CloseTablets
       ELSE dialing' = "dead" /\ UNCHANGED <<up, waiting, map, tablet, linger>>
    /\ UNCHANGED <<inFlight, armed, timeouts, owed, asked, safes, changes, learnt, clean, stray>>

ConnectionLost ==
    /\ up = "connected"
    /\ Closed({})
    /\ CloseTablets
    /\ UNCHANGED <<dialing, timeouts, asked, safes, changes, learnt, clean, stray>>

\* The last tablet left a while ago. (A connection still being made goes on.)
LingerFires ==
    /\ linger
    /\ linger' = FALSE
    /\ IF Open = {} /\ up # "disconnected"
       THEN Closed({}) ELSE UNCHANGED <<up, waiting, inFlight, armed, owed, map>>
    /\ UNCHANGED <<dialing, timeouts, tablet, asked, safes, changes, learnt, clean, stray>>
-----------------------------------------------------------------------------
(* The console's answers go to the head of inFlight, whoever that is.        *)

Misled(q) == inFlight # << >> /\ Head(inFlight).by \in Open /\ Head(inFlight) # q

\* The definitions of a node's children.
Definitions ==
    /\ owed # << >> /\ ~Head(owed).told
    /\ LET q == Head(owed).req
           heard == inFlight # << >> /\ Head(inFlight).kind = "def"
       IN /\ owed' = [owed EXCEPT ![1].told = TRUE]
          /\ learnt' = learnt \cup {q.node}
          /\ stray' = (stray \/ (heard /\ Misled(q)))
          /\ map' = IF heard /\ Head(inFlight).by = Walker /\ Head(inFlight).node = Root
                    THEN [map EXCEPT !.root = IF @ # "unknown" THEN @
                                              ELSE IF q.node = Root THEN "right" ELSE "wrong"]
                    ELSE map
    /\ UNCHANGED <<link, waiting, inFlight, armed, timeouts, tablet, asked, safes, changes, clean>>

\* finishHead, with what the walk makes of it.
FinishHead(m, o) ==
    /\ map' = m
    /\ Pump(waiting \o Asks(map, m), Tail(inFlight), o)
    /\ armed' = (inFlight' # << >>)

\* The head's request has ended: a listing a tablet asked for completes the map too,
\* if it really ended.
Ended(head) ==
    IF head.by = Walker THEN Rewalked(Resolved(map, head.node))
    ELSE IF head.kind = "def" /\ head.node # Root THEN [map EXCEPT !.complete = @ \cup {head.node}]
    ELSE map

\* 0xde.
End ==
    /\ owed # << >> /\ Head(owed).told
    /\ timeouts' = 0
    /\ stray' = (stray \/ Misled(Head(owed).req))
    /\ IF inFlight = << >> THEN owed' = Tail(owed) /\ UNCHANGED <<waiting, inFlight, armed, map>>
       ELSE FinishHead(Ended(Head(inFlight)), Tail(owed))
    /\ UNCHANGED <<link, tablet, asked, safes, changes, learnt, clean>>

\* The head is given up, and the third time in a row the connection with it.
Timeout ==
    /\ armed
    /\ timeouts' = IF timeouts < MaxTimeouts THEN timeouts + 1 ELSE timeouts
    /\ LET head == Head(inFlight)
       IN IF timeouts + 1 >= MaxTimeouts
          THEN /\ Closed(IF head.by = Walker THEN {head.node} ELSE {})
               /\ CloseTablets
          ELSE /\ FinishHead(IF head.by = Walker THEN Rewalked(Resolved(map, head.node)) ELSE map, owed)
               /\ UNCHANGED <<up, tablet, linger>>
    /\ clean' = FALSE
    /\ UNCHANGED <<dialing, asked, safes, changes, learnt, stray>>

\* The console leaves a request unanswered.
Ignored ==
    /\ owed # << >> /\ ~Head(owed).told
    /\ owed' = Tail(owed)
    /\ clean' = FALSE
    /\ UNCHANGED <<link, waiting, inFlight, armed, timeouts, tablet, asked, safes, changes, learnt, map, stray>>

\* markMapStale, when the bridge's rules change.
ChangeSafes(S) ==
    /\ changes < MaxChanges /\ S # safes
    /\ changes' = changes + 1
    /\ safes' = S
    /\ LET stale == [map EXCEPT !.stale = TRUE]
           m == IF Open = {} THEN stale ELSE Ensured(stale, S, up = "connected")
       IN /\ map' = m
          /\ Request(Asks(map, m))
          /\ IF m.walk = "dialing" THEN Dial ELSE UNCHANGED <<up, dialing>>
    /\ UNCHANGED <<linger, timeouts, tablet, asked, learnt, clean, stray>>

Next ==
    \/ \E t \in Tablets :
        \/ Accept(t) \/ Leave(t)
        \/ \E node \in Nodes : Ask(t, "def", node)
        \/ Ask(t, "data", Root)
    \/ Connected \/ DialFails \/ ConnectionLost \/ LingerFires
    \/ Definitions \/ End \/ Timeout \/ Ignored
    \/ \E S \in SUBSET Strips : ChangeSafes(S)

Spec == Init /\ [][Next]_vars
-----------------------------------------------------------------------------
TypeOK ==
    /\ up \in {"disconnected", "connecting", "connected"}
    /\ dialing \in {"no", "pending", "dead"} /\ linger \in BOOLEAN
    /\ waiting \in Seq(Requests)
    /\ inFlight \in Seq(Requests) /\ Len(inFlight) <= Window
    /\ owed \in Seq([req : Requests, told : BOOLEAN])
    /\ armed = (inFlight # << >>) /\ timeouts \in 0 .. MaxTimeouts
    /\ tablet \in [Tablets -> {"new", "open", "closed"}]
    /\ asked \in [Tablets -> 0 .. MaxAsks]
    /\ safes \subseteq Strips /\ changes \in 0 .. MaxChanges
    /\ learnt \subseteq Nodes
    /\ map \in [state : {"idle", "walking", "ready", "error"}, stale : BOOLEAN,
                walk : {"no", "dialing", "listing"}, awaits : SUBSET Nodes,
                targets : SUBSET Strips, late : SUBSET Tablets, complete : SUBSET Nodes,
                root : {"unknown", "right", "wrong"}]
    /\ clean \in BOOLEAN /\ stray \in BOOLEAN

\* "Definition records and the closing 0xde go back to whoever asked": while the
\* console answers everything in time, whatever tablets leave meanwhile and
\* whatever was in flight when an earlier connection was lost.
RepliesGoHome == clean => ~stray

\* Writes are judged by a map walked for the safes in force: one that changed while
\* a walk was under way, or nobody was connected, is walked before it is ready.
ReadyIsCurrent ==
    map.state = "ready" /\ ~map.stale => safes = {} \/ map.targets = safes

\* A statement of the source that does not hold, checked by no run: see the README.

\* "Under safes, the protected subtrees and every node above them are fully listed."
ReadyIsListed ==
    map.state = "ready" /\ ~map.stale /\ safes # {} => {Root} \cup safes \subseteq learnt
=============================================================================
