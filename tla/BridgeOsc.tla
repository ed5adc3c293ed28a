----------------------------- MODULE BridgeOsc -----------------------------
(***************************************************************************)
(* The OSC half of the tablet bridge (wing-bridge-osc.ts).  Apps talk to it *)
(* as to the console: what they ask goes upstream on a socket of their own, *)
(* so that the replies come home without the bridge matching them; their    *)
(* subscriptions stay here, served from the pushes of the plugin's own      *)
(* subscription; a write to what is protected is refused, and the value the *)
(* console has is read back to the app a moment later.                      *)
(*                                                                          *)
(* The datagrams of one socket keep their order and arrive, and those of    *)
(* the console are handled in the order it sent them (pushes and replies    *)
(* come on different sockets).  An app shows what it was last sent of a     *)
(* control, or where its user left it; one that subscribes reads everything *)
(* first.                                                                   *)
(***************************************************************************)
EXTENDS Naturals, Sequences, FiniteSets, Functions, SequencesExt

CONSTANTS
    OscApps, Controls,
    Guarded,       \* nodes the rules refuse to everyone here
    MaxSnapBacks,  \* MAX_SNAPBACK_PATHS
    Blank, MaxMoves

ASSUME BridgeOscAssumption ==
    MaxSnapBacks \in Nat \ {0} /\ MaxMoves \in Nat /\ Guarded \subseteq Controls /\ IsFiniteSet(Controls)

VARIABLES
    onDesk,      \* per node: the console's value, the number of the move that set it
    shown,       \* per app and node: what its control shows
    subscribed,  \* per app: client.subscription, not expired
    toBridge, toApp, \* per app: datagrams under way
    upstream,    \* per app: datagrams under way on its own socket to the console
    fromConsole, \* what the console sent: pushes to the plugin, replies to the sockets
    timers,      \* per app: nodes of the refused writes to be read back, per timer
    snapBacks,   \* per app: paths whose answer is also pushed
    moves

bridgeOscVars == <<onDesk, shown, subscribed, toBridge, toApp, upstream, fromConsole, timers, snapBacks, moves>>

OscInit ==
    /\ onDesk = [p \in Controls |-> 0] /\ shown = [a \in OscApps |-> [p \in Controls |-> Blank]]
    /\ subscribed = [a \in OscApps |-> FALSE]
    /\ toBridge = [a \in OscApps |-> <<>>] /\ toApp = [a \in OscApps |-> <<>>] /\ upstream = [a \in OscApps |-> <<>>]
    /\ fromConsole = <<>> /\ timers = [a \in OscApps |-> <<>>] /\ snapBacks = [a \in OscApps |-> {}]
    /\ moves = 0

Add(queues, a, m) == [queues EXCEPT ![a] = Append(@, m)]
Drop(queues, a) == [queues EXCEPT ![a] = Tail(@)]

-----------------------------------------------------------------------------
(* The apps. *)

(* A control is moved, or several at once by a bulk-set. *)
UserMoves(a, paths) ==
    /\ moves < MaxMoves /\ moves' = moves + 1 /\ paths # {} /\ Cardinality(paths) <= MaxSnapBacks
    /\ shown' = [shown EXCEPT ![a] = [p \in Controls |-> IF p \in paths THEN moves' ELSE @[p]]]
    /\ toBridge' = Add(toBridge, a, [kind |-> "write", paths |-> paths, value |-> moves'])
    /\ UNCHANGED <<onDesk, subscribed, toApp, upstream, fromConsole, timers, snapBacks>>

(* It subscribes and asks for every value. *)
AppSubscribes(a) ==
    /\ moves < MaxMoves /\ moves' = moves + 1 /\ ~subscribed[a]
    /\ \A i \in DOMAIN toBridge[a] : toBridge[a][i].kind # "subscribe"
    /\ toBridge' = [toBridge EXCEPT ![a] = @ \o <<[kind |-> "subscribe", paths |-> {}, value |-> 0]>>
                                             \o SetToSeq({[kind |-> "read", paths |-> {p}, value |-> 0] : p \in Controls})]
    /\ UNCHANGED <<onDesk, shown, subscribed, toApp, upstream, fromConsole, timers, snapBacks>>

(* An app takes a push whenever it comes, a reply to what it asked itself;  *)
(* to one that subscribes, the two say the same.                            *)
AppReceives(a) ==
    /\ toApp[a] # <<>> /\ toApp' = Drop(toApp, a)
    /\ LET m == Head(toApp[a])
       IN IF m.kind \in {"push", "asked"} THEN shown' = [shown EXCEPT ![a][m.path] = m.value] ELSE UNCHANGED shown
    /\ UNCHANGED <<onDesk, subscribed, toBridge, upstream, fromConsole, timers, snapBacks, moves>>

-----------------------------------------------------------------------------
(* The bridge. *)

(* refusal(): of a bulk-set, one protected node refuses the whole. *)
Refusal(paths) == paths \cap Guarded # {}

(* Mutant: of a refused bulk-set only the protected nodes are read back. *)
TheRefusedOnly(paths) == paths \cap Guarded

(* block(): every node of a refused write is read back. *)
ReadBack(paths) == paths

(* onClientMessage(), forward(), block() *)
ClientMessage(a) ==
    /\ toBridge[a] # <<>> /\ toBridge' = Drop(toBridge, a)
    /\ LET m == Head(toBridge[a])
           refused == m.kind = "write" /\ Refusal(m.paths)
       IN /\ subscribed' = [subscribed EXCEPT ![a] = @ \/ m.kind = "subscribe"]
          /\ upstream' = IF m.kind = "subscribe" \/ refused THEN upstream ELSE Add(upstream, a, m)
          /\ timers' = IF refused THEN Add(timers, a, ReadBack(m.paths)) ELSE timers
          /\ toApp' = IF refused /\ Cardinality(m.paths) > 1 THEN Add(toApp, a, [kind |-> "PROTECTED"]) ELSE toApp
    /\ UNCHANGED <<onDesk, shown, fromConsole, snapBacks, moves>>

(* The timer of a refused write; timers of one delay fire in turn. *)
SnapBackTimer(a) ==
    /\ timers[a] # <<>> /\ timers' = Drop(timers, a)
    /\ snapBacks' = [snapBacks EXCEPT ![a] = @ \cup Head(timers[a])]
    /\ upstream' = [upstream EXCEPT ![a] = @ \o SetToSeq({[kind |-> "back", paths |-> {p}, value |-> 0] : p \in Head(timers[a])})]
    /\ UNCHANGED <<onDesk, shown, subscribed, toBridge, toApp, fromConsole, moves>>

(* The console's own: it applies a write and pushes the change, or answers  *)
(* the read.                                                                *)
ConsoleHandles(a) ==
    /\ upstream[a] # <<>> /\ upstream' = Drop(upstream, a)
    /\ LET m == Head(upstream[a])
       IN IF m.kind = "write"
          THEN /\ onDesk' = [p \in Controls |-> IF p \in m.paths THEN m.value ELSE onDesk[p]]
               /\ fromConsole' = fromConsole \o SetToSeq({[kind |-> "push", to |-> a, path |-> p, value |-> m.value] : p \in m.paths})
          ELSE /\ fromConsole' = fromConsole \o SetToSeq({[kind |-> m.kind, to |-> a, path |-> p, value |-> onDesk[p]] : p \in m.paths})
               /\ UNCHANGED onDesk
    /\ UNCHANGED <<shown, subscribed, toBridge, toApp, timers, snapBacks, moves>>

(* Someone moves a control at the desk. *)
HandAtDesk(p) ==
    /\ moves < MaxMoves /\ moves' = moves + 1
    /\ onDesk' = [onDesk EXCEPT ![p] = moves']
    /\ fromConsole' = Append(fromConsole, [kind |-> "push", to |-> Blank, path |-> p, value |-> moves'])
    /\ UNCHANGED <<shown, subscribed, toBridge, toApp, upstream, timers, snapBacks>>

(* handleConsolePush(): to every subscriber; the message of an upstream     *)
(* socket: to its app, and if it answers a snap-back read once more as the  *)
(* push a subscriber listens to (pushSnapBack).                             *)
FromConsole ==
    /\ fromConsole # <<>> /\ fromConsole' = Tail(fromConsole)
    /\ LET m == Head(fromConsole)
           snap == m.kind # "push" /\ m.path \in snapBacks[m.to]
           sends(a) == IF m.kind = "push" THEN IF subscribed[a] THEN <<[kind |-> "push", path |-> m.path, value |-> m.value]>> ELSE <<>>
                       ELSE IF a # m.to THEN <<>>
                       ELSE <<[kind |-> IF m.kind = "read" THEN "asked" ELSE "reply", path |-> m.path, value |-> m.value]>>
                            \o IF snap /\ subscribed[a] THEN <<[kind |-> "push", path |-> m.path, value |-> m.value]>> ELSE <<>>
       IN /\ toApp' = [a \in OscApps |-> toApp[a] \o sends(a)]
          /\ snapBacks' = IF snap THEN [snapBacks EXCEPT ![m.to] = @ \ {m.path}] ELSE snapBacks
    /\ UNCHANGED <<onDesk, shown, subscribed, toBridge, upstream, timers, moves>>

(* The subscription of an app that stopped renewing it runs out; sweep()    *)
(* closes its socket when it has been silent for longer still, by when      *)
(* nothing of it is under way.                                              *)
SubscriptionEnds(a) ==
    /\ subscribed[a] /\ moves < MaxMoves /\ moves' = moves + 1
    /\ subscribed' = [subscribed EXCEPT ![a] = FALSE]
    /\ UNCHANGED <<onDesk, shown, toBridge, toApp, upstream, fromConsole, timers, snapBacks>>

OscNext ==
    \/ \E a \in OscApps :
          \/ AppSubscribes(a) \/ AppReceives(a) \/ ClientMessage(a) \/ SnapBackTimer(a) \/ ConsoleHandles(a) \/ SubscriptionEnds(a)
          \/ \E paths \in SUBSET Controls : UserMoves(a, paths)
    \/ \E p \in Controls : HandAtDesk(p)
    \/ FromConsole

OscSpec == OscInit /\ [][OscNext]_bridgeOscVars

(* Once nothing is under way, every control of every subscribed app is      *)
(* where the console is: a refused write has snapped back, an accepted one  *)
(* has been told to all, whatever crossed it.                               *)
AppsShowTheConsole ==
    fromConsole = <<>> /\ (\A a \in OscApps : toBridge[a] = <<>> /\ toApp[a] = <<>> /\ upstream[a] = <<>> /\ timers[a] = <<>>)
        => \A a \in OscApps : subscribed[a] => \A p \in Controls : shown[a][p] = onDesk[p]
=============================================================================
