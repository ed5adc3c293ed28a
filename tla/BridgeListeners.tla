-------------------------- MODULE BridgeListeners --------------------------
(***************************************************************************)
(* The listeners of the tablet bridge (wing-bridge.ts): the OSC server, the *)
(* native proxy and the discovery responder are each started and stopped on *)
(* their own.  configure() compares the key of each with the one in use and *)
(* queues a restart of those that changed, with the settings of that call;  *)
(* the steps run one after the other, each closing the old listener before  *)
(* it binds the new one.  A key stands for the port, the interface and the  *)
(* console it serves, Off for a listener that is not wanted.                *)
(***************************************************************************)
EXTENDS Naturals, Sequences, FiniteSets, SequencesExt

CONSTANTS
    Off, Unset,
    Keys,         \* what a listener may be configured to serve; they share its port
    MaxConfigures \* bound: calls of configure() and of close()

ASSUME BridgeListenersAssumption == MaxConfigures \in Nat /\ Off \notin Keys /\ Unset \notin Keys \cup {Off}

Listeners == {"osc", "native", "discovery"}

VARIABLES
    keyInUse,   \* oscKey, nativeKeyInUse, discoveryKeyInUse: what was last asked for
    chain,      \* steps queued or running: [who, key, at, old: the listener being closed]
    held,       \* the listener the bridge has a hold of
    bound,      \* sockets open: <<listener, key>>
    failed,     \* the last start found the port taken
    configures

listenerVars == <<keyInUse, chain, held, bound, failed, configures>>

ListenersInit ==
    /\ keyInUse = [l \in Listeners |-> Unset] /\ chain = <<>>
    /\ held = [l \in Listeners |-> Unset] /\ bound = {}
    /\ failed = [l \in Listeners |-> FALSE] /\ configures = 0

Step(l, key) == [who |-> l, key |-> key, at |-> "queued", old |-> Unset]

(* configure(): a step for each listener whose key changed. *)
Restarts(l, keys) == IF keys[l] # keyInUse[l] THEN <<Step(l, keys[l])>> ELSE <<>>
ConfigureListeners(keys) ==
    /\ configures < MaxConfigures /\ configures' = configures + 1
    /\ chain' = chain \o Restarts("osc", keys) \o Restarts("native", keys) \o Restarts("discovery", keys)
    /\ keyInUse' = keys
    /\ UNCHANGED <<held, bound, failed>>

(* close(): all three are stopped; the keys are forgotten, so that the next *)
(* configure() starts what it wants.                                        *)
CloseListeners ==
    /\ configures < MaxConfigures /\ configures' = configures + 1
    /\ keyInUse' = [l \in Listeners |-> Unset]
    /\ chain' = chain \o <<Step("osc", Off), Step("native", Off), Step("discovery", Off)>>
    /\ UNCHANGED <<held, bound, failed>>

(* Mutant: the steps of two saves run at the same time. *)
AllAtOnce(i) == TRUE

(* Serializes listener restarts. *)
Turn(i) == i = 1

(* stopOsc(), stopNative(), stopDiscovery(): let go, then wait for the close. *)
StopBegins(i) ==
    /\ Turn(i) /\ chain[i].at = "queued"
    /\ chain' = [chain EXCEPT ![i].at = "closing", ![i].old = held[chain[i].who]]
    /\ held' = [held EXCEPT ![chain[i].who] = Unset]
    /\ UNCHANGED <<keyInUse, bound, failed, configures>>
StopEnds(i) ==
    /\ Turn(i) /\ chain[i].at = "closing"
    /\ bound' = bound \ {<<chain[i].who, chain[i].old>>}
    /\ IF chain[i].key = Off
       THEN chain' = RemoveAt(chain, i) /\ failed' = [failed EXCEPT ![chain[i].who] = FALSE]
       ELSE chain' = [chain EXCEPT ![i].at = "starting"]
            /\ UNCHANGED failed
    /\ UNCHANGED <<keyInUse, held, configures>>

(* restartOsc(), restartNative(), restartDiscovery(): start(), which finds  *)
(* the port free unless a listener of ours or someone else has it.          *)
StartEnds(i) ==
    /\ Turn(i) /\ chain[i].at = "starting" /\ chain' = RemoveAt(chain, i)
    /\ LET l == chain[i].who
       IN \/ /\ ~\E b \in bound : b[1] = l
             /\ bound' = bound \cup {<<l, chain[i].key>>}
             /\ held' = [held EXCEPT ![l] = chain[i].key] /\ failed' = [failed EXCEPT ![l] = FALSE]
          \/ failed' = [failed EXCEPT ![l] = TRUE] /\ UNCHANGED <<held, bound>>
    /\ UNCHANGED <<keyInUse, configures>>

ListenersNext ==
    \/ \E keys \in [Listeners -> Keys \cup {Off}] : ConfigureListeners(keys)
    \/ CloseListeners
    \/ \E i \in DOMAIN chain : StopBegins(i) \/ StopEnds(i) \/ StartEnds(i)

ListenersSpec == ListenersInit /\ [][ListenersNext]_listenerVars

(* Only a listener that is wanted is started. *)
Steps ==
    {s \in [who : Listeners, key : Keys \cup {Off}, at : {"queued", "closing", "starting"}, old : Keys \cup {Unset}] :
        s.at = "starting" => s.key # Off}
ListenersTypeOK ==
    /\ chain \in Seq(Steps) /\ configures \in Nat
    /\ keyInUse \in [Listeners -> Keys \cup {Off, Unset}] /\ held \in [Listeners -> Keys \cup {Unset}]
    /\ bound \subseteq Listeners \X Keys /\ failed \in [Listeners -> BOOLEAN]

(* Two saves in quick succession leave each listener serving what the last  *)
(* one asked for, or down because its port was taken, and no socket open    *)
(* that nobody holds.                                                       *)
ListenersFollow ==
    chain = <<>> =>
        \A l \in Listeners :
            {b[2] : b \in {x \in bound : x[1] = l}} = IF failed[l] THEN {} ELSE {keyInUse[l]} \ {Off, Unset}
=============================================================================
