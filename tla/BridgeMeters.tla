---------------------------- MODULE BridgeMeters ----------------------------
(***************************************************************************)
(* The meters of bridged tablets (wing-bridge-meters.ts).  A tablet holds   *)
(* subscriptions by report id, each a collection of meter groups; the union *)
(* of what all of them want is added to the server's own meter client, a    *)
(* moment after it changed, and every frame is sliced into a packet per     *)
(* live subscription.  The meter client                                     *)
(* is replaced whenever the console is connected to anew.  Time is what a   *)
(* subscription has gone without a keepalive: live, stale (5 s), long (10). *)
(***************************************************************************)
EXTENDS Naturals, FiniteSets

CONSTANTS
    MeterTablets, Reports, MeterGroups,
    NoClient,
    MaxEvents     \* bound: what tablets and the plugin do

ASSUME BridgeMetersAssumption == MaxEvents \in Nat

VARIABLES
    subs,      \* per tablet and report: [groups, age], age "none" before its report id came
    naming,    \* per tablet: the report id the last 0xd4 named
    meterClient, \* the plugin's meter client, numbered, or NoClient
    clients,   \* clients made so far
    extra,     \* what the meter client was last asked for in addition
    unionTimer,
    appliedUnion,
    events

meterBridgeVars == <<subs, naming, meterClient, clients, extra, unionTimer, appliedUnion, events>>

NoSub == [groups |-> {}, age |-> "none"]
Bounded == events < MaxEvents /\ events' = events + 1
Union == UNION {subs[t][r].groups : t \in MeterTablets, r \in Reports}

MetersInit ==
    /\ subs = [t \in MeterTablets |-> [r \in Reports |-> NoSub]]
    /\ naming = [t \in MeterTablets |-> NoClient]
    /\ meterClient = NoClient /\ clients = 0 /\ extra = {}
    /\ unionTimer = FALSE /\ appliedUnion = {} /\ events = 0

(* createSession(): a report id selects a subscription and renews it alone. *)
ReportId(t, r) ==
    /\ Bounded /\ naming' = [naming EXCEPT ![t] = r]
    /\ subs' = [subs EXCEPT ![t][r].age = "live"]
    /\ UNCHANGED <<meterClient, clients, extra, unionTimer, appliedUnion>>

(* A collection belongs to the report id named last. *)
Collection(t, groups) ==
    /\ Bounded /\ naming[t] # NoClient
    /\ subs' = [subs EXCEPT ![t][naming[t]] = [groups |-> groups, age |-> IF @.age = "none" THEN "live" ELSE @.age]]
    /\ unionTimer' = TRUE
    /\ UNCHANGED <<naming, meterClient, clients, extra, appliedUnion>>

(* The tablet's connection is closed: its subscriptions go with it. *)
CloseSession(t) ==
    /\ Bounded /\ subs[t] # [r \in Reports |-> NoSub]
    /\ subs' = [subs EXCEPT ![t] = [r \in Reports |-> NoSub]]
    /\ naming' = [naming EXCEPT ![t] = NoClient] /\ unionTimer' = TRUE
    /\ UNCHANGED <<meterClient, clients, extra, appliedUnion>>

(* Mutant: what the client before was asked for is taken as asked of it. *)
KeptUnion(c) == appliedUnion

(* A new meter client has been asked for nothing. *)
UnionAfterAttach(c) == {}

(* attachMeterClient() *)
AttachMeterClient(c) ==
    /\ Bounded /\ c # meterClient
    /\ meterClient' = c /\ clients' = IF c = NoClient THEN clients ELSE c
    /\ extra' = {} /\ appliedUnion' = UnionAfterAttach(c) /\ unionTimer' = TRUE
    /\ UNCHANGED <<subs, naming>>

(* applyUnion() *)
ApplyUnion ==
    /\ unionTimer /\ unionTimer' = FALSE
    /\ IF Union = appliedUnion \/ meterClient = NoClient THEN UNCHANGED <<appliedUnion, extra>>
       ELSE appliedUnion' = Union /\ extra' = Union
    /\ UNCHANGED <<subs, naming, meterClient, clients, events>>

Ages(t, r) ==
    /\ subs[t][r].age \in {"live", "stale"}
    /\ subs' = [subs EXCEPT ![t][r].age = IF @ = "live" THEN "stale" ELSE "long"]
    /\ UNCHANGED <<naming, meterClient, clients, extra, unionTimer, appliedUnion, events>>

(* fanOut(), on every frame: what long expired is forgotten; of what is     *)
(* sent only the layout matters to an app, and that is data.               *)
FanOut ==
    LET long == {x \in MeterTablets \X Reports : subs[x[1]][x[2]].age = "long"}
    IN /\ meterClient # NoClient /\ long # {}
       /\ subs' = [t \in MeterTablets |-> [r \in Reports |-> IF <<t, r>> \in long THEN NoSub ELSE subs[t][r]]]
       /\ unionTimer' = TRUE
       /\ UNCHANGED <<naming, meterClient, clients, extra, appliedUnion, events>>

MetersNext ==
    \/ \E t \in MeterTablets : CloseSession(t)
         \/ \E r \in Reports : ReportId(t, r) \/ Ages(t, r)
         \/ \E g \in SUBSET MeterGroups : Collection(t, g)
    \/ \E c \in {NoClient, clients + 1} : AttachMeterClient(c)
    \/ ApplyUnion \/ FanOut

MetersSpec == MetersInit /\ [][MetersNext]_meterBridgeVars

Subscriptions == [groups : SUBSET MeterGroups, age : {"none", "live", "stale", "long"}]
MetersTypeOK ==
    /\ subs \in [MeterTablets -> [Reports -> Subscriptions]]
    /\ naming \in [MeterTablets -> Reports \cup {NoClient}]
    /\ clients \in Nat /\ meterClient \in Nat \cup {NoClient} /\ events \in Nat
    /\ unionTimer \in BOOLEAN /\ extra \subseteq MeterGroups /\ appliedUnion \subseteq MeterGroups

(* Whatever tablets came, went, changed or fell silent, and however often   *)
(* the console was connected to anew: once the timer has fired, the meter   *)
(* client is asked for exactly what the tablets hold.                       *)
UnionIsAsked == ~unionTimer /\ meterClient # NoClient => extra = Union
=============================================================================
