----------------------------- MODULE MC_Access ------------------------------
(* The server towards its clients, for TLC: from the beginning either the  *)
(* credentials and the file they are in, or the gateway with its sessions: *)
(* two tools of one group, one of them a writer, and a tool without group. *)
EXTENDS Credentials, McpGateway

VARIABLE which

SomeTools == {"get", "set", "ping"}
SomeGroups == [t \in SomeTools |-> IF t = "ping" THEN Absent ELSE "strip"]
SomeProfiles == [few |-> {}]
Chosen(profile, enable, disable) == [profile |-> profile, enable |-> enable, disable |-> disable]
SomeOffers ==
    {Chosen("all", {}, {"set"}), Chosen("few", {"strip"}, {"strip", "get"}),
     Chosen("safe", {"set"}, {}), Chosen("readonly", {}, {})}

AccessInit ==
    /\ Init /\ GatewayInit
    /\ which \in {"credentials", "gateway"}
    /\ which = "credentials" => on = {"http"} /\ choice = Chosen("readonly", {}, {})
AccessNext ==
    /\ UNCHANGED which
    /\ \/ which = "credentials" /\ Next /\ UNCHANGED gatewayVars
       \/ which = "gateway" /\ GatewayNext /\ UNCHANGED vars
AccessSpec ==
    /\ AccessInit /\ [][AccessNext]_<<which, vars, gatewayVars>>
    /\ which = "gateway" => GatewayFairness
=============================================================================
