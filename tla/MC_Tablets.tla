----------------------------- MODULE MC_Tablets -----------------------------
(* The tablet bridge for TLC, one part at a time: its rules, its         *)
(* listeners, its meters, its OSC half.                                     *)
EXTENDS WingBridge, BridgeListeners, BridgeMeters, BridgeOsc

VARIABLE which

ch1 == <<"ch", "1">>
bus6 == <<"bus", "6">>
SomeInputs == {ch1}
SomeMixes == {bus6}

\* Nothing protected; a safe channel for everyone; an allow-list for everyone
\* and a channel safe from the owner's tablet; a bus safe for everyone that the
\* owner may mix.
Unprotected == [safes |-> {}, whitelist |-> FALSE, scope |-> "mix", profile |-> "none", listed |-> {}, applyGlobal |-> TRUE]
SomeSettings ==
    {Unprotected,
     [safes |-> {ch1}, whitelist |-> FALSE, scope |-> "mix", profile |-> "none", listed |-> {}, applyGlobal |-> TRUE],
     [safes |-> {bus6}, whitelist |-> TRUE, scope |-> "mix", profile |-> "safes", listed |-> {ch1}, applyGlobal |-> TRUE],
     [safes |-> {bus6}, whitelist |-> FALSE, scope |-> "mix", profile |-> "allow", listed |-> {bus6}, applyGlobal |-> FALSE]}
SomePaths ==
    {<<"ch", "1", "fdr">>, <<"ch", "1", "send", "6", "lvl">>, <<"io", "in", "lcl", "1", "g">>, <<"io", "in", "lcl", "4", "g">>,
     <<"bus", "6", "fdr">>, <<"bus", "6", "preins", "ins">>, <<"fx", "3", "gain">>, <<"fx", "4", "gain">>}

TabletsInit ==
    /\ which \in {"rules", "listeners", "meters", "osc"}
    /\ BridgeInit /\ ListenersInit /\ MetersInit /\ OscInit
    /\ settings = Unprotected <=> which # "rules"
TabletsNext ==
    /\ UNCHANGED which
    /\ \/ which = "rules" /\ BridgeNext /\ UNCHANGED <<listenerVars, meterBridgeVars, bridgeOscVars>>
       \/ which = "listeners" /\ ListenersNext /\ UNCHANGED <<bridgeVars, meterBridgeVars, bridgeOscVars>>
       \/ which = "meters" /\ MetersNext /\ UNCHANGED <<bridgeVars, listenerVars, bridgeOscVars>>
       \/ which = "osc" /\ OscNext /\ UNCHANGED <<bridgeVars, listenerVars, meterBridgeVars>>
TabletsSpec == TabletsInit /\ [][TabletsNext]_<<which, bridgeVars, listenerVars, meterBridgeVars, bridgeOscVars>>
=============================================================================
