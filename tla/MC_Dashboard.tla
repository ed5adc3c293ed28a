---------------------------- MODULE MC_Dashboard ----------------------------
(* The things of a dashboard page that race the console, one at a time:    *)
(* the subscriptions of its socket, the calls over it, a fader of the      *)
(* mixer, a panel of parameters, a query of the API and what changes it.   *)
EXTENDS LiveSocket, MixerField, EditedPanel, DashboardApi

CONSTANTS p1, p2

VARIABLE which

SomeMounts ==
    {[p \in Panels |-> IF p = p1 THEN a ELSE b] : a \in {{}, {1}}, b \in {{}, {2}}}
        \ {[p \in Panels |-> IF p = p1 THEN {} ELSE {2}]}

\* One strip stands for all; a new configuration concerns every query of the
\* plugin, of which these are polled, read once, or its own.
SomePairs ==
    {p \in Pairs : /\ StripOf(p[1].path) \in {<< >>, <<"channels", "1">>, <<"main", "1">>}
                   /\ StripOf(p[2].path) \in {<< >>, <<"channels", "1">>}
                   /\ p[2] \in UpdateConfig =>
                        p[1].key \in {ConfigKey, <<"wing-mixer-state">>, <<"wing-scenes">>, <<"wing-main-sends", "1">>}}

MCInit ==
    /\ LiveInit /\ FieldInit /\ PanelInit /\ ApiInit
    /\ which \in {"topics", "calls", "field", "panel", "api"}
    /\ which # "field" => fader = 0
    /\ which # "api" => query.key = <<"tools">>
    /\ which = "api" => <<query, hook>> \in SomePairs

MCNext ==
    /\ UNCHANGED which
    /\ \/ which = "topics" /\ LiveNext /\ calls' = calls /\ UNCHANGED <<fieldVars, panelVars, apiVars>>
       \/ which = "calls" /\ LiveNext /\ (mounts' = mounts \/ mounts = 0) /\ UNCHANGED <<fieldVars, panelVars, apiVars>>
       \/ which = "field" /\ FieldNext /\ UNCHANGED <<liveVars, panelVars, apiVars>>
       \/ which = "panel" /\ PanelNext /\ UNCHANGED <<liveVars, fieldVars, apiVars>>
       \/ which = "api" /\ ApiNext /\ UNCHANGED <<liveVars, fieldVars, panelVars>>

MCSpec ==
    /\ MCInit /\ [][MCNext]_<<liveVars, fieldVars, panelVars, apiVars, which>>
    /\ LiveFairness /\ FieldFairness /\ PanelFairness /\ ApiFairness
=============================================================================
