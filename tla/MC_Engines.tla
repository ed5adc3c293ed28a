----------------------------- MODULE MC_Engines -----------------------------
(* The operations that work at the console, for TLC: from the beginning    *)
(* either the automatic EQ, or one of the other operations, or fades, or   *)
(* the calls of the tools, each with whatever may interrupt it.            *)
EXTENDS AutoEq, ConsoleJobs, Fades, ToolCalls

VARIABLE which

SomeZones == 1..2
SomeRequests ==
    {[apply |-> TRUE, eq |-> <<"auto", "auto">>, cut |-> {1}],
     [apply |-> TRUE, eq |-> <<"geq", "peq">>, cut |-> {}],
     [apply |-> FALSE, eq |-> <<"auto", "auto">>, cut |-> {}]}
EmptyRig == [l \in EqLeaves |-> 0]
SomeRigs ==
    {(Insert(1) :> 9) @@ (NativeOn(2) :> 1) @@ (InsertOn(2) :> 1) @@ EmptyRig,
     (Insert(2) :> 1) @@ (Model(1) :> Geq) @@ (Bands(1) :> 1) @@ (Cut(1) :> 1) @@ EmptyRig}
SomeMeddling == {<<Bands(1), 2>>, <<Rta, 3>>}

Plain == [l \in Leaves |-> 0]
SomeDesks ==
    {("A" :> 2) @@ ("trim" :> 2) @@ ("muteB" :> 1) @@ Plain, ("on" :> 1) @@ ("thr" :> 1) @@ ("B" :> 1) @@ Plain}
SomePresets == {<<<<"A" :> 1, "muteA" :> 1>>, <<"B" :> 2>>>>}

Bottom == -2
SomeAsked == {[relative |-> FALSE, value |-> 1], [relative |-> TRUE, value |-> -2]}

Batch == {"name", Sound}

EnginesInit ==
    /\ EqInit /\ Init /\ FadeInit /\ ToolCallsInit
    /\ which \in {"eq", "job", "fade", "tool"}
    /\ which # "eq" => eqDesk[Cut(1)] = 0
    /\ which # "job" => desk["on"] = 0
    /\ which # "tool" => ~showMode
EnginesNext ==
    /\ UNCHANGED which
    /\ \/ which = "eq" /\ EqNext /\ UNCHANGED <<vars, fadeVars, toolVars>>
       \/ which = "job" /\ Next /\ UNCHANGED <<eqVars, fadeVars, toolVars>>
       \/ which = "fade" /\ FadeNext /\ UNCHANGED <<eqVars, vars, toolVars>>
       \/ which = "tool" /\ ToolCallsNext /\ UNCHANGED <<eqVars, vars, fadeVars>>
EnginesSpec == EnginesInit /\ [][EnginesNext]_<<which, eqVars, vars, fadeVars, toolVars>>

\* Only the calls of the tools.
ToolsInit == EnginesInit /\ which = "tool"
ToolsSpec == ToolsInit /\ [][EnginesNext]_<<which, eqVars, vars, fadeVars, toolVars>>
=============================================================================
