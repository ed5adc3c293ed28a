------------------------------- MODULE AutoEq -------------------------------
(***************************************************************************)
(* The automatic EQ balance (plugins/wing/wing-auto-eq.ts): it borrows the *)
(* console's one analyser (RTA), loads graphic EQs or turns native EQs on, *)
(* corrects round after round, hands the analyser back, and can undo what  *)
(* its last run changed.  Others work at the same desk meanwhile.          *)
(*                                                                         *)
(* A leaf of the desk holds a number.  What was measured is any outcome;   *)
(* the curve of an EQ is one number.  A write is acknowledged, refused, or *)
(* fails with an exception: then nobody knows whether it landed.           *)
(***************************************************************************)
EXTENDS Naturals, Sequences, FiniteSets, Assignments

CONSTANTS
    Zones,         \* the strips to be corrected: 1..N, in this order
    FxSlots,       \* the slots of the FX rack
    Levels,        \* settings of one EQ, 0 is flat
    Requests,      \* calls: [apply, eq: zone -> "auto"|"geq"|"peq", cut: set of zones]
    Rigs,          \* desks to begin with
    Meddling,      \* what others may write: a set of <<leaf, value>>
    MaxCorrections,     \* opts.iterations
    MaxRuns,       \* bound: runs
    MaxUndos,      \* bound: undos
    MaxMeddled,    \* bound: writes of others
    MaxEqTrouble     \* bound: calls to the console that are refused or fail

Empty == 0                    \* FX models: EMPTY_FX_MODEL, GEQ_MODEL
Geq == 1
NotInserted == 0
Borrowed == 7                 \* RTA_MEASURE_SETTINGS and the source it measures

Cut(z) == <<"cut", z>>        \* the strip's cut filter
NativeOn(z) == <<"on", z>>
NativeEq(z) == <<"eq", z>>
Insert(z) == <<"ins", z>>     \* the FX slot inserted on the strip
InsertOn(z) == <<"ion", z>>
Model(s) == <<"mdl", s>>
Bands(s) == <<"bands", s>>    \* the gains of the GEQ in a slot
Rta == <<"rta", 0>>
EqLeaves == {Rta} \cup (UNION {{Cut(z), NativeOn(z), NativeEq(z), Insert(z), InsertOn(z)} : z \in Zones})
                \cup (UNION {{Model(s), Bands(s)} : s \in FxSlots})

Switches == UNION {{NativeOn(z), InsertOn(z)} : z \in Zones}   \* off or on: 0 or 1

ASSUME RequestAssumption ==
    /\ Cardinality(Zones) \in Nat \ {0} /\ Zones = 1..Cardinality(Zones)
    /\ FxSlots \subseteq Nat \ {NotInserted} /\ Levels \subseteq Nat /\ 0 \in Levels
    /\ \A r \in Requests : r.eq \in [Zones -> {"auto", "geq", "peq"}] /\ r.cut \subseteq Zones
    /\ Rigs \subseteq [EqLeaves -> Nat] /\ \A d \in Rigs : \A l \in Switches : d[l] \in {0, 1}
    /\ Meddling \subseteq EqLeaves \X Nat /\ \A m \in Meddling : m[1] \in Switches => m[2] \in {0, 1}
    /\ MaxCorrections \in Nat /\ MaxRuns \in Nat /\ MaxUndos \in Nat /\ MaxMeddled \in Nat /\ MaxEqTrouble \in Nat

VARIABLES
    eqDesk,        \* what the console holds
    pc,            \* what runs: "idle", the stage of a run, or "undo"
    req,           \* the request of the run
    zone,          \* the zone it is at
    read,          \* what it read of the strip: native.current, wasOn; the inserts
    target,        \* per zone: [kind, leaf, was, active], or [kind |-> "none"]
    saved,         \* savedRta
    rounds,        \* iterations
    runCancelled,  \* opts.signal
    undoLog,       \* what the run has to take back
    lastUndoLog,   \* what undo would take back
    runs, undos, eqTrouble, \* counters
    origin,        \* history: the desk when the run of lastUndoLog began to write
    rtaBefore,     \* history: the analyser when the run began
    eqSince,       \* history: leaves of uncertain value since the run began
    blurred        \* history: the same, for the run of lastUndoLog

run == <<req, zone, read, target, saved, rounds, runCancelled>>
counts == <<runs, undos, eqTrouble>>
history == <<origin, rtaBefore, eqSince, blurred>>
eqVars == <<eqDesk, pc, run, undoLog, lastUndoLog, counts, history>>

NoTarget == [kind |-> "none"]
NoOrigin == [l \in EqLeaves |-> 0]
NoRequest == [apply |-> FALSE, eq |-> [z \in Zones |-> "auto"], cut |-> {}]

(* No run: its local variables hold nothing. *)
NoLocals ==
    [req |-> NoRequest, zone |-> 1, read |-> [peq |-> FALSE],
     target |-> [z \in Zones |-> NoTarget], saved |-> 0, rounds |-> 0, runCancelled |-> FALSE]
Forget ==
    /\ req' = NoLocals.req /\ zone' = NoLocals.zone /\ read' = NoLocals.read
    /\ target' = NoLocals.target /\ saved' = NoLocals.saved /\ rounds' = NoLocals.rounds
    /\ runCancelled' = NoLocals.runCancelled
running == pc # "idle"

-----------------------------------------------------------------------------
(* Calls to the console. *)

Uncertain(ls) == eqSince' = eqSince \cup ls /\ blurred' = blurred \cup ls

(* write() was refused, or threw: whatever comes next is in the catch of   *)
(* run().                                                                  *)
WriteFails(assigned) ==
    /\ eqTrouble < MaxEqTrouble /\ eqTrouble' = eqTrouble + 1
    /\ \/ UNCHANGED <<eqDesk, eqSince, blurred>>
       \/ eqDesk' = assigned @@ eqDesk /\ Uncertain(DOMAIN assigned)
    /\ pc' = "handback"
    /\ UNCHANGED <<undoLog, lastUndoLog, runs, undos, origin, rtaBefore>>

(* write() was acknowledged: what takes it back is remembered at once.     *)
WriteLands(assigned, restore, next) ==
    /\ eqDesk' = assigned @@ eqDesk
    /\ undoLog' = Append(undoLog, restore)
    /\ lastUndoLog' = undoLog'
    /\ IF undoLog = <<>> THEN origin' = eqDesk /\ blurred' = eqSince
                         ELSE UNCHANGED <<origin, blurred>>
    /\ pc' = next
    /\ UNCHANGED <<runs, undos, eqTrouble, rtaBefore, eqSince>>

WriteEq(assigned, restore, next) == WriteLands(assigned, restore, next) \/ WriteFails(assigned)

Quiet(next) == pc' = next /\ UNCHANGED <<eqDesk, undoLog, lastUndoLog, counts, history>>

(* A read fails, a measurement finds no signal, or the caller cancelled.   *)
Break == /\ pc \in {"reference", "prepare", "cut", "on", "resolve", "loaded", "measure"}
         /\ \/ runCancelled /\ pc \in {"reference", "measure"} /\ UNCHANGED eqTrouble
            \/ eqTrouble < MaxEqTrouble /\ eqTrouble' = eqTrouble + 1
         /\ pc' = "handback"
         /\ UNCHANGED <<eqDesk, run, undoLog, lastUndoLog, runs, undos, history>>

-----------------------------------------------------------------------------
(* A run. *)

(* runAutoEqBalance(): nothing else may run.  The checks that follow       *)
(* (validate(), the microphone's calibration, its mute and fader, linked   *)
(* mains) only read.                                                       *)
StartRun(r) ==
    /\ ~running /\ runs < MaxRuns
    /\ runs' = runs + 1 /\ req' = r /\ runCancelled' = FALSE /\ undoLog' = <<>>
    /\ pc' = "checks"
    /\ rtaBefore' = eqDesk[Rta] /\ eqSince' = {}
    /\ UNCHANGED <<eqDesk, zone, read, target, saved, rounds, lastUndoLog, undos, eqTrouble, origin, blurred>>

Reject == pc = "checks" /\ Quiet("idle") /\ Forget

GeqInserted(z) == eqDesk[Insert(z)] \in FxSlots /\ eqDesk[Model(eqDesk[Insert(z)])] = Geq
InUse(s) == \E z \in Zones : eqDesk[Insert(z)] = s
FreeSlots(claimed) == {s \in FxSlots \ claimed : eqDesk[Model(s)] = Empty /\ ~InUse(s)}
Claimed == {target[z].leaf[2] : z \in {y \in Zones : target[y].kind = "geq"}}

(* The dry run of resolveZone() for every zone: a zone that insists on a   *)
(* graphic EQ must have one, or an insert point and a slot of its own.     *)
CanHave ==
    \E f \in [Zones -> FxSlots \cup {0}] :
        /\ \A z \in Zones :
              \/ GeqInserted(z) /\ f[z] = 0
              \/ ~GeqInserted(z) /\ eqDesk[Insert(z)] = NotInserted /\ f[z] \in FreeSlots({})
              \/ req.eq[z] # "geq" /\ f[z] = 0
        /\ \A y, z \in Zones : f[y] = f[z] /\ y # z => f[z] = 0

DryRun == pc = "checks" /\ CanHave /\ Quiet("save") /\ UNCHANGED run

SaveRta ==
    /\ pc = "save" /\ saved' = eqDesk[Rta]
    /\ Quiet("borrow") /\ UNCHANGED <<req, zone, read, target, rounds, runCancelled>>

(* Neither this acknowledgement nor setRtaSource()'s is looked at: a       *)
(* console that refuses is measured with what it shows.                    *)
Borrow ==
    /\ pc = "borrow"
    /\ \/ /\ eqDesk' = (Rta :> Borrowed) @@ eqDesk
          /\ pc' \in {"reference", "handback"}
       \/ eqDesk' = eqDesk /\ pc' \in {"reference", "handback"}
    /\ IF eqDesk' # eqDesk /\ pc' = "reference" THEN UNCHANGED eqTrouble
       ELSE eqTrouble < MaxEqTrouble /\ eqTrouble' = eqTrouble + 1
    /\ UNCHANGED <<run, undoLog, lastUndoLog, runs, undos, history>>

(* capture() of the reference zone: proves that noise is playing before    *)
(* anything else is changed.                                               *)
Reference ==
    /\ pc = "reference" /\ ~runCancelled
    /\ zone' = 1 /\ target' = [z \in Zones |-> NoTarget] /\ rounds' = 0
    /\ pc' = "prepare" /\ eqDesk' = (Rta :> Borrowed) @@ eqDesk
    /\ UNCHANGED <<req, read, saved, runCancelled, undoLog, lastUndoLog, counts, history>>

(* prepareZone(): readNativeEq(), then the cut that was asked for.         *)
ReadNativeEq ==
    /\ pc = "prepare"
    /\ read' = [cut |-> eqDesk[Cut(zone)], wasOn |-> eqDesk[NativeOn(zone)] = 1,
                eq |-> eqDesk[NativeEq(zone)], peq |-> FALSE]
    /\ Quiet(IF req.apply /\ zone \in req.cut THEN "cut" ELSE "resolve")
    /\ UNCHANGED <<req, zone, target, saved, rounds, runCancelled>>

WriteCut ==
    /\ pc = "cut"
    /\ IF read.cut = 1 THEN Quiet("on")
                       ELSE WriteEq(Cut(zone) :> 1, Cut(zone) :> read.cut, "on")
    /\ UNCHANGED run

PeqTarget == [kind |-> "peq", leaf |-> NativeEq(zone), was |-> read.eq, active |-> TRUE]
NextStage == IF zone + 1 \in Zones THEN "prepare" ELSE "measure"
Advance(t) ==
    /\ target' = [target EXCEPT ![zone] = t]
    /\ zone' = IF zone + 1 \in Zones THEN zone + 1 ELSE 1

(* ensureNativeOn(), after a cut or for a zone that falls back to the      *)
(* native EQ.                                                              *)
EnsureNativeOn ==
    /\ pc = "on"
    /\ LET next == IF read.peq THEN NextStage ELSE "resolve"
       IN IF read.wasOn THEN Quiet(next)
                        ELSE WriteEq(NativeOn(zone) :> 1, NativeOn(zone) :> 0, next)
    /\ IF pc' = "handback" THEN UNCHANGED <<zone, read, target>>
       ELSE IF read.peq THEN Advance(PeqTarget) /\ UNCHANGED read
       ELSE read' = [read EXCEPT !.wasOn = TRUE] /\ UNCHANGED <<zone, target>>
    /\ UNCHANGED <<req, saved, rounds, runCancelled>>

(* resolveZone(): the native EQ, when that was asked for or nothing else   *)
(* is to be had and "geq" was not insisted on.                             *)
UsePeq ==
    /\ pc = "resolve"
    /\ \/ req.eq[zone] = "peq"
       \/ /\ req.eq[zone] = "auto" /\ ~GeqInserted(zone)
          /\ eqDesk[Insert(zone)] # NotInserted \/ FreeSlots(Claimed) = {}
    /\ IF req.apply
       THEN /\ read' = [read EXCEPT !.peq = TRUE] /\ Quiet("on")
            /\ UNCHANGED <<zone, target>>
       ELSE Advance([PeqTarget EXCEPT !.active = read.wasOn]) /\ Quiet(NextStage) /\ UNCHANGED read
    /\ UNCHANGED <<req, saved, rounds, runCancelled>>

(* ... the graphic EQ that sits on the strip already, turned on if need    *)
(* be ...                                                                  *)
UseInserted ==
    /\ pc = "resolve" /\ req.eq[zone] # "peq" /\ GeqInserted(zone)
    /\ LET s == eqDesk[Insert(zone)]
           on == eqDesk[InsertOn(zone)] = 1
       IN /\ IF on \/ ~req.apply THEN Quiet(NextStage)
             ELSE WriteEq(InsertOn(zone) :> 1, InsertOn(zone) :> 0, NextStage)
          /\ IF pc' = "handback" THEN UNCHANGED <<zone, target>>
             ELSE Advance([kind |-> "geq", leaf |-> Bands(s), was |-> eqDesk[Bands(s)],
                           active |-> on \/ req.apply])
    /\ UNCHANGED <<req, read, saved, rounds, runCancelled>>

(* ... or a free slot, into which a graphic EQ is loaded (a preview only   *)
(* counts on it): first the model, then, once its bands could be read, the *)
(* insert.                                                                 *)
LoadGeq(s) ==
    /\ pc = "resolve" /\ req.eq[zone] # "peq" /\ ~GeqInserted(zone)
    /\ eqDesk[Insert(zone)] = NotInserted /\ s \in FreeSlots(Claimed)
    /\ IF req.apply
       THEN /\ WriteEq(Model(s) :> Geq, Model(s) :> Empty, "loaded")
            /\ read' = [cut |-> read.cut, wasOn |-> read.wasOn, eq |-> read.eq, peq |-> FALSE,
                         slot |-> s, insertWasOn |-> eqDesk[InsertOn(zone)]]
            /\ UNCHANGED <<zone, target>>
       ELSE /\ Advance([kind |-> "geq", leaf |-> Bands(s), was |-> 0, active |-> FALSE])
            /\ Quiet(NextStage) /\ UNCHANGED read
    /\ UNCHANGED <<req, saved, rounds, runCancelled>>

(* readGeq() of the slot just loaded. *)
InsertGeq ==
    /\ pc = "loaded"
    /\ LET s == read.slot
       IN /\ WriteEq((Insert(zone) :> s) @@ (InsertOn(zone) :> 1),
                   (Insert(zone) :> NotInserted) @@ (InsertOn(zone) :> read.insertWasOn), NextStage)
          /\ IF pc' = "handback" THEN UNCHANGED <<zone, target>>
             ELSE Advance([kind |-> "geq", leaf |-> Bands(s), was |-> eqDesk[Bands(s)], active |-> TRUE])
    /\ UNCHANGED <<req, read, saved, rounds, runCancelled>>

(* The model that was loaded has not the bands it should: it is taken out  *)
(* again, and the zone falls back.                                         *)
UnloadGeq ==
    /\ pc = "loaded"
    /\ LET s == read.slot
           next == IF req.eq[zone] = "geq" THEN "handback" ELSE "on"
       IN WriteEq(Model(s) :> Empty, Model(s) :> Geq, next)
    /\ read' = [read EXCEPT !.peq = TRUE]
    /\ UNCHANGED <<req, zone, target, saved, rounds, runCancelled>>

(* measure(), and what the loop makes of it: converged, out of rounds, or  *)
(* one more correction.                                                    *)
Measure ==
    /\ pc = "measure" /\ ~runCancelled
    /\ \/ pc' = "handback"
       \/ pc' = "correct" /\ rounds < MaxCorrections
    /\ eqDesk' = (Rta :> Borrowed) @@ eqDesk
    /\ UNCHANGED <<run, undoLog, lastUndoLog, counts, history>>

(* applyCorrection() of one zone after the other.  A preview writes        *)
(* nothing and ends here; a round that moved nothing ends the run.         *)
Correct(v) ==
    /\ pc = "correct"
    /\ LET t == target[zone]
           next == IF zone + 1 \in Zones THEN "correct"
                   ELSE IF req.apply THEN "measured" ELSE "handback"
       IN /\ IF v = t.was \/ ~req.apply THEN Quiet(next)
             ELSE WriteEq(t.leaf :> v, t.leaf :> t.was, next)
          /\ IF pc' = "handback" /\ req.apply THEN UNCHANGED <<zone, target>>
             ELSE Advance([t EXCEPT !.was = v, !.active = TRUE])
    /\ UNCHANGED <<req, read, saved, rounds, runCancelled>>

EndRound ==
    /\ pc = "measured" /\ rounds' = rounds + 1
    /\ \/ Quiet("handback") \/ Quiet("measure")
    /\ UNCHANGED <<req, zone, read, target, saved, runCancelled>>

(* notifications/cancelled, at any time. *)
CancelRun ==
    /\ pc \notin {"idle", "undo"} /\ ~runCancelled /\ runCancelled' = TRUE
    /\ UNCHANGED <<eqDesk, pc, req, zone, read, target, saved, rounds, undoLog, lastUndoLog, counts, history>>

(* Mutant: the analyser is only handed back by a run that came to its end. *)
HandBackOnSuccess ==
    /\ pc = "handback"
    /\ \/ eqDesk' = (IF rounds > 0 THEN (Rta :> saved) @@ eqDesk ELSE eqDesk) /\ UNCHANGED <<eqTrouble, eqSince>>
       \/ eqTrouble < MaxEqTrouble /\ eqTrouble' = eqTrouble + 1 /\ eqSince' = eqSince \cup {Rta} /\ eqDesk' = eqDesk
    /\ pc' = "idle" /\ undoLog' = <<>> /\ Forget
    /\ UNCHANGED <<lastUndoLog, runs, undos, origin, rtaBefore, blurred>>

(* restoreRta(), on every path out; the finally of runAutoEqBalance().     *)
HandBack ==
    /\ pc = "handback"
    /\ \/ eqDesk' = (Rta :> saved) @@ eqDesk /\ UNCHANGED <<eqTrouble, eqSince>>
       \/ /\ eqTrouble < MaxEqTrouble /\ eqTrouble' = eqTrouble + 1
          /\ eqSince' = eqSince \cup {Rta} /\ eqDesk' = eqDesk
    /\ pc' = "idle" /\ undoLog' = <<>> /\ Forget
    /\ UNCHANGED <<lastUndoLog, runs, undos, origin, rtaBefore, blurred>>

-----------------------------------------------------------------------------
(* Undo. *)

StartUndo ==
    /\ ~running /\ lastUndoLog # <<>> /\ undos < MaxUndos
    /\ undos' = undos + 1 /\ pc' = "undo"
    /\ UNCHANGED <<eqDesk, run, undoLog, lastUndoLog, runs, eqTrouble, history>>

(* Mutant: an entry is forgotten as soon as it is sent. *)
UndoOneForgetting ==
    /\ pc = "undo" /\ lastUndoLog # <<>>
    /\ LET entry == lastUndoLog[Len(lastUndoLog)]
       IN \/ eqDesk' = entry @@ eqDesk /\ UNCHANGED <<pc, eqTrouble>>
          \/ eqTrouble < MaxEqTrouble /\ eqTrouble' = eqTrouble + 1 /\ eqDesk' = eqDesk /\ pc' = "idle"
    /\ lastUndoLog' = SubSeq(lastUndoLog, 1, Len(lastUndoLog) - 1)
    /\ UNCHANGED <<run, undoLog, runs, undos, history>>

(* One entry, the latest first: it is forgotten once the console has it    *)
(* back, and an undo that stops part-way can be run again.                 *)
UndoOne ==
    /\ pc = "undo" /\ lastUndoLog # <<>>
    /\ LET entry == lastUndoLog[Len(lastUndoLog)]
       IN \/ /\ eqDesk' = entry @@ eqDesk
             /\ lastUndoLog' = SubSeq(lastUndoLog, 1, Len(lastUndoLog) - 1)
             /\ UNCHANGED <<pc, eqTrouble>>
          \/ /\ eqTrouble < MaxEqTrouble /\ eqTrouble' = eqTrouble + 1
             /\ eqDesk' \in {eqDesk, entry @@ eqDesk}
             /\ pc' = "idle" /\ UNCHANGED lastUndoLog
    /\ UNCHANGED <<run, undoLog, runs, undos, history>>

UndoDone ==
    /\ pc = "undo" /\ lastUndoLog = <<>>
    /\ pc' = "idle" /\ blurred' = {} /\ origin' = NoOrigin
    /\ UNCHANGED <<eqDesk, run, undoLog, lastUndoLog, counts, rtaBefore, eqSince>>

(* Somebody else, at the desk or through another call. *)
MeddleEq(l, v) ==
    /\ Cardinality(eqSince) < MaxMeddled /\ l \notin eqSince /\ eqDesk[l] # v
    /\ eqDesk' = [eqDesk EXCEPT ![l] = v] /\ Uncertain({l})
    /\ UNCHANGED <<pc, run, undoLog, lastUndoLog, counts, origin, rtaBefore>>

-----------------------------------------------------------------------------
EqInit ==
    /\ eqDesk \in Rigs /\ pc = "idle" /\ undoLog = <<>> /\ lastUndoLog = <<>>
    /\ req = NoLocals.req /\ zone = NoLocals.zone /\ read = NoLocals.read
    /\ target = NoLocals.target /\ saved = NoLocals.saved /\ rounds = NoLocals.rounds
    /\ runCancelled = NoLocals.runCancelled /\ runs = 0 /\ undos = 0 /\ eqTrouble = 0
    /\ origin = NoOrigin /\ rtaBefore = eqDesk[Rta] /\ eqSince = {} /\ blurred = {}

Stages ==
    \/ Reject \/ DryRun \/ SaveRta \/ Borrow \/ Reference \/ Break
    \/ ReadNativeEq \/ WriteCut \/ EnsureNativeOn \/ UsePeq \/ UseInserted
    \/ \E s \in FxSlots : LoadGeq(s)
    \/ InsertGeq \/ UnloadGeq \/ Measure
    \/ \E v \in Levels : Correct(v)
    \/ EndRound \/ HandBack \/ UndoOne \/ UndoDone

EqNext ==
    \/ Stages \/ CancelRun \/ StartUndo
    \/ \E r \in Requests : StartRun(r)
    \/ \E m \in Meddling : MeddleEq(m[1], m[2])

EqSpec == EqInit /\ [][EqNext]_eqVars

-----------------------------------------------------------------------------
(* An undo that reports success has brought back every leaf the run        *)
(* changed, over whatever stages and rounds, failures and retries: all of  *)
(* them are what they were when the run began, but those somebody else     *)
(* wrote to meanwhile and those whose write failed without an answer.      *)
UndoRestoresRun ==
    [][UndoDone => \A l \in EqLeaves \ ({Rta} \cup blurred) : eqDesk[l] = origin[l]]_eqVars

(* However a run ends, cancelled, refused half-way or failed in any of its *)
(* calls, the analyser shows what it showed before, unless the console     *)
(* could not be reached for that last write or somebody else changed it.   *)
RtaIsHandedBack == ~running /\ Rta \notin eqSince => eqDesk[Rta] = rtaBefore
=============================================================================
