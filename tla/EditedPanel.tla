----------------------------- MODULE EditedPanel -----------------------------
(***************************************************************************)
(* A panel of the dashboard drawn from the console's own description of a  *)
(* node (web/src/components/ParamPanel.tsx, param-edits.ts): what the user *)
(* sets is shown at once, over the values last read, until the console has *)
(* been read again after the write came back.  The console may clamp a     *)
(* value, refuse it, or take it without an answer; a new model             *)
(* (`Structural`) brings its other parameters along.                       *)
(***************************************************************************)
EXTENDS Naturals, Sequences

CONSTANTS
    Fields, Structural, \* the panel's parameters; those that reshape the rest
    Settings,           \* what a parameter may be
    Default,            \* what a new model starts from
    Unset,
    MaxSets,            \* bound: values set
    MaxReads,           \* bound: reads asked for by hand
    MaxFaults           \* bound: writes clamped, refused or unanswered, reads failed

ASSUME EditedPanelAssumption ==
    /\ Structural \subseteq Fields /\ Default \in Settings /\ Unset \notin Settings
    /\ {MaxSets, MaxReads, MaxFaults} \subseteq Nat

VARIABLES
    desk,      \* what the console has
    panel,     \* panel.values: what the last read brought
    edits,     \* per field: what the user set, [value, seq], or Unset
    pseq,      \* ParamEdits.seq
    inFlight, upTo, \* per field: writes on their way, the newest edit whose write came back
    slid,      \* per field: the value a slider's throttle still holds, or Unset
    wire,      \* writes on their way: [key, value, seq]
    replies,   \* and back: [key, seq, failed]
    readTimer, \* the read-back timer runs
    reading,   \* the query under way: [st: "no", "asked" or "read", values]
    unread,    \* history: a read failed and none has come since
    handReads, faults

bookkeeping == <<edits, pseq, inFlight, upTo>>
panelVars == <<desk, panel, bookkeeping, slid, wire, replies, readTimer, reading, unread, handReads, faults>>

(* shown() *)
Shown == [k \in Fields |-> IF edits[k] = Unset THEN panel[k] ELSE edits[k].value]
(* isSettled() *)
IsSettled(es, k, flying, back) == es[k] # Unset /\ flying[k] = 0 /\ back[k] >= es[k].seq
Quiet == /\ wire = <<>> /\ replies = <<>> /\ ~readTimer /\ reading.st = "no"
         /\ \A k \in Fields : slid[k] = Unset

(* edit(): what was set under another model is forgotten. *)
Edited(k, v) ==
    /\ pseq' = pseq + 1
    /\ edits' = [o \in Fields |-> IF o = k THEN [value |-> v, seq |-> pseq + 1]
                                  ELSE IF k \in Structural THEN Unset ELSE edits[o]]
(* write() up to its await *)
Sending(k, v, seq) ==
    /\ inFlight' = [inFlight EXCEPT ![k] = @ + 1] /\ readTimer' = FALSE
    /\ wire' = Append(wire, [key |-> k, value |-> v, seq |-> seq])

(* A choice, a switch, a number confirmed: set. *)
Set(k, v) ==
    /\ pseq < MaxSets /\ v # Shown[k]
    /\ Edited(k, v) /\ Sending(k, v, pseq + 1)
    /\ UNCHANGED <<desk, panel, upTo, slid, replies, reading, unread, handReads, faults>>

(* A slider between two throttled writes, a text being typed. *)
Slide(k, v) ==
    /\ pseq < MaxSets /\ v # Shown[k] /\ k \notin Structural
    /\ Edited(k, v) /\ slid' = [slid EXCEPT ![k] = v]
    /\ UNCHANGED <<desk, panel, inFlight, upTo, wire, replies, readTimer, reading, unread, handReads, faults>>

(* The throttle's timer, or the field is left: the value is written unless *)
(* a change of model has dropped it.                                       *)
SlideWritten(k) ==
    /\ slid[k] # Unset /\ slid' = [slid EXCEPT ![k] = Unset]
    /\ IF edits[k] = Unset THEN UNCHANGED <<inFlight, readTimer, wire>>
       ELSE Sending(k, slid[k], edits[k].seq)
    /\ UNCHANGED <<desk, panel, edits, pseq, upTo, replies, reading, unread, handReads, faults>>

Fault == faults < MaxFaults /\ faults' = faults + 1
(* The console takes a value, with what a new model brings. *)
Taken(k, v) == [o \in Fields |-> IF o = k THEN v
                                 ELSE IF k \in Structural /\ v # desk[k] THEN Default ELSE desk[o]]

DeskTakes ==
    /\ wire # <<>> /\ wire' = Tail(wire)
    /\ LET m == Head(wire)
           Reply(failed) == replies' = Append(replies, [key |-> m.key, seq |-> m.seq, failed |-> failed])
       IN \/ desk' = Taken(m.key, m.value) /\ Reply(FALSE) /\ UNCHANGED faults
          \/ Fault /\ (\E v \in Settings : desk' = Taken(m.key, v)) /\ \E failed \in BOOLEAN : Reply(failed)
          \/ Fault /\ UNCHANGED desk /\ Reply(TRUE)
    /\ UNCHANGED <<panel, bookkeeping, slid, readTimer, reading, unread, handReads>>

(* answered() *)
AnswerCounted(a) ==
    LET flying == [inFlight EXCEPT ![a.key] = @ - 1]
        back == [upTo EXCEPT ![a.key] = IF a.seq > @ THEN a.seq ELSE @]
    IN /\ inFlight' = flying /\ upTo' = back
       /\ edits' = IF a.failed /\ IsSettled(edits, a.key, flying, back) THEN [edits EXCEPT ![a.key] = Unset] ELSE edits

(* Mutant: only a write that took is read back. *)
AnsweredReadIfTaken ==
    /\ replies # <<>> /\ replies' = Tail(replies)
    /\ AnswerCounted(Head(replies)) /\ readTimer' = ~Head(replies).failed
    /\ UNCHANGED <<desk, panel, pseq, slid, wire, reading, unread, handReads, faults>>

(* write() from its await on: the read-back starts anew. *)
PanelAnswered ==
    /\ replies # <<>> /\ replies' = Tail(replies)
    /\ AnswerCounted(Head(replies)) /\ readTimer' = TRUE
    /\ UNCHANGED <<desk, panel, pseq, slid, wire, reading, unread, handReads, faults>>

(* onRefresh(): a read under way is given up for a new one. *)
AskAgain == reading' = [reading EXCEPT !.st = "asked"]
ReadBack ==
    /\ readTimer /\ readTimer' = FALSE
    /\ IF \E k \in Fields : inFlight[k] > 0 THEN UNCHANGED reading ELSE AskAgain
    /\ UNCHANGED <<desk, panel, bookkeeping, slid, wire, replies, unread, handReads, faults>>
RefreshByHand ==
    /\ handReads < MaxReads /\ handReads' = handReads + 1 /\ AskAgain
    /\ UNCHANGED <<desk, panel, bookkeeping, slid, wire, replies, readTimer, unread, faults>>

DescribeRead ==
    /\ reading.st = "asked" /\ reading' = [st |-> "read", values |-> desk]
    /\ UNCHANGED <<desk, panel, bookkeeping, slid, wire, replies, readTimer, unread, handReads, faults>>
DescribeFails ==
    /\ reading.st = "asked" /\ Fault /\ reading' = [reading EXCEPT !.st = "no"] /\ unread' = TRUE
    /\ UNCHANGED <<desk, panel, bookkeeping, slid, wire, replies, readTimer, handReads>>

(* consoleRead(): what has been written and answered gives way. *)
PanelRead ==
    /\ reading.st = "read" /\ reading' = [reading EXCEPT !.st = "no"]
    /\ panel' = reading.values /\ unread' = FALSE
    /\ edits' = [k \in Fields |-> IF IsSettled(edits, k, inFlight, upTo) THEN Unset ELSE edits[k]]
    /\ UNCHANGED <<desk, pseq, inFlight, upTo, slid, wire, replies, readTimer, handReads, faults>>

PanelInit ==
    /\ desk = [k \in Fields |-> Default] /\ panel = desk
    /\ edits = [k \in Fields |-> Unset] /\ pseq = 0
    /\ inFlight = [k \in Fields |-> 0] /\ upTo = inFlight
    /\ slid = [k \in Fields |-> Unset] /\ wire = <<>> /\ replies = <<>>
    /\ readTimer = FALSE /\ reading = [st |-> "no", values |-> desk]
    /\ unread = FALSE /\ handReads = 0 /\ faults = 0

PanelProgress ==
    \/ DeskTakes \/ PanelAnswered \/ ReadBack \/ DescribeRead \/ PanelRead
    \/ \E k \in Fields : SlideWritten(k)
PanelNext ==
    \/ PanelProgress \/ RefreshByHand \/ DescribeFails
    \/ \E k \in Fields, v \in Settings : Set(k, v) \/ Slide(k, v)

(* The timers, the console and the network each get to their next step. *)
PanelFairness == WF_panelVars(PanelProgress)

(* Once the user stops, the panel shows what the console has, field by     *)
(* field: whatever it clamped, refused, or took without saying so, and     *)
(* whatever was read, coalesced or remodelled in between; only the failure *)
(* of the last read leaves it behind.                                      *)
PanelSettles == <>[](Quiet /\ (unread \/ Shown = desk))
=============================================================================
