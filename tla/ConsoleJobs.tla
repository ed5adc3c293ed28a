---------------------------- MODULE ConsoleJobs -----------------------------
(***************************************************************************)
(* The operations that drive the console through many calls: automatic    *)
(* gain, gate and compressor (plugins/wing/wing-autogain.ts,               *)
(* wing-auto-gate.ts, wing-auto-compress.ts), copying and swapping strips  *)
(* (wing-channel-copy.ts), loading a preset (wing-preset-engine.ts).       *)
(*                                                                         *)
(* One operation at a time, from any desk, while others work at the desk,  *)
(* the caller may cancel, and calls are refused or fail.  A strip is two   *)
(* leaves, its contents and its mute; measurements have any outcome.       *)
(***************************************************************************)
EXTENDS Naturals, Integers, Sequences, FiniteSets, Assignments

CONSTANTS
    Values,       \* what a leaf may hold; 0 is off, flat, unmuted
    Desks,        \* desks to begin with
    Presets,      \* preset files: a sequence of slots, each a sequence of sections
    TopControl,   \* the range of a compressor's control is 0..TopControl
    MaxRounds,    \* opts.maxIterations
    Streak,       \* AUTO_COMPRESS_TARGET_UNRESPONSIVE_STREAK
    MaxForeign,   \* bound: leaves others write to
    MaxTrouble    \* bound: calls that are refused or fail

Leaves == {"A", "muteA", "B", "muteB", "sidechain", "trim", "preamp", "thr", "on", "makeup"}
None == <<>>

(* What one bulk-set of a preset's slot assigns. *)
Sections == UNION {[S -> Values] : S \in SUBSET Leaves}

ASSUME JobAssumption ==
    /\ Values \subseteq Nat /\ {0, 1} \subseteq Values /\ Desks \subseteq [Leaves -> Values]
    /\ \A p \in Presets : p \in Seq(Seq(Sections))
    /\ \A p \in Presets : \A i, k \in DOMAIN p :    \* no two slots go to the same strip
          \A j \in DOMAIN p[i], n \in DOMAIN p[k] : i # k => DOMAIN p[i][j] \cap DOMAIN p[k][n] = {}
    /\ TopControl \in Values /\ MaxRounds \in Nat \ {0} /\ Streak \in Nat \ {0}
    /\ MaxForeign \in Nat /\ MaxTrouble \in Nat

VARIABLES
    desk,       \* what the console holds
    op,         \* the operation, "none" before
    stage,      \* how far it got, "over" in the end
    mem,        \* its local variables
    todo,       \* writes still to be made: [set, kind]
    cancelled,  \* opts.signal
    trouble,    \* calls that were refused or failed
    report,     \* what it answered: "none", "ok", "error"
    claim,      \* what the answer says is in place now
    before,     \* history: the desk when it began
    since,      \* history: leaves others wrote to, or whose write went unanswered
    late        \* history: something was written after the cancellation, but for
                \*   the write that turns a slot on or sets its control

job == <<op, stage, mem, todo, report, claim>>
vars == <<desk, job, cancelled, trouble, before, since, late>>

-----------------------------------------------------------------------------
(* bulkSet(): acknowledged, refused, or thrown, landed or not. *)
Bulk(set, result) ==
    /\ late' = (late \/ (cancelled /\ stage \notin {"search", "set"}))
    /\ \/ result = "ok" /\ desk' = set @@ desk /\ UNCHANGED <<trouble, since>>
       \/ result = "refused" /\ trouble < MaxTrouble /\ trouble' = trouble + 1 /\ UNCHANGED <<desk, since>>
       \/ /\ result = "thrown" /\ trouble < MaxTrouble /\ trouble' = trouble + 1
          /\ desk' \in {desk, set @@ desk} /\ since' = since \cup DOMAIN set
Results == {"ok", "refused", "thrown"}
Still == UNCHANGED <<desk, trouble, since, late>>

Goto(s) == stage' = s /\ UNCHANGED <<op, todo, report, claim>>
Answer(r, c) ==
    /\ stage' = "over" /\ report' = r /\ claim' = c
    /\ todo' = <<>> /\ UNCHANGED op
Throw == Answer("error", None)
At(o, s) == op = o /\ stage = s

(* A read fails, no meter data comes, no signal, a value out of reach. *)
Fails == trouble < MaxTrouble /\ trouble' = trouble + 1 /\ UNCHANGED <<desk, since, late>>

Begin(o, s, m) ==
    /\ op = "none" /\ op' = o /\ stage' = s /\ mem' = m /\ before' = desk
    /\ UNCHANGED <<desk, todo, cancelled, trouble, report, claim, since, late>>

-----------------------------------------------------------------------------
(* runCombinedAutoGain(). *)

StartGain == \E mode \in {"gain", "trim", "both"} : Begin("gain", "source", [mode |-> mode, trim |-> 0, done |-> FALSE])

(* resolvePhysicalSource(); without one, "gain" has nothing to do. *)
FindSource ==
    /\ At("gain", "source") /\ Still /\ UNCHANGED mem
    /\ \/ mem.mode # "trim" /\ Goto("trim")
       \/ mem.mode = "gain" /\ Throw
       \/ mem.mode # "gain" /\ Goto("trimpass")

ReadTrim ==
    /\ At("gain", "trim")
    /\ \/ Still /\ mem' = [mem EXCEPT !.trim = desk["trim"]] /\ Goto("zero")
       \/ Fails /\ Throw /\ UNCHANGED mem

(* The strip's trim must not bias the measurement. *)
ZeroTrim ==
    /\ At("gain", "zero") /\ UNCHANGED mem
    /\ \E r \in Results :
          /\ Bulk("trim" :> 0, r)
          /\ IF r = "thrown" THEN Throw ELSE Goto("gainpass")

(* runAutoGain() on the preamplifier: what it throws is caught. *)
GainPass(v, clamped) ==
    /\ At("gain", "gainpass")
    /\ \/ Fails /\ Goto("restore") /\ UNCHANGED mem
       \/ \E r \in Results :
             /\ Bulk("preamp" :> v, r)
             /\ mem' = [mem EXCEPT !.done = r # "thrown"]
             /\ IF r = "thrown" THEN Goto("restore")
                ELSE IF mem.mode = "both" /\ clamped THEN Goto("trimpass")
                ELSE Answer("ok", None)

(* Mutant: the trim stays where the measurement needed it. *)
RestoreTrimForgotten == At("gain", "restore") /\ UNCHANGED mem /\ Still /\ Throw

(* Best effort, then the error is thrown on. *)
RestoreTrim ==
    /\ At("gain", "restore") /\ UNCHANGED mem /\ Throw
    /\ \/ Bulk("trim" :> mem.trim, "ok")
       \/ /\ trouble < MaxTrouble /\ trouble' = trouble + 1
          /\ since' = since \cup {"trim"} /\ UNCHANGED <<desk, late>>

(* runAutoGain() on the trim. *)
TrimPass(v) ==
    /\ At("gain", "trimpass")
    /\ \/ Fails /\ Throw /\ UNCHANGED mem
       \/ \E r \in Results :
             /\ Bulk("trim" :> v, r)
             /\ mem' = [mem EXCEPT !.done = TRUE]
             /\ IF r = "thrown" THEN Throw ELSE Answer("ok", None)

-----------------------------------------------------------------------------
(* runAutoGate(): one sample, one write, a moment to settle. *)

StartGate == Begin("gate", "sample", None)

GateSample ==
    /\ At("gate", "sample") /\ UNCHANGED mem
    /\ \/ cancelled /\ Still /\ Throw
       \/ Fails /\ Throw
       \/ /\ ~cancelled
          /\ \E r \in Results :
                /\ Bulk(("thr" :> 1) @@ ("on" :> 1), r)
                /\ IF r = "thrown" THEN Throw ELSE Goto("settle")

GateSettle ==
    /\ At("gate", "settle") /\ Still /\ UNCHANGED mem
    /\ IF cancelled THEN Throw ELSE Answer("ok", None)

-----------------------------------------------------------------------------
(* runAutoCompress(). *)

(* The search: its control's setting, the direction that is believed to    *)
(* bring more reduction, whether that was turned round, the streaks.       *)
StartCompress ==
    \E m \in {"search", "set", "balance"}, p \in {1, -1} :
        Begin("compress", m, [control |-> desk["thr"], polarity |-> p, flipped |-> FALSE, flat |-> 0,
                              worse |-> 0, rounds |-> 0, touched |-> FALSE, stop |-> "max-iterations"])

(* The slot is turned on first, and nothing else is changed if it refuses. *)
TurnOn ==
    /\ At("compress", "search") /\ UNCHANGED mem
    /\ IF desk["on"] = 1 THEN Still /\ Goto("measure")
       ELSE \E r \in Results : Bulk("on" :> 1, r) /\ IF r = "ok" THEN Goto("settle") ELSE Throw

(* What a round makes of the reading, against the round before: a better   *)
(* one clears the streaks; Streak worse ones in a row turn the search      *)
(* round, once; so do Streak flat ones, and after that it gives up.        *)
Judge(m, reading) ==
    CASE m.rounds = 0 -> m
      [] reading = "better" /\ m.rounds > 0 -> [m EXCEPT !.flat = 0, !.worse = 0]
      [] reading = "worse" /\ m.rounds > 0 ->
            LET turn == ~m.flipped /\ m.worse + 1 >= Streak
            IN [m EXCEPT !.flat = 0, !.worse = IF m.flipped \/ turn THEN 0 ELSE @ + 1,
                         !.polarity = IF turn THEN -@ ELSE @, !.flipped = @ \/ turn]
      [] reading = "flat" /\ m.rounds > 0 ->
            LET full == m.flat + 1 >= Streak
            IN [m EXCEPT !.flat = IF full /\ ~m.flipped THEN 0 ELSE @ + 1,
                         !.polarity = IF full /\ ~m.flipped THEN -@ ELSE @, !.flipped = @ \/ full,
                         !.stop = IF full /\ m.flipped THEN "unresponsive" ELSE @]

Clamp(v) == IF v < 0 THEN 0 ELSE IF v > TopControl THEN TopControl ELSE v

(* The next setting; a first move blocked by the range tries the other     *)
(* way before the range counts as exhausted.                               *)
NextMove(m, sign) ==
    LET way(p) == Clamp(m.control + p * sign)
        turn == way(m.polarity) = m.control /\ ~m.touched /\ ~m.flipped
        n == IF turn THEN [m EXCEPT !.polarity = -@, !.flipped = TRUE] ELSE m
    IN IF way(n.polarity) = m.control THEN [n EXCEPT !.stop = "range-exhausted"]
       ELSE [n EXCEPT !.control = way(n.polarity)]

(* Mutant: a cancellation is only looked at before a measurement's         *)
(* result is used.                                                         *)
SearchUnaware(reading, sign) ==
    /\ At("compress", "measure")
    /\ \/ Still /\ reading = "there" /\ mem' = [mem EXCEPT !.stop = "converged"] /\ Goto("makeup")
       \/ /\ reading # "there"
          /\ LET m == NextMove(Judge(mem, reading), sign)
             IN IF m.stop # "max-iterations" THEN Still /\ mem' = m /\ Goto("makeup")
                ELSE /\ Bulk("thr" :> m.control, "ok")
                     /\ mem' = [m EXCEPT !.touched = TRUE, !.rounds = @ + 1] /\ Goto("settle")

(* One round, from the end of the sampling window to the write. *)
Search(reading, sign) ==
    /\ At("compress", "measure")
    /\ \/ cancelled /\ Still /\ Throw /\ UNCHANGED mem
       \/ ~cancelled /\ Fails /\ Throw /\ UNCHANGED mem
       \/ /\ ~cancelled /\ Still /\ reading = "there"
          /\ mem' = [mem EXCEPT !.stop = "converged"] /\ Goto("makeup")
       \/ /\ ~cancelled /\ reading # "there"
          /\ LET judged == Judge(mem, reading)
                 m == IF judged.stop = "unresponsive" THEN judged ELSE NextMove(judged, sign)
             IN IF m.stop # "max-iterations" THEN Still /\ mem' = m /\ Goto("makeup")
                ELSE \E r \in Results :
                        /\ Bulk("thr" :> m.control, r)
                        /\ mem' = [m EXCEPT !.touched = TRUE, !.rounds = @ + 1]
                        /\ IF r = "ok" THEN Goto("settle") ELSE Throw

(* The settle delay after a write; the loop ends when its rounds are used  *)
(* up, whatever the last move did.                                         *)
Settle ==
    /\ At("compress", "settle") /\ Still /\ UNCHANGED mem
    /\ IF cancelled THEN Throw
       ELSE Goto(IF mem.rounds = MaxRounds THEN "makeup" ELSE "measure")

(* thresholdDb or inputGainDb: one write, then a sample; "balance" only    *)
(* samples.                                                                *)
SetControl(v) ==
    /\ At("compress", "set") /\ UNCHANGED mem
    /\ \E r \in Results :
          /\ Bulk(("thr" :> Clamp(v)) @@ ("on" :> 1), r)
          /\ IF r = "ok" THEN Goto("balance") ELSE Throw

Balance ==
    /\ At("compress", "balance") /\ UNCHANGED mem
    /\ \/ cancelled /\ Still /\ Throw
       \/ Fails /\ Throw
       \/ ~cancelled /\ Still /\ Goto("makeup")

(* The makeup gain follows the last sample without another await. *)
Makeup(v) ==
    /\ At("compress", "makeup") /\ UNCHANGED mem
    /\ \E r \in Results :
          /\ Bulk("makeup" :> v, r)
          /\ IF r = "thrown" THEN Throw ELSE Answer("ok", None)

-----------------------------------------------------------------------------
(* transferChannel(). *)

Mute(base) == IF base = "A" THEN "muteA" ELSE "muteB"
Write(set, kind) == [set |-> set, kind |-> kind]

(* Mutant: the second strip is planned from what the first one has become. *)
PlanOneAfterTheOther(mode) ==
    IF mode = "copy" THEN <<("B" :> desk["A"]) @@ ("muteB" :> desk["muteA"])>>
    ELSE <<("A" :> desk["B"]) @@ ("muteA" :> desk["muteB"]),
           ("B" :> desk["B"]) @@ ("muteB" :> desk["muteB"])>>

(* What each strip becomes, from the dumps taken before any write. *)
Plan(mode) ==
    IF mode = "copy" THEN <<("B" :> desk["A"]) @@ ("muteB" :> desk["muteA"])>>
    ELSE <<("A" :> desk["B"]) @@ ("muteA" :> desk["muteB"]),
           ("B" :> desk["A"]) @@ ("muteB" :> desk["muteA"])>>

(* The strip a part of the plan is for; what is written of it while the    *)
(* strip is muted.                                                         *)
Base(p) == IF "A" \in DOMAIN p THEN "A" ELSE "B"
Unmuted(p, muteDuring) == IF muteDuring THEN Base(p) :> p[Base(p)] ELSE p

(* The writes in order: mutes on, strips (each written and read back),     *)
(* mutes settled, references.                                              *)
MutesOn(plan) == [i \in DOMAIN plan |-> Write(Mute(Base(plan[i])) :> 1, "mute")]
StripWrites(plan, muteDuring) ==
    [i \in 1..2 * Len(plan) |->
        Write(Unmuted(plan[(i + 1) \div 2], muteDuring), IF i % 2 = 1 THEN "strip" ELSE "check")]
MutesSettled(plan) == [i \in DOMAIN plan |-> Write(Mute(Base(plan[i])) :> plan[i][Mute(Base(plan[i]))], "mute")]

Transfer(mode, muteDuring, refs) ==
    LET plan == Plan(mode)
    IN (IF muteDuring THEN MutesOn(plan) ELSE <<>>)
       \o StripWrites(plan, muteDuring)
       \o (IF muteDuring THEN MutesSettled(plan) ELSE <<>>)
       \o (IF refs THEN <<Write("sidechain" :> 1 - desk["sidechain"], "mute")>> ELSE <<>>)

StartTransfer ==
    \E mode \in {"copy", "swap"}, muteDuring \in BOOLEAN, refs \in BOOLEAN :
        /\ op = "none" /\ (refs => mode = "swap")
        /\ desk["sidechain"] \in {0, 1}
        /\ op' = "transfer" /\ stage' = "write" /\ before' = desk
        /\ todo' = Transfer(mode, muteDuring, refs) /\ mem' = [ok |-> TRUE]
        /\ UNCHANGED <<desk, cancelled, trouble, report, claim, since, late>>

(* writeStrip() looks at the acknowledgements, the other writes do not.    *)
TransferWrite ==
    /\ At("transfer", "write") /\ todo # <<>> /\ Head(todo).kind # "check"
    /\ \E r \in Results :
          LET w == Head(todo)
          IN /\ Bulk(w.set, r)
             /\ mem' = [mem EXCEPT !.ok = @ /\ ~(r = "refused" /\ w.kind = "strip")]
             /\ IF r = "thrown" THEN Throw
                ELSE /\ todo' = Tail(todo)
                     /\ claim' = IF w.kind = "strip" THEN [l \in DOMAIN w.set \cap {"A", "B"} |-> w.set[l]] @@ claim
                                                     ELSE claim
                     /\ UNCHANGED <<op, stage, report>>

(* ... and reads the strip back: what is not as planned is a mismatch.     *)
ReadBack ==
    /\ At("transfer", "write") /\ todo # <<>> /\ Head(todo).kind = "check"
    /\ \/ Fails /\ Throw /\ UNCHANGED mem
       \/ /\ Still /\ todo' = Tail(todo) /\ UNCHANGED <<op, stage, report, claim>>
          /\ mem' = [mem EXCEPT !.ok = @ /\ \A l \in DOMAIN Head(todo).set : desk[l] = Head(todo).set[l]]

TransferDone ==
    /\ At("transfer", "write") /\ todo = <<>> /\ Still /\ UNCHANGED mem
    /\ Answer(IF mem.ok THEN "ok" ELSE "error", IF mem.ok THEN claim ELSE None)

-----------------------------------------------------------------------------
(* performPresetLoad(): strip by strip, and restoreSlot(): one bulk-set    *)
(* per section.                                                            *)

StartLoad == \E p \in Presets : Begin("load", "slot", [slots |-> p, ok |-> TRUE, applied |-> None])

(* The next slot; the rest is given up once the console is unavailable.    *)
NextSlot ==
    /\ At("load", "slot") /\ Still
    /\ IF mem.slots = <<>> THEN Answer("ok", claim) /\ UNCHANGED mem
       ELSE /\ todo' = [i \in DOMAIN Head(mem.slots) |-> Write(Head(mem.slots)[i], "section")]
            /\ mem' = [mem EXCEPT !.slots = Tail(@), !.ok = TRUE, !.applied = None]
            /\ stage' = "section" /\ UNCHANGED <<op, report, claim>>

(* Mutant: a section that was refused does not spoil its slot. *)
SectionUnnoticed ==
    /\ At("load", "section") /\ todo # <<>>
    /\ \E r \in Results :
          /\ Bulk(Head(todo).set, r)
          /\ mem' = [mem EXCEPT !.applied = Head(todo).set @@ @]
          /\ IF r = "thrown" THEN Answer("ok", claim)
             ELSE todo' = Tail(todo) /\ UNCHANGED <<op, stage, report, claim>>

(* A section that is refused spoils its slot, and the rest of it goes on;  *)
(* an exception ends the slot, and all others too when the console is      *)
(* unavailable.                                                            *)
Section ==
    /\ At("load", "section") /\ todo # <<>>
    /\ \E r \in Results :
          /\ Bulk(Head(todo).set, r)
          /\ mem' = [mem EXCEPT !.ok = @ /\ r = "ok", !.applied = Head(todo).set @@ @]
          /\ IF r = "thrown" THEN \/ Answer("ok", claim)
                                 \/ (stage' = "slot" /\ todo' = <<>> /\ UNCHANGED <<op, report, claim>>)
             ELSE todo' = Tail(todo) /\ UNCHANGED <<op, stage, report, claim>>

(* The outcome of a slot: "ok" only when no section was refused. *)
SlotDone ==
    /\ At("load", "section") /\ todo = <<>> /\ Still /\ UNCHANGED <<mem, op, todo, report>>
    /\ stage' = "slot"
    /\ claim' = IF mem.ok THEN mem.applied @@ claim ELSE claim

-----------------------------------------------------------------------------
(* notifications/cancelled; between the last sample and the makeup gain    *)
(* nothing is awaited.                                                     *)
Cancel ==
    /\ op \in {"gate", "compress"} /\ stage \notin {"over", "makeup"}
    /\ ~cancelled /\ cancelled' = TRUE
    /\ UNCHANGED <<desk, job, trouble, before, since, late>>

(* Somebody else. *)
Meddle(l, v) ==
    /\ op # "none" /\ stage # "over" /\ Cardinality(since) < MaxForeign
    /\ l \notin since /\ desk[l] # v
    /\ desk' = [desk EXCEPT ![l] = v] /\ since' = since \cup {l}
    /\ UNCHANGED <<job, cancelled, trouble, before, late>>

Init ==
    /\ desk \in Desks /\ op = "none" /\ stage = "none" /\ mem = None /\ todo = <<>>
    /\ cancelled = FALSE /\ trouble = 0 /\ report = "none" /\ claim = None
    /\ before = desk /\ since = {} /\ late = FALSE

Start == StartGain \/ StartGate \/ StartCompress \/ StartTransfer \/ StartLoad

Work ==
    \/ FindSource \/ ReadTrim \/ ZeroTrim \/ RestoreTrim
    \/ \E v \in Values : GainPass(v, TRUE) \/ GainPass(v, FALSE) \/ TrimPass(v)
    \/ GateSample \/ GateSettle
    \/ TurnOn \/ Settle \/ Balance
    \/ \E r \in {"better", "worse", "flat", "there"}, s \in {1, -1} : Search(r, s)
    \/ \E v \in Values : SetControl(v) \/ Makeup(v)
    \/ TransferWrite \/ ReadBack \/ TransferDone
    \/ NextSlot \/ Section \/ SlotDone

Next ==
    \/ Start
    \/ Work /\ UNCHANGED <<cancelled, before>>
    \/ Cancel
    \/ \E l \in {"A", "trim", "thr"}, v \in {1} : Meddle(l, v)

Spec == Init /\ [][Next]_vars

-----------------------------------------------------------------------------
(* What an answer claims is so: a copy or swap that reports ok has put     *)
(* there what the strips held before any write, however the writes of the  *)
(* two strips and their mutes overlap, and a preset's slot that reports ok *)
(* holds what the preset has, except where somebody else wrote.            *)
ReportsAreTrue ==
    report = "ok" =>
        /\ \A l \in DOMAIN claim \ since : desk[l] = claim[l]
        /\ (op = "transfer" /\ {"A", "B"} \subseteq DOMAIN claim) =>
              \A l \in {"A", "B"} \ since : desk[l] = before[IF l = "A" THEN "B" ELSE "A"]

(* An automatic gain that could not set the preamplifier leaves the strip  *)
(* no quieter than it was: the trim it zeroed is back, unless the console  *)
(* refused that or gave no answer, or somebody else moved it.              *)
TrimComesBack ==
    op = "gain" /\ stage = "over" /\ ~mem.done /\ "trim" \notin since => desk["trim"] = before["trim"]

(* A cancelled gate or compressor stops driving the desk: at most the      *)
(* write that turns the slot on or sets its control, which is not preceded *)
(* by a look at the signal, still goes out.                                *)
CancelledStops == ~late
=============================================================================
