----------------------------- MODULE MixerField -----------------------------
(***************************************************************************)
(* One control of the dashboard's mixer: a fader that shows what is        *)
(* dragged ahead of the console (web/src/api/optimistic-writes.ts,         *)
(* useThrottledCommit.ts), in a snapshot of the mixer that is loaded once  *)
(* and then kept current by what the console pushes (pages/useWingMixer.ts,*)
(* pages/WingMixerTab.tsx).  The console pushes the changes made at the    *)
(* desk, never the dashboard's own writes.  Writes travel in order; the    *)
(* row of the fader may be left and shown again, which the writes survive  *)
(* and the throttle's timer does not.                                      *)
(***************************************************************************)
EXTENDS Naturals, Sequences, SequencesExt

CONSTANTS
    None,
    Positions,   \* what the fader may be at
    MaxEdits,    \* bound: drags
    MaxHands,    \* bound: changes at the desk, and loads of the mixer
    MaxVisits,   \* bound: times the row is shown
    MaxLapses    \* bound: writes refused, or taken without an answer in time

ASSUME MixerFieldAssumption ==
    /\ Positions \subseteq Nat /\ None \notin Positions
    /\ {MaxEdits, MaxHands, MaxVisits, MaxLapses} \subseteq Nat

VARIABLES
    fader,    \* what the console has
    shows,    \* what the snapshot has: what the row shows
    fields,   \* per visit of the row: None, or [held, since, newest: a ticket] of its OptimisticWrites
    seqNo,
    visit,    \* the row's current visit
    hot,      \* within 120 ms of the throttle's last write
    pending,  \* pendingRef: the last value not yet written, or None
    timing,   \* the throttle's timer runs
    sends,    \* tickets on their way to the console: [seq, value, visit]
    answers,  \* on their way back: [ticket, took]
    pushes,   \* values the console pushes
    loading,  \* refetch(): [st: "idle", "asked" or "read", value]
    quiet,    \* history: nothing has crossed the load under way
    crossed,  \* history: the row may be wrong, see CrossedBy
    hands, lapses

throttle == <<hot, pending, timing>>
fieldVars == <<fader, shows, fields, seqNo, visit, throttle, sends, answers, pushes, loading, quiet, crossed, hands, lapses>>

Ticket(s, v) == [seq |-> s, value |-> v, visit |-> visit]

(* What the code knows nothing about: the dashboard and the desk moved the *)
(* fader at the same time, a load ran meanwhile, a write took without an   *)
(* answer, or the row was left before its last value was written.          *)
Busy == sends # <<>> \/ answers # <<>> \/ pushes # <<>> \/ pending # None \/ loading.st # "idle"
CrossedBy(b) == crossed' = (crossed \/ b) /\ quiet' = FALSE

(* writes.edit(): the first edit keeps what was shown as the console's. *)
EditField(t) ==
    fields' = [fields EXCEPT ![visit] =
                 IF @ = None THEN [held |-> shows, since |-> t.seq, newest |-> t] ELSE [@ EXCEPT !.newest = t]]

(* The fader is dragged: shown at once, written at once or by the timer.   *)
Drag(v) ==
    /\ seqNo < MaxEdits /\ v # shows
    /\ seqNo' = seqNo + 1 /\ shows' = v
    /\ EditField(Ticket(seqNo', v))
    /\ IF hot
       THEN pending' = v /\ timing' = TRUE /\ UNCHANGED <<hot, sends>>
       ELSE pending' = None /\ hot' = TRUE /\ sends' = Append(sends, Ticket(seqNo', v)) /\ UNCHANGED timing
    /\ CrossedBy(pushes # <<>> \/ loading.st # "idle")
    /\ UNCHANGED <<fader, visit, answers, pushes, loading, hands, lapses>>

Cool == hot /\ hot' = FALSE /\ UNCHANGED <<fader, shows, fields, seqNo, visit, pending, timing, sends, answers,
                                            pushes, loading, quiet, crossed, hands, lapses>>

(* Mutant: the trailing write of a drag is left out. *)
TimerSkips ==
    /\ timing /\ ~hot /\ timing' = FALSE /\ pending' = None
    /\ UNCHANGED <<fader, shows, fields, seqNo, visit, hot, sends, answers, pushes, loading, quiet, crossed, hands, lapses>>

(* The throttle's timer: the latest value leaves, under the newest ticket. *)
TimerFires ==
    /\ timing /\ ~hot /\ timing' = FALSE /\ pending' = None
    /\ IF pending = None THEN UNCHANGED <<hot, sends>>
       ELSE hot' = TRUE /\ sends' = Append(sends, fields[visit].newest)
    /\ UNCHANGED <<fader, shows, fields, seqNo, visit, answers, pushes, loading, quiet, crossed, hands, lapses>>

(* The console takes a write and answers; or refuses it; or takes it and   *)
(* the answer does not come in time, or says that it stored another value. *)
ConsoleTakes ==
    /\ sends # <<>> /\ sends' = Tail(sends)
    /\ LET t == Head(sends)
       IN \/ /\ fader' = t.value /\ answers' = Append(answers, [ticket |-> t, took |-> TRUE])
             /\ UNCHANGED <<quiet, crossed, lapses>>
          \/ /\ lapses < MaxLapses /\ lapses' = lapses + 1
             /\ answers' = Append(answers, [ticket |-> t, took |-> FALSE])
             /\ \/ UNCHANGED <<fader, quiet, crossed>>
                \/ (\E v \in Positions : fader' = v) /\ CrossedBy(TRUE)
    /\ UNCHANGED <<shows, fields, seqNo, visit, throttle, pushes, loading, hands>>

(* Mutant: every failure puts the field back, whatever was set since. *)
AnsweredAlways ==
    /\ answers # <<>> /\ answers' = Tail(answers)
    /\ LET a == Head(answers) f == fields[a.ticket.visit]
       IN IF f = None THEN UNCHANGED <<fields, shows>>
          ELSE /\ fields' = [fields EXCEPT ![a.ticket.visit] = None]
               /\ shows' = IF a.took THEN shows ELSE f.held
    /\ UNCHANGED <<fader, seqNo, visit, throttle, sends, pushes, loading, quiet, crossed, hands, lapses>>

(* writes.answered(): a failure of the newest edit puts the field back on  *)
(* the value the console is known to hold; an older one leaves it.         *)
WriteAnswered ==
    /\ answers # <<>> /\ answers' = Tail(answers)
    /\ LET a == Head(answers) t == a.ticket f == fields[t.visit]
       IN IF f = None THEN UNCHANGED <<fields, shows>>
          ELSE IF t.seq < f.since THEN UNCHANGED <<fields, shows>>
          ELSE LET held == IF a.took THEN t.value ELSE f.held
               IN IF t.seq < f.newest.seq
                  THEN fields' = [fields EXCEPT ![t.visit].held = held] /\ UNCHANGED shows
                  ELSE /\ fields' = [fields EXCEPT ![t.visit] = None]
                       /\ shows' = IF a.took THEN shows ELSE held
    /\ UNCHANGED <<fader, seqNo, visit, throttle, sends, pushes, loading, quiet, crossed, hands, lapses>>

(* A hand on the desk's fader, which the console pushes. *)
HandMoves(v) ==
    /\ v # fader /\ hands < MaxHands /\ hands' = hands + 1
    /\ fader' = v /\ pushes' = Append(pushes, v)
    /\ CrossedBy(sends # <<>> \/ answers # <<>> \/ pending # None \/ loading.st # "idle")
    /\ UNCHANGED <<shows, fields, seqNo, visit, throttle, sends, answers, loading, lapses>>

(* The `wing:param-change` topic: merged into the snapshot as it comes. *)
PushArrives ==
    /\ pushes # <<>> /\ pushes' = Tail(pushes) /\ shows' = Head(pushes)
    /\ UNCHANGED <<fader, fields, seqNo, visit, throttle, sends, answers, loading, quiet, crossed, hands, lapses>>

(* refresh(), or the reload after a reconnection: a new snapshot is asked  *)
(* for, read strip by strip, and takes the place of the one shown.         *)
Refresh ==
    /\ loading.st = "idle" /\ hands < MaxHands /\ hands' = hands + 1
    /\ loading' = [loading EXCEPT !.st = "asked"] /\ quiet' = ~Busy /\ crossed' = (crossed \/ Busy)
    /\ UNCHANGED <<fader, shows, fields, seqNo, visit, throttle, sends, answers, pushes, lapses>>
SnapshotRead ==
    /\ loading.st = "asked" /\ loading' = [st |-> "read", value |-> fader]
    /\ UNCHANGED <<fader, shows, fields, seqNo, visit, throttle, sends, answers, pushes, quiet, crossed, hands, lapses>>
SnapshotArrives ==
    /\ loading.st = "read" /\ loading' = [loading EXCEPT !.st = "idle"] /\ shows' = loading.value
    /\ crossed' = (crossed /\ ~quiet)
    /\ UNCHANGED <<fader, fields, seqNo, visit, throttle, sends, answers, pushes, quiet, hands, lapses>>

(* The row is left and shown again: another OptimisticWrites; the pending  *)
(* value is dropped with the throttle's timer.                             *)
Leave ==
    /\ visit < MaxVisits /\ visit' = visit + 1
    /\ pending' = None /\ timing' = FALSE /\ hot' = FALSE
    /\ CrossedBy(fields[visit] # None)
    /\ UNCHANGED <<fader, shows, fields, seqNo, sends, answers, pushes, loading, hands, lapses>>

FieldInit ==
    /\ fader \in Positions /\ shows = fader /\ fields = [n \in 1..MaxVisits |-> None] /\ seqNo = 0 /\ visit = 1
    /\ hot = FALSE /\ pending = None /\ timing = FALSE
    /\ sends = <<>> /\ answers = <<>> /\ pushes = <<>> /\ loading = [st |-> "idle", value |-> fader]
    /\ quiet = FALSE /\ crossed = FALSE /\ hands = 0 /\ lapses = 0

FieldProgress == Cool \/ TimerFires \/ ConsoleTakes \/ WriteAnswered \/ PushArrives \/ SnapshotRead \/ SnapshotArrives
FieldNext ==
    \/ FieldProgress \/ Refresh \/ Leave
    \/ \E v \in Positions : Drag(v) \/ HandMoves(v)

(* The timers, the console and the network each get to their next step. *)
FieldFairness == WF_fieldVars(FieldProgress)

(* Once the fader is let go, the row comes to show what the console has,   *)
(* however many writes of the drag are coalesced, answered late, refused   *)
(* one by one: unless the desk moved the fader, the mixer was loaded or    *)
(* the row was left while writes were on their way, or a write took        *)
(* without its answer; a load with nothing else going on mends even that.  *)
SettlesOnTheConsole == <>[](~Busy /\ (crossed \/ shows = fader))
=============================================================================
