------------------------------- MODULE Fades --------------------------------
(***************************************************************************)
(* Software fades of one fader (plugins/wing/wing-fade.ts).  A fade awaits *)
(* the fader's value, then a timer moves it step by step with set(), which *)
(* is sent at once and never acknowledged; the last step is a bulkSet,     *)
(* which waits its turn in the client's queue as reads do.                 *)
(***************************************************************************)
EXTENDS Integers, Sequences, FiniteSets

CONSTANTS
    Nobody,
    Ids,         \* calls of startFade()
    Floor, Top,  \* FADER_DB_MIN and FADER_DB_MAX
    Asked,       \* requests: [to] or [by]: a level, or a change of it
    Steps,       \* timer ticks of a fade
    MaxMishaps   \* bound: sends and requests that fail, writes of others

ASSUME FadeAssumption ==
    /\ Nobody \notin Ids
    /\ Floor \in Int /\ Top \in Int /\ Floor < Top /\ Steps \in Nat \ {0}
    /\ \A a \in Asked : a.value \in Int /\ a.relative \in BOOLEAN /\ MaxMishaps \in Nat

VARIABLES
    level,   \* what the fader is at
    fades,   \* per call: [st, asked, from, target, step]
    active,  \* activeFades: whose timer may move the fader, or Nobody
    queue,   \* requests to the console: [kind: "get" | "set", id]
    mishaps,
    told     \* history: where the fader was last told to come to rest, or Nobody

fadeVars == <<level, fades, active, queue, mishaps, told>>

Idle == [st |-> "idle", asked |-> [relative |-> TRUE, value |-> 0], from |-> 0, target |-> 0, step |-> 0]

(* startFade() up to its await. *)
AskFade(i, a) ==
    /\ fades[i].st = "idle"
    /\ fades' = [fades EXCEPT ![i] = [Idle EXCEPT !.st = "reading", !.asked = a]]
    /\ queue' = Append(queue, [kind |-> "get", id |-> i])
    /\ UNCHANGED <<level, active, mishaps, told>>

(* The console answers the request at the head of the queue.               *)
Answered ==
    /\ queue # <<>> /\ queue' = Tail(queue)
    /\ LET q == Head(queue)
       IN IF q.kind = "get"
          THEN /\ fades' = [fades EXCEPT ![q.id].st = "resuming", ![q.id].from = level]
               /\ UNCHANGED level
          ELSE level' = fades[q.id].target /\ UNCHANGED fades
    /\ UNCHANGED <<active, mishaps, told>>

(* ... or it fails: a read ends its fade, a last step is only logged.      *)
Unanswered ==
    /\ queue # <<>> /\ queue' = Tail(queue) /\ mishaps < MaxMishaps /\ mishaps' = mishaps + 1
    /\ LET q == Head(queue)
       IN IF q.kind = "get" THEN fades' = [fades EXCEPT ![q.id].st = "over"] /\ UNCHANGED told
          ELSE told' = Nobody /\ UNCHANGED fades
    /\ UNCHANGED <<level, active>>

Requested(f) == IF f.asked.relative THEN f.from + f.asked.value ELSE f.asked.value
Floored(v) == IF v < Floor THEN Floor ELSE v

(* Mutant: the fade that runs is looked for before the value is awaited    *)
(* only; one that started meanwhile goes on.                               *)
ResumeBesideAnother(i) ==
    /\ fades[i].st = "resuming"
    /\ IF Requested(fades[i]) > Top
       THEN fades' = [fades EXCEPT ![i].st = "over"] /\ UNCHANGED <<active, told>>
       ELSE /\ fades' = [fades EXCEPT ![i].st = "moving", ![i].target = Floored(Requested(fades[i]))]
            /\ active' = i /\ told' = fades'[i].target
    /\ UNCHANGED <<level, queue, mishaps>>

(* startFade() from its await on: a target beyond the top is refused; the  *)
(* fade that runs is cancelled, and this one's timer takes its place.      *)
Resume(i) ==
    /\ fades[i].st = "resuming"
    /\ IF Requested(fades[i]) > Top
       THEN fades' = [fades EXCEPT ![i].st = "over"] /\ UNCHANGED <<active, told>>
       ELSE /\ fades' = [j \in Ids |->
                  IF j = i THEN [fades[i] EXCEPT !.st = "moving", !.target = Floored(Requested(fades[i]))]
                  ELSE IF j = active THEN [fades[j] EXCEPT !.st = "over"] ELSE fades[j]]
            /\ active' = i /\ told' = fades'[i].target
    /\ UNCHANGED <<level, queue, mishaps>>

(* stop() *)
Stopped(i) == active' = IF active = i THEN Nobody ELSE active

(* A tick of the timer: an intermediate level, anywhere on the way; the    *)
(* last one stops the timer and queues the target.                         *)
Tick(i, v) ==
    /\ fades[i].st = "moving"
    /\ LET f == fades[i]
       IN IF f.step + 1 < Steps
          THEN /\ v \in {f.from, f.target} /\ level' = v
               /\ fades' = [fades EXCEPT ![i].step = @ + 1]
               /\ UNCHANGED <<active, queue>>
          ELSE /\ v = f.target /\ fades' = [fades EXCEPT ![i].st = "over"]
               /\ Stopped(i) /\ queue' = Append(queue, [kind |-> "set", id |-> i])
               /\ UNCHANGED level
    /\ UNCHANGED <<mishaps, told>>

(* A step could not be sent: the fade ends there.                          *)
StepFails(i) ==
    /\ fades[i].st = "moving" /\ fades[i].step + 1 < Steps /\ active = i
    /\ mishaps < MaxMishaps /\ mishaps' = mishaps + 1
    /\ fades' = [fades EXCEPT ![i].st = "over"] /\ active' = Nobody /\ told' = Nobody
    /\ UNCHANGED <<level, queue>>

(* cancelFade(): the fader stays where it is. *)
CancelFade ==
    /\ active # Nobody
    /\ fades' = [fades EXCEPT ![active].st = "over"] /\ active' = Nobody /\ told' = Nobody
    /\ UNCHANGED <<level, queue, mishaps>>

(* A hand on the fader. *)
Hand(v) ==
    /\ v # level /\ mishaps < MaxMishaps /\ mishaps' = mishaps + 1
    /\ level' = v /\ told' = Nobody
    /\ UNCHANGED <<fades, active, queue>>

FadeInit ==
    /\ level = 0 /\ fades = [i \in Ids |-> Idle] /\ active = Nobody /\ queue = <<>>
    /\ mishaps = 0 /\ told = Nobody

FadeNext ==
    \/ \E i \in Ids : Resume(i) \/ StepFails(i) \/ (\E a \in Asked : AskFade(i, a))
                       \/ (\E v \in Floor..Top : Tick(i, v))
    \/ Answered \/ Unanswered \/ CancelFade
    \/ Hand(Floor)

FadeSpec == FadeInit /\ [][FadeNext]_fadeVars

FadeStages == {"idle", "reading", "resuming", "moving", "over"}

FadeTypeOK ==
    /\ level \in Int /\ mishaps \in Nat /\ active \in Ids \cup {Nobody} /\ told \in Int \cup {Nobody}
    /\ fades \in [Ids -> [st : FadeStages, asked : Asked \cup {Idle.asked}, from : Int, target : Int, step : Nat]]
    /\ queue \in Seq([kind : {"get", "set"}, id : Ids])

(* However the starts, ticks, cancels and late last steps of several fades *)
(* of one fader interleave: once nothing moves it and nothing is on its    *)
(* way to the console, the fader rests where the latest of them was to     *)
(* bring it, unless that one was cancelled, could not be sent, or a hand   *)
(* moved the fader.                                                        *)
RestsWhereTold ==
    active = Nobody /\ queue = <<>> /\ (\A i \in Ids : fades[i].st \in {"idle", "over"}) /\ told # Nobody
        => level = told
=============================================================================
