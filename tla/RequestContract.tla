-------------------------- MODULE RequestContract ---------------------------
(***************************************************************************)
(* What a caller of the OSC client may rely on, without queue, timers or   *)
(* network: a call that is done has taken effect, a call refused before it *)
(* was sent never does, and only a call given up while on the wire leaves  *)
(* its caller not knowing.  WingOscClient implements it.                   *)
(***************************************************************************)
CONSTANTS
    Requests,
    Writes     \* those of them that change the console

VARIABLES
    status,    \* what the caller of each request has been told
    applied    \* the writes the console has applied

vars == <<status, applied>>

Statuses == {"none", "pending", "done", "refused", "unknown"}

Init ==
    /\ status = [r \in Requests |-> "none"]
    /\ applied = {}

(* A call is accepted, or refused on the spot. *)
Call(r) ==
    /\ status[r] = "none"
    /\ \E s \in {"pending", "refused"} : status' = [status EXCEPT ![r] = s]
    /\ UNCHANGED applied

(* A write takes effect, while its caller waits or after it has given up. *)
Apply(w) ==
    /\ status[w] \in {"pending", "unknown"} /\ w \notin applied
    /\ applied' = applied \cup {w}
    /\ UNCHANGED status

(* What a pending call may come to. *)
Ending(r, s) ==
    \/ s = "done" /\ (r \in Writes => r \in applied)
    \/ s = "refused" /\ r \notin applied
    \/ s = "unknown"

Settle(r) ==
    /\ status[r] = "pending"
    /\ \E s \in Statuses : Ending(r, s) /\ status' = [status EXCEPT ![r] = s]
    /\ UNCHANGED applied

(* The client is closed: every pending call fails at once. *)
SettleAll ==
    /\ status' \in [Requests -> Statuses]
    /\ \A r \in Requests :
        IF status[r] = "pending" THEN status'[r] # "done" /\ Ending(r, status'[r])
                                 ELSE status'[r] = status[r]
    /\ UNCHANGED applied

Next ==
    \/ \E r \in Requests : Call(r) \/ Settle(r)
    \/ \E w \in Writes : Apply(w)
    \/ SettleAll

Spec == Init /\ [][Next]_vars
=============================================================================
