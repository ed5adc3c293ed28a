-------------------------- MODULE WingOscClientInv --------------------------
(***************************************************************************)
(* The inductive invariant behind NoForeignAck and ReadYourWrites.         *)
(*                                                                         *)
(* Its argument: a bulk-set that timed out keeps an entry in `abandoned'   *)
(* for as long as its datagram may still be under way (GraceCoversDelay),  *)
(* because entries and datagrams age together; the entries expire in the   *)
(* order of the datagrams (LateInOrder), so the oldest live entry is the   *)
(* one of the ack that arrives first; and two requests never time out less *)
(* than one timeout apart (GraceApart), so the list never has to drop a    *)
(* live entry.                                                             *)
(***************************************************************************)
EXTENDS WingOscClient

(* The link and the queue the argument needs: a reply is never later than  *)
(* the timeout plus the grace period, and two entries fit the list.        *)
LinkAssumption == MaxDelay < 3 * RequestTimeout /\ MaxQueueLength >= 2

OnWire == {"sent", "timeout", "cut", "ok"}

TimedOut(r) == r \in Writes /\ outcome[r] = "timeout"

(* The wire as one line of datagrams: first those on their way to the      *)
(* client, then, sent later, those on their way to the console.            *)
Wire == 1..(Len(toClient) + Len(toConsole))
On(i) == IF i <= Len(toClient) THEN toClient[i] ELSE toConsole[i - Len(toClient)]

(* Only what was sent is on the wire, a write reported done no longer is,  *)
(* and what comes back says where it comes from.                           *)
WireOK ==
    \A i \in Wire : On(i).of # Push =>
        /\ On(i).of \in Requests
        /\ outcome[On(i).of] \in OnWire
        /\ On(i).of \in Writes => outcome[On(i).of] # "ok"

AddressesOK ==
    \A i \in DOMAIN toClient :
        IF toClient[i].of = Push THEN toClient[i].addr \in Paths
                                 ELSE toClient[i].addr = ReplyAddress(toClient[i].of)

(* After close nothing more is received, and only close cuts a request.    *)
SocketOK ==
    /\ queue # <<>> => socket = "open"
    /\ socket = "closed" => toClient = <<>>
    /\ \A r \in Requests : outcome[r] = "cut" => socket = "closed"

(* The head's datagram is the last request on the wire, and as old as its  *)
(* timer has run.                                                          *)
HeadIsLast ==
    queue # <<>> =>
        \A i \in Wire : On(i).of = Head(queue) =>
            /\ On(i).age + headTimer >= RequestTimeout
            /\ \A j \in Wire : j > i => On(j).of = Push

(* An abandoned write's entry outlives its datagram. *)
GraceCoversDelay ==
    socket # "closed" =>
        \A i \in Wire : TimedOut(On(i).of) =>
            grace[On(i).of] + On(i).age >= 3 * RequestTimeout

(* The datagrams of abandoned writes are in the order their entries expire. *)
LateInOrder ==
    socket # "closed" =>
        \A i, j \in Wire : i < j /\ TimedOut(On(i).of) /\ TimedOut(On(j).of) =>
            grace[On(i).of] < grace[On(j).of]

(* Live entries are a timeout apart, and the head has waited that long     *)
(* since the latest one when its own timer is due.                         *)
GraceApart ==
    /\ \A v, w \in Live : v # w =>
        grace[v] >= grace[w] + RequestTimeout \/ grace[w] >= grace[v] + RequestTimeout
    /\ queue # <<>> => \A w \in Live : grace[w] <= RequestTimeout + headTimer
    /\ \A w \in Live : outcome[w] = "timeout"

(* What was acknowledged was applied, and whatever the console sent after  *)
(* applying a write shows it.                                              *)
RepliesShowWrites ==
    /\ \A i \in DOMAIN toClient : toClient[i].of \in Writes => toClient[i].of \in applied
    /\ \A w \in Writes : outcome[w] = "ok" => w \in applied
    /\ \A w \in applied : outcome[w] \in OnWire
    /\ \A i, j \in DOMAIN toClient :
        /\ i < j /\ toClient[i].of \in Writes
        /\ toClient[j].addr = Path[toClient[i].of]
        => toClient[i].of \in toClient[j].holds
    /\ \A w \in Writes, i \in DOMAIN toClient :
        outcome[w] = "ok" /\ toClient[i].addr = Path[w] => w \in toClient[i].holds
    /\ \A r \in Requests : after[r] \subseteq {w \in Writes : outcome[w] = "ok" /\ Path[w] = Path[r]}

(* The inductive invariant: under LinkAssumption the client keeps every    *)
(* ack for the write it belongs to.                                        *)
IInv ==
    /\ OneInFlight
    /\ WireOK /\ AddressesOK /\ SocketOK /\ HeadIsLast
    /\ GraceCoversDelay /\ LateInOrder /\ GraceApart
    /\ NoForeignAck
    /\ RepliesShowWrites /\ ReadYourWrites
=============================================================================
