--------------------------- MODULE WingOscClient ---------------------------
(***************************************************************************)
(* The OSC control client (plugins/wing/wing-osc-client.ts).               *)
(*                                                                         *)
(* Every read and every verified write of the server goes through one FIFO *)
(* queue with one request in flight.  The protocol carries no request id:  *)
(* a message from the console answers the head of the queue when its       *)
(* address matches, and every bulk-set is acknowledged on the one address  *)
(* "/*", so any ack matches any pending bulk-set.  A bulk-set that times   *)
(* out therefore stays in the `abandoned' list for a grace period of twice *)
(* the request timeout, in which one late ack is swallowed on its behalf.  *)
(*                                                                         *)
(* Time is a clock every timer and datagram counts along with.  A timer    *)
(* may fire late (the event loop may stall) but never early; a datagram is *)
(* answered and handed to the client at most MaxDelay after the request    *)
(* was sent, or lost.  The two directions of the link are FIFO.            *)
(***************************************************************************)
EXTENDS Integers, Sequences, FiniteSets, SequencesExt

CONSTANTS
    Requests,        \* the calls made to the client, each at most once
    Kind,            \* [Requests -> Kinds]: which method is called
    Path,            \* [Requests -> Paths]: the parameter it is about
    Paths,
    BulkAck,         \* the address "/*" of every bulk-set ack
    MaxQueueLength,  \* maxQueueLength, 100 in the code
    RequestTimeout,  \* requestTimeoutMs
    MaxQueueWait,    \* maxQueueWaitMs, ten times the above
    MaxDelay,        \* the longest time from a request to its reply's arrival
    MaxLost,         \* bound: datagrams the network loses
    MaxPushes        \* bound: unsolicited messages of the console

(* describe differs from dump in the text of its reply alone. *)
Kinds == {"get", "dump", "bulkSet"}

ASSUME RequestsAssumption ==
    /\ Kind \in [Requests -> Kinds]
    /\ Path \in [Requests -> Paths]
    /\ BulkAck \notin Paths
    /\ "push" \notin Requests
    /\ IsFiniteSet(Requests)

ASSUME LimitsAssumption ==
    /\ MaxQueueLength \in Nat \ {0}
    /\ RequestTimeout \in Nat \ {0}
    /\ MaxQueueWait \in Nat \ {0}
    /\ MaxDelay \in Nat /\ MaxLost \in Nat /\ MaxPushes \in Nat

Writes == {r \in Requests : Kind[r] = "bulkSet"}
Reads == Requests \ Writes

Push == "push"         \* the origin and kind of an unsolicited message
NoAnswer == [kind |-> "none"]
Off == -1              \* a timer that is not armed
Grace == 2 * RequestTimeout

VARIABLES
    socket,      \* udpPort: "unopened", "open" or "closed"
    queue,       \* the requests neither settled nor dropped, oldest first
    headTimer,   \* time left on the head's request timer
    queueTimer,  \* time left on each request's queue-wait timer
    grace,       \* time left of each write's entry in `abandoned', 0 if none
    outcome,     \* how each request stands, see Outcomes
    answer,      \* the message that resolved each request
    after,       \* history: the writes reported done on its path at its issue
    toConsole,   \* requests on the wire
    toClient,    \* replies and pushes on the wire
    applied,     \* the writes the console has applied
    lost,
    pushes

client == <<socket, queue, headTimer, queueTimer, grace, outcome, answer, after>>
network == <<toConsole, toClient>>
vars == <<client, network, applied, lost, pushes>>

Waiting == {"waiting", "sent"}
(* Rejected before anything was put on the wire. *)
Unsent == {"overflow", "unavailable", "expired", "dropped"}
(* Rejected with the request on the wire: it may or may not take effect. *)
Unknown == {"timeout", "cut"}
Settled == Unsent \cup Unknown \cup {"ok"}
Outcomes == {"none"} \cup Waiting \cup Settled

-----------------------------------------------------------------------------
(* What the console answers, and what answers a request. *)

Holds(p, done) == {w \in done : Path[w] = p}

(* Where the reply to r comes from, which is all its matcher looks at. *)
ReplyAddress(r) == IF r \in Writes THEN BulkAck ELSE Path[r]
Matches(r, m) == m.addr = ReplyAddress(r)

Reply(m, done) ==
    [of |-> m.of, kind |-> Kind[m.of], addr |-> ReplyAddress(m.of),
     holds |-> Holds(Path[m.of], done), age |-> m.age]

Live == {w \in Writes : grace[w] > 0}
Oldest(ws) == CHOOSE w \in ws : \A v \in ws : grace[w] <= grace[v]

-----------------------------------------------------------------------------
Init ==
    /\ socket = "unopened"
    /\ queue = <<>>
    /\ headTimer = Off
    /\ queueTimer = [r \in Requests |-> Off]
    /\ grace = [w \in Writes |-> 0]
    /\ outcome = [r \in Requests |-> "none"]
    /\ answer = [r \in Requests |-> NoAnswer]
    /\ after = [r \in Requests |-> {}]
    /\ toConsole = <<>> /\ toClient = <<>>
    /\ applied = {}
    /\ lost = 0 /\ pushes = 0

Connect ==
    /\ socket = "unopened"
    /\ socket' = "open"
    /\ UNCHANGED <<queue, headTimer, queueTimer, grace, outcome, answer, after,
                   network, applied, lost, pushes>>

(* Mutant: the queue timer of the new head is left armed. *)
ActivateHeadQueueTimerLeft(rest, result) ==
    /\ queue' = rest
    /\ \/ /\ rest = <<>>
          /\ headTimer' = Off
          /\ outcome' = result
          /\ UNCHANGED <<queueTimer, toConsole>>
       \/ /\ rest # <<>>
          /\ headTimer' = RequestTimeout
          /\ outcome' = [result EXCEPT ![Head(rest)] = "sent"]
          /\ toConsole' = Append(toConsole, [of |-> Head(rest), age |-> 0])
          /\ UNCHANGED queueTimer

(* Mutant: a promoted head gets no request timer of its own. *)
ActivateHeadUntimed(rest, result) ==
    /\ queue' = rest
    /\ headTimer' = Off
    /\ \/ /\ rest = <<>>
          /\ outcome' = result
          /\ UNCHANGED <<queueTimer, toConsole>>
       \/ /\ rest # <<>>
          /\ outcome' = [result EXCEPT ![Head(rest)] = "sent"]
          /\ queueTimer' = [queueTimer EXCEPT ![Head(rest)] = Off]
          /\ toConsole' = Append(toConsole, [of |-> Head(rest), age |-> 0])

(* activateHead, with rest the queue left and result the outcomes so far:  *)
(* the new head's queue timer is cleared, its own armed, and it is sent.   *)
ActivateHead(rest, result) ==
    /\ queue' = rest
    /\ \/ /\ rest = <<>>
          /\ headTimer' = Off
          /\ outcome' = result
          /\ UNCHANGED <<queueTimer, toConsole>>
       \/ /\ rest # <<>>
          /\ headTimer' = RequestTimeout
          /\ outcome' = [result EXCEPT ![Head(rest)] = "sent"]
          /\ queueTimer' = [queueTimer EXCEPT ![Head(rest)] = Off]
          /\ toConsole' = Append(toConsole, [of |-> Head(rest), age |-> 0])

(* enqueue: refused when the queue is full, sent at once when it is empty, *)
(* and otherwise left to wait with its queue timer armed.                  *)
Issue(r) ==
    /\ outcome[r] = "none"
    /\ after' = [after EXCEPT ![r] =
                   {w \in Writes : outcome[w] = "ok" /\ Path[w] = Path[r]}]
    /\ \/ /\ Len(queue) >= MaxQueueLength
          /\ outcome' = [outcome EXCEPT ![r] = "overflow"]
          /\ UNCHANGED <<queue, headTimer, queueTimer, toConsole>>
       \/ /\ Len(queue) < MaxQueueLength /\ queue = <<>> /\ socket # "open"
          /\ outcome' = [outcome EXCEPT ![r] = "unavailable"]
          /\ UNCHANGED <<queue, headTimer, queueTimer, toConsole>>
       \/ /\ Len(queue) < MaxQueueLength /\ queue = <<>> /\ socket = "open"
          /\ ActivateHead(<<r>>, outcome)
       \/ /\ Len(queue) < MaxQueueLength /\ queue # <<>>
          /\ queue' = Append(queue, r)
          /\ outcome' = [outcome EXCEPT ![r] = "waiting"]
          /\ queueTimer' = [queueTimer EXCEPT ![r] = MaxQueueWait]
          /\ UNCHANGED <<headTimer, toConsole>>
    /\ UNCHANGED <<socket, grace, answer, toClient, applied, lost, pushes>>

(* dropQueuedEntry, run by the queue-wait timer. *)
DropQueuedEntry(r) ==
    /\ queueTimer[r] = 0
    /\ queueTimer' = [queueTimer EXCEPT ![r] = Off]
    /\ \E i \in DOMAIN queue : queue[i] = r /\ queue' = RemoveAt(queue, i)
    /\ outcome' = [outcome EXCEPT ![r] = "expired"]
    /\ UNCHANGED <<socket, headTimer, grace, answer, after, network, applied,
                   lost, pushes>>

(* Mutant: the grace period is one request timeout instead of two. *)
RememberAbandonedReplyShort(w) ==
    grace' = [v \in Writes |->
                IF v = w THEN RequestTimeout
                ELSE IF Cardinality(Live) >= MaxQueueLength /\ v = Oldest(Live) THEN 0
                ELSE grace[v]]

(* rememberAbandonedReply: at the cap the oldest entry makes room.         *)
(* Expired entries still in the list are older than any live one, so the   *)
(* code drops a live entry exactly when all MaxQueueLength are live.       *)
RememberAbandonedReply(w) ==
    grace' = [v \in Writes |->
                IF v = w THEN Grace
                ELSE IF Cardinality(Live) >= MaxQueueLength /\ v = Oldest(Live) THEN 0
                ELSE grace[v]]

(* failHead from the request timer. *)
Timeout ==
    /\ queue # <<>> /\ headTimer = 0
    /\ \/ Head(queue) \in Writes /\ RememberAbandonedReply(Head(queue))
       \/ Head(queue) \in Reads /\ UNCHANGED grace
    /\ ActivateHead(Tail(queue), [outcome EXCEPT ![Head(queue)] = "timeout"])
    /\ UNCHANGED <<socket, answer, after, toClient, applied, lost, pushes>>

(* What handleMessage makes of the next message: a late ack is swallowed   *)
(* by the oldest live entry of `abandoned', a match resolves the head, and *)
(* anything else goes to the subscribers.                                  *)
IsLateReplyNever(m) == FALSE    \* Mutant: no late reply is recognised
IsLateReply(m) == m.addr = BulkAck /\ Live # {}
AnswersHead(m) == ~IsLateReply(m) /\ queue # <<>> /\ Matches(Head(queue), m)

ConsumeAbandonedReply(m) ==
    /\ IsLateReply(m)
    /\ grace' = [grace EXCEPT ![Oldest(Live)] = 0]
    /\ UNCHANGED <<queue, headTimer, queueTimer, outcome, answer, toConsole>>

ResolveHead(m) ==
    /\ AnswersHead(m)
    /\ answer' = [answer EXCEPT ![Head(queue)] = m]
    /\ ActivateHead(Tail(queue), [outcome EXCEPT ![Head(queue)] = "ok"])
    /\ UNCHANGED grace

DispatchSubscriptionPush(m) ==
    /\ ~IsLateReply(m) /\ ~AnswersHead(m)
    /\ UNCHANGED <<queue, headTimer, queueTimer, grace, outcome, answer, toConsole>>

HandleMessage ==
    /\ toClient # <<>>
    /\ toClient' = Tail(toClient)
    /\ \/ ConsumeAbandonedReply(Head(toClient))
       \/ ResolveHead(Head(toClient))
       \/ DispatchSubscriptionPush(Head(toClient))
    /\ UNCHANGED <<socket, after, applied, lost, pushes>>

(* close: every entry is rejected; the head alone had been sent. *)
Close ==
    /\ socket # "closed"
    /\ socket' = "closed"
    /\ queue' = <<>> /\ headTimer' = Off
    /\ queueTimer' = [r \in Requests |-> Off]
    /\ grace' = [w \in Writes |-> 0]
    /\ outcome' = [r \in Requests |-> CASE outcome[r] = "sent" -> "cut"
                                        [] outcome[r] = "waiting" -> "dropped"
                                        [] OTHER -> outcome[r]]
    /\ toClient' = <<>>
    /\ UNCHANGED <<answer, after, toConsole, applied, lost, pushes>>

-----------------------------------------------------------------------------
(* The console and the network. *)

(* The console handles the next request: a write takes effect, and the     *)
(* reply tells what the console then holds.  Nobody hears it after close.  *)
ConsoleHandle ==
    /\ toConsole # <<>>
    /\ toConsole' = Tail(toConsole)
    /\ applied' = applied \cup ({Head(toConsole).of} \cap Writes)
    /\ toClient' = IF socket = "open"
                     THEN Append(toClient, Reply(Head(toConsole), applied'))
                     ELSE toClient
    /\ UNCHANGED <<client, lost, pushes>>

(* An unsolicited message about p, shaped like the reply to a GET of p. *)
ConsolePush(p) ==
    /\ pushes < MaxPushes /\ socket = "open"
    /\ pushes' = pushes + 1
    /\ toClient' = Append(toClient, [of |-> Push, kind |-> Push, addr |-> p,
                                     holds |-> Holds(p, applied), age |-> 0])
    /\ UNCHANGED <<client, toConsole, applied, lost>>

LoseRequest ==
    /\ lost < MaxLost /\ toConsole # <<>>
    /\ lost' = lost + 1
    /\ toConsole' = Tail(toConsole)
    /\ UNCHANGED <<client, toClient, applied, pushes>>

LoseReply ==
    /\ lost < MaxLost /\ toClient # <<>>
    /\ lost' = lost + 1
    /\ toClient' = Tail(toClient)
    /\ UNCHANGED <<client, toConsole, applied, pushes>>

Countdown(t) == IF t > 0 THEN t - 1 ELSE t
Aged(link) == [i \in DOMAIN link |-> [link[i] EXCEPT !.age = @ + 1]]
InTime(link) == \A i \in DOMAIN link : link[i].age < MaxDelay

Tick ==
    /\ InTime(toConsole) /\ InTime(toClient)
    /\ headTimer' = Countdown(headTimer)
    /\ queueTimer' = [r \in Requests |-> Countdown(queueTimer[r])]
    /\ grace' = [w \in Writes |-> Countdown(grace[w])]
    /\ toConsole' = Aged(toConsole) /\ toClient' = Aged(toClient)
    /\ UNCHANGED <<socket, queue, outcome, answer, after, applied, lost, pushes>>

Next ==
    \/ Connect \/ Close
    \/ \E r \in Requests : Issue(r) \/ DropQueuedEntry(r)
    \/ Timeout \/ HandleMessage
    \/ ConsoleHandle \/ LoseRequest \/ LoseReply
    \/ \E p \in Paths : ConsolePush(p)
    \/ Tick

(* Timers that are due run, messages that arrived are handled, time goes   *)
(* on and the link delivers or loses; nobody has to make a call, and the   *)
(* console has to answer nothing a datagram did not reach.                 *)
Fairness ==
    /\ WF_vars(Timeout) /\ WF_vars(HandleMessage) /\ WF_vars(ConsoleHandle)
    /\ WF_vars(Tick)
    /\ \A r \in Requests : WF_vars(DropQueuedEntry(r))

Spec == Init /\ [][Next]_vars
FairSpec == Spec /\ Fairness

-----------------------------------------------------------------------------
(* Properties. *)

Datagrams == [of : Requests, age : 0..MaxDelay]
Messages == [of : Requests \cup {Push}, kind : Kinds \cup {Push},
             addr : Paths \cup {BulkAck}, holds : SUBSET Writes, age : 0..MaxDelay]

(* Every variable has its type. *)
TypeOK ==
    /\ socket \in {"unopened", "open", "closed"}
    /\ queue \in Seq(Requests)
    /\ headTimer \in {Off} \cup 0..RequestTimeout
    /\ queueTimer \in [Requests -> {Off} \cup 0..MaxQueueWait]
    /\ grace \in [Writes -> 0..Grace]
    /\ outcome \in [Requests -> Outcomes]
    /\ answer \in [Requests -> Messages \cup {NoAnswer}]
    /\ after \in [Requests -> SUBSET Writes]
    /\ toConsole \in Seq(Datagrams) /\ toClient \in Seq(Messages)
    /\ applied \in SUBSET Writes
    /\ lost \in 0..MaxLost /\ pushes \in 0..MaxPushes

(* The class promises one request in flight: at any time the queue holds   *)
(* exactly the unsettled requests, each once, the head and only the head   *)
(* has been sent, the request timer runs exactly while there is a head,    *)
(* and a queue-wait timer runs exactly for those behind it.                *)
OneInFlight ==
    /\ \A i, j \in DOMAIN queue : i # j => queue[i] # queue[j]
    /\ \A r \in Requests :
        /\ (outcome[r] \in Waiting) <=> \E i \in DOMAIN queue : queue[i] = r
        /\ (outcome[r] = "sent") <=> (queue # <<>> /\ r = Head(queue))
        /\ (queueTimer[r] # Off) <=> (outcome[r] = "waiting")
    /\ (headTimer # Off) <=> (queue # <<>>)

(* A write is never told another write's status: whatever acks are late or *)
(* lost, the one that resolves a bulk-set is its own.                      *)
NoForeignAck ==
    \A w \in Writes : outcome[w] = "ok" => answer[w].of = w

(* A read issued on a path after a write to it was reported done sees that *)
(* write, even when a late reply to an earlier read is what answers it.    *)
ReadYourWrites ==
    \A r \in Requests : outcome[r] = "ok" /\ r \in Reads => after[r] \subseteq answer[r].holds

(* A call settles once and for all: the promise it returned is never       *)
(* resolved or rejected a second time, and a caller told that its request  *)
(* was never sent may repeat it.                                           *)
SettledForGood ==
    [][\A r \in Requests : outcome[r] \in Settled => outcome'[r] = outcome[r]]_vars

(* Every call comes back, by an answer or by one of the timers.            *)
EveryCallSettles ==
    \A r \in Requests : outcome[r] \in Waiting ~> outcome[r] \in Settled

(* What a caller knows of its request: see RequestContract. *)
Status(r) == CASE outcome[r] = "none" -> "none"
               [] outcome[r] \in Waiting -> "pending"
               [] outcome[r] \in Unsent -> "refused"
               [] outcome[r] \in Unknown -> "unknown"
               [] OTHER -> "done"

Contract == INSTANCE RequestContract WITH
                status <- [r \in Requests |-> Status(r)]

(* The client implements its contract: a write reported done was applied,  *)
(* and one refused as never sent is never applied later.                   *)
ImplementsContract == Contract!Spec

(* Two statements of the source that the client does not keep, checked by *)
(* no run: the README tells how each is refuted.                           *)

(* The class doc: "a genuinely lost ack makes the next write time out      *)
(* too", that is, each lost datagram fails at most two writes.             *)
LostAckCostsOneMoreWrite ==
    MaxDelay < RequestTimeout =>
        Cardinality({w \in Writes : outcome[w] = "timeout"}) <= 2 * lost

(* enqueue's doc: reads need no late-reply tracking because the reply is   *)
(* the parameter's value whoever asked for it.                             *)
AnsweredInKind ==
    \A r \in Reads : outcome[r] = "ok" =>
        answer[r].kind \in {Kind[r]} \cup (IF Kind[r] = "get" THEN {Push} ELSE {})
=============================================================================
