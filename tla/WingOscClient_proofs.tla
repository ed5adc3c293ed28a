------------------------ MODULE WingOscClient_proofs ------------------------
(***************************************************************************)
(* Theorems about the OSC client, for every set of requests, every length  *)
(* of the queue and every value of the timers: its types, the one request  *)
(* in flight, and the steps of its queue; then, provided LinkAssumption,   *)
(* that IInv is an invariant, with it NoForeignAck and ReadYourWrites, and *)
(* that the client implements RequestContract.                             *)
(***************************************************************************)
EXTENDS WingOscClientInv, TLAPS, SequenceTheorems, FiniteSetTheorems

(* Removing an element of a sequence keeps the others, in order. *)
LEMMA RemoveAtProperties ==
    ASSUME NEW S, NEW s \in Seq(S), NEW i \in 1..Len(s)
    PROVE  /\ RemoveAt(s, i) \in Seq(S)
           /\ Len(RemoveAt(s, i)) = Len(s) - 1
           /\ \A j \in 1..(Len(s) - 1) :
                RemoveAt(s, i)[j] = IF j < i THEN s[j] ELSE s[j + 1]
<1> DEFINE a == SubSeq(s, 1, i - 1)
           b == SubSeq(s, i + 1, Len(s))
<1>1. a \in Seq(S) /\ Len(a) = i - 1 /\ \A j \in 1..(i - 1) : a[j] = s[j]
  <2>1. \A j \in 1..(i - 1) : s[j] \in S
    BY ElementOfSeq
  <2> QED BY <2>1, SubSeqProperties
<1>2. b \in Seq(S) /\ Len(b) = Len(s) - i /\ \A j \in 1..(Len(s) - i) : b[j] = s[i + j]
  <2>1. \A j \in (i + 1)..Len(s) : s[j] \in S
    BY ElementOfSeq
  <2> QED BY <2>1, SubSeqProperties
<1>3. RemoveAt(s, i) = a \o b
  BY DEF RemoveAt
<1> HIDE DEF a, b
<1>4. /\ a \o b \in Seq(S)
      /\ Len(a \o b) = Len(a) + Len(b)
      /\ \A j \in 1..(Len(a) + Len(b)) : (a \o b)[j] = IF j <= Len(a) THEN a[j] ELSE b[j - Len(a)]
  BY <1>1, <1>2, ConcatProperties
<1>5. ASSUME NEW j \in 1..(Len(s) - 1)
      PROVE  RemoveAt(s, i)[j] = IF j < i THEN s[j] ELSE s[j + 1]
  <2>0. i \in Int /\ j \in Int
    BY LenProperties
  <2>1. CASE j < i
    BY <2>1, <1>1, <1>2, <1>3, <1>4, LenProperties
  <2>2. CASE ~(j < i)
    <3>1. j - (i - 1) \in 1..(Len(s) - i) /\ i + (j - (i - 1)) = j + 1
      BY <2>0, <2>2, LenProperties
    <3>2. b[j - (i - 1)] = s[j + 1]
      BY <3>1, <1>2
    <3>3. (a \o b)[j] = b[j - (i - 1)]
      BY <2>2, <1>1, <1>2, <1>4, LenProperties
    <3> QED BY <2>2, <3>2, <3>3, <1>3
  <2> QED BY <2>1, <2>2
<1> QED BY <1>1, <1>2, <1>3, <1>4, <1>5, LenProperties

-----------------------------------------------------------------------------
(* Type correctness. *)

LEMMA ActivateHeadType ==
    ASSUME TypeOK, NEW rest \in Seq(Requests), NEW result \in [Requests -> Outcomes],
           ActivateHead(rest, result)
    PROVE  /\ queue' \in Seq(Requests)
           /\ headTimer' \in {Off} \cup 0..RequestTimeout
           /\ queueTimer' \in [Requests -> {Off} \cup 0..MaxQueueWait]
           /\ outcome' \in [Requests -> Outcomes]
           /\ toConsole' \in Seq(Datagrams)
<1>1. CASE rest = <<>>
  BY <1>1 DEF ActivateHead, TypeOK
<1>2. CASE rest # <<>>
  <2>1. Head(rest) \in Requests
    BY <1>2
  <2>2. [of |-> Head(rest), age |-> 0] \in Datagrams
    BY <2>1, LimitsAssumption DEF Datagrams
  <2>3. "sent" \in Outcomes
    BY DEF Outcomes, Waiting
  <2>4. /\ queue' = rest
        /\ headTimer' = RequestTimeout
        /\ outcome' = [result EXCEPT ![Head(rest)] = "sent"]
        /\ queueTimer' = [queueTimer EXCEPT ![Head(rest)] = Off]
        /\ toConsole' = Append(toConsole, [of |-> Head(rest), age |-> 0])
    BY <1>2 DEF ActivateHead
  <2>5. toConsole' \in Seq(Datagrams)
    BY <2>2, <2>4 DEF TypeOK
  <2>6. queueTimer' \in [Requests -> {Off} \cup 0..MaxQueueWait]
    BY <2>1, <2>4 DEF TypeOK
  <2> QED BY <2>1, <2>3, <2>4, <2>5, <2>6, LimitsAssumption
<1> QED BY <1>1, <1>2

LEMMA InitType == Init => TypeOK
<1> SUFFICES ASSUME Init PROVE TypeOK
  OBVIOUS
<1> QED BY LimitsAssumption DEF Init, TypeOK, Outcomes, Off, Grace

LEMMA TailType ==
    ASSUME NEW S, NEW s \in Seq(S), s # <<>>
    PROVE  Head(s) \in S /\ Tail(s) \in Seq(S)
BY HeadTailProperties

LEMMA IssueType ==
    ASSUME TypeOK, NEW r \in Requests, Issue(r)
    PROVE  TypeOK'
<1>1. after' \in [Requests -> SUBSET Writes]
  BY DEF Issue, TypeOK
<1>2. \A o \in Outcomes : [outcome EXCEPT ![r] = o] \in [Requests -> Outcomes]
  BY DEF TypeOK
<1>3. {"overflow", "unavailable", "waiting"} \subseteq Outcomes
  BY DEF Outcomes, Waiting, Settled, Unsent
<1>4. /\ queue' \in Seq(Requests)
      /\ headTimer' \in {Off} \cup 0..RequestTimeout
      /\ queueTimer' \in [Requests -> {Off} \cup 0..MaxQueueWait]
      /\ outcome' \in [Requests -> Outcomes]
      /\ toConsole' \in Seq(Datagrams)
  <2>1. CASE outcome' \in {[outcome EXCEPT ![r] = "overflow"], [outcome EXCEPT ![r] = "unavailable"]}
             /\ UNCHANGED <<queue, headTimer, queueTimer, toConsole>>
    BY <2>1, <1>2, <1>3 DEF TypeOK
  <2>2. CASE ActivateHead(<<r>>, outcome)
    BY <2>2, ActivateHeadType, <<r>> \in Seq(Requests) DEF TypeOK
  <2>3. CASE /\ queue' = Append(queue, r)
             /\ outcome' = [outcome EXCEPT ![r] = "waiting"]
             /\ queueTimer' = [queueTimer EXCEPT ![r] = MaxQueueWait]
             /\ UNCHANGED <<headTimer, toConsole>>
    <3>1. queueTimer' \in [Requests -> {Off} \cup 0..MaxQueueWait]
      BY <2>3, LimitsAssumption DEF TypeOK
    <3> QED BY <2>3, <3>1, <1>2, <1>3, AppendProperties DEF TypeOK
  <2> QED BY <2>1, <2>2, <2>3 DEF Issue
<1> QED BY <1>1, <1>4 DEF Issue, TypeOK

LEMMA DropType ==
    ASSUME TypeOK, NEW r \in Requests, DropQueuedEntry(r)
    PROVE  TypeOK'
<1>1. queue' \in Seq(Requests)
  <2>1. PICK i \in DOMAIN queue : queue' = RemoveAt(queue, i)
    BY DEF DropQueuedEntry
  <2> QED BY <2>1, RemoveAtProperties, LenProperties DEF TypeOK
<1>2. "expired" \in Outcomes
  BY DEF Outcomes, Settled, Unsent
<1> QED BY <1>1, <1>2 DEF DropQueuedEntry, TypeOK, network

LEMMA TimeoutType ==
    ASSUME TypeOK, Timeout
    PROVE  TypeOK'
<1>1. Head(queue) \in Requests /\ Tail(queue) \in Seq(Requests)
  BY TailType DEF Timeout, TypeOK
<1>2. "timeout" \in Outcomes
  BY DEF Outcomes, Settled, Unknown
<1>3. [outcome EXCEPT ![Head(queue)] = "timeout"] \in [Requests -> Outcomes]
  BY <1>2 DEF TypeOK
<1>4. grace' \in [Writes -> 0..Grace]
  <2>1. Grace \in Nat
    BY LimitsAssumption DEF Grace
  <2>2. CASE UNCHANGED grace
    BY <2>2 DEF TypeOK
  <2>3. CASE RememberAbandonedReply(Head(queue))
    <3>1. \A v \in Writes : grace[v] \in 0..Grace /\ 0 \in 0..Grace /\ Grace \in 0..Grace
      BY <2>1 DEF TypeOK
    <3> QED BY <2>3, <3>1 DEF RememberAbandonedReply
  <2> QED BY <2>2, <2>3 DEF Timeout
<1> QED BY <1>1, <1>3, <1>4, ActivateHeadType DEF Timeout, TypeOK

LEMMA HandleType ==
    ASSUME TypeOK, HandleMessage
    PROVE  TypeOK'
<1> DEFINE m == Head(toClient)
<1>1. m \in Messages /\ toClient' \in Seq(Messages)
  BY TailType DEF HandleMessage, TypeOK
<1> HIDE DEF m
<1>2. CASE ConsumeAbandonedReply(m)
  <2>1. grace' \in [Writes -> 0..Grace]
    <3>1. 0 \in 0..Grace
      BY LimitsAssumption DEF Grace
    <3> QED BY <1>2, <3>1 DEF ConsumeAbandonedReply, TypeOK
  <2> QED BY <1>1, <1>2, <2>1 DEF HandleMessage, ConsumeAbandonedReply, TypeOK
<1>3. CASE ResolveHead(m)
  <2>1. queue # <<>> /\ Head(queue) \in Requests /\ Tail(queue) \in Seq(Requests)
    BY <1>3, TailType DEF ResolveHead, AnswersHead, TypeOK
  <2>2. "ok" \in Outcomes
    BY DEF Outcomes, Settled
  <2>3. [outcome EXCEPT ![Head(queue)] = "ok"] \in [Requests -> Outcomes]
    BY <2>2 DEF TypeOK
  <2>4. answer' \in [Requests -> Messages \cup {NoAnswer}]
    BY <1>1, <1>3 DEF ResolveHead, TypeOK
  <2>5. ActivateHead(Tail(queue), [outcome EXCEPT ![Head(queue)] = "ok"])
    BY <1>3 DEF ResolveHead
  <2>6. /\ queue' \in Seq(Requests)
        /\ headTimer' \in {Off} \cup 0..RequestTimeout
        /\ queueTimer' \in [Requests -> {Off} \cup 0..MaxQueueWait]
        /\ outcome' \in [Requests -> Outcomes]
        /\ toConsole' \in Seq(Datagrams)
    BY <2>1, <2>3, <2>5, ActivateHeadType
  <2> QED BY <1>1, <1>3, <2>4, <2>6 DEF HandleMessage, ResolveHead, TypeOK
<1>4. CASE DispatchSubscriptionPush(m)
  BY <1>1, <1>4 DEF HandleMessage, DispatchSubscriptionPush, TypeOK
<1> QED BY <1>2, <1>3, <1>4 DEF HandleMessage, m

LEMMA CloseType ==
    ASSUME TypeOK, Close
    PROVE  TypeOK'
<1>1. outcome' \in [Requests -> Outcomes]
  BY DEF Close, TypeOK, Outcomes, Settled, Unsent, Unknown
<1> QED BY <1>1, LimitsAssumption DEF Close, TypeOK, Off, Grace

LEMMA ConsoleHandleType ==
    ASSUME TypeOK, ConsoleHandle
    PROVE  TypeOK'
<1> DEFINE d == Head(toConsole)
<1>1. d \in Datagrams /\ toConsole' \in Seq(Datagrams)
  BY TailType DEF ConsoleHandle, TypeOK
<1>2. applied' \in SUBSET Writes
  BY DEF ConsoleHandle, TypeOK
<1>3. Reply(d, applied') \in Messages
  <2>1. d.of \in Requests /\ d.age \in 0..MaxDelay
    BY <1>1 DEF Datagrams
  <2>2. Kind[d.of] \in Kinds /\ Path[d.of] \in Paths
    BY <2>1, RequestsAssumption
  <2>3. Holds(Path[d.of], applied') \in SUBSET Writes
    BY <1>2 DEF Holds
  <2>4. ReplyAddress(d.of) \in Paths \cup {BulkAck}
    BY <2>2 DEF ReplyAddress
  <2> HIDE DEF d
  <2> QED BY <2>1, <2>2, <2>3, <2>4 DEF Reply, Messages
<1>4. toClient' \in Seq(Messages)
  <2>1. toClient' \in {toClient, Append(toClient, Reply(d, applied'))}
    BY DEF ConsoleHandle
  <2>2. toClient \in Seq(Messages)
    BY DEF TypeOK
  <2>3. Append(toClient, Reply(d, applied')) \in Seq(Messages)
    BY <2>2, <1>3, AppendProperties
  <2> QED BY <2>1, <2>2, <2>3
<1> QED BY <1>1, <1>2, <1>4 DEF ConsoleHandle, TypeOK, client

LEMMA ConsolePushType ==
    ASSUME TypeOK, NEW p \in Paths, ConsolePush(p)
    PROVE  TypeOK'
<1> DEFINE m == [of |-> Push, kind |-> Push, addr |-> p, holds |-> Holds(p, applied), age |-> 0]
<1>1. m \in Messages
  BY LimitsAssumption DEF Messages, Holds, TypeOK
<1>2. toClient' \in Seq(Messages)
  <2>1. toClient' = Append(toClient, m)
    BY DEF ConsolePush
  <2> HIDE DEF m
  <2> QED BY <1>1, <2>1, AppendProperties DEF TypeOK
<1>3. pushes' \in 0..MaxPushes
  BY LimitsAssumption DEF ConsolePush, TypeOK
<1> QED BY <1>2, <1>3 DEF ConsolePush, TypeOK, client

LEMMA LoseType ==
    ASSUME TypeOK, LoseRequest \/ LoseReply
    PROVE  TypeOK'
<1>1. toConsole' \in Seq(Datagrams) /\ toClient' \in Seq(Messages)
  BY TailType DEF LoseRequest, LoseReply, TypeOK
<1>2. lost' \in 0..MaxLost
  BY LimitsAssumption DEF LoseRequest, LoseReply, TypeOK
<1> QED BY <1>1, <1>2 DEF LoseRequest, LoseReply, TypeOK, client

LEMMA CountdownType ==
    ASSUME NEW n \in Nat, NEW t \in {Off} \cup 0..n
    PROVE  /\ Countdown(t) \in {Off} \cup 0..n
           /\ t # Off => Countdown(t) \in 0..n
           /\ (Countdown(t) # Off) <=> (t # Off)
BY DEF Countdown, Off

(* Aging a link keeps its datagrams, in order, each one tick older. *)
LEMMA AgedDatagrams ==
    ASSUME NEW link \in Seq(Datagrams), InTime(link)
    PROVE  /\ Aged(link) \in Seq(Datagrams) /\ Len(Aged(link)) = Len(link)
           /\ DOMAIN Aged(link) = DOMAIN link
           /\ \A i \in DOMAIN link : /\ Aged(link)[i].of = link[i].of
                                     /\ Aged(link)[i].age = link[i].age + 1
<1> DEFINE e(i) == [link[i] EXCEPT !.age = @ + 1]
<1>1. DOMAIN link = 1..Len(link) /\ Len(link) \in Nat
  BY LenProperties
<1>2. ASSUME NEW i \in 1..Len(link)
      PROVE  e(i) \in Datagrams /\ e(i).of = link[i].of /\ e(i).age = link[i].age + 1
  <2>1. PICK d \in Datagrams : d = link[i]
    BY ElementOfSeq
  <2>2. d.age + 1 \in 0..MaxDelay
    BY <1>1, <2>1, LimitsAssumption DEF Datagrams, InTime
  <2>3. e(i) = [d EXCEPT !.age = d.age + 1]
    BY <2>1
  <2> HIDE DEF e
  <2> QED BY <2>1, <2>2, <2>3 DEF Datagrams
<1>3. Aged(link) = [i \in 1..Len(link) |-> e(i)]
  BY <1>1 DEF Aged
<1> HIDE DEF e
<1> QED BY <1>1, <1>2, <1>3

LEMMA AgedMessages ==
    ASSUME NEW link \in Seq(Messages), InTime(link)
    PROVE  /\ Aged(link) \in Seq(Messages) /\ Len(Aged(link)) = Len(link)
           /\ DOMAIN Aged(link) = DOMAIN link
           /\ \A i \in DOMAIN link : /\ Aged(link)[i].of = link[i].of
                                     /\ Aged(link)[i].addr = link[i].addr
                                     /\ Aged(link)[i].holds = link[i].holds
                                     /\ Aged(link)[i].age = link[i].age + 1
<1> DEFINE e(i) == [link[i] EXCEPT !.age = @ + 1]
<1>1. DOMAIN link = 1..Len(link) /\ Len(link) \in Nat
  BY LenProperties
<1>2. ASSUME NEW i \in 1..Len(link)
      PROVE  /\ e(i) \in Messages /\ e(i).of = link[i].of /\ e(i).addr = link[i].addr
             /\ e(i).holds = link[i].holds /\ e(i).age = link[i].age + 1
  <2>1. PICK m \in Messages : m = link[i]
    BY ElementOfSeq
  <2>2. m.age + 1 \in 0..MaxDelay
    BY <1>1, <2>1, LimitsAssumption DEF Messages, InTime
  <2>3. e(i) = [m EXCEPT !.age = m.age + 1]
    BY <2>1
  <2> HIDE DEF e
  <2> QED BY <2>1, <2>2, <2>3 DEF Messages
<1>3. Aged(link) = [i \in 1..Len(link) |-> e(i)]
  BY <1>1 DEF Aged
<1> HIDE DEF e
<1> QED BY <1>1, <1>2, <1>3

LEMMA TickType ==
    ASSUME TypeOK, Tick
    PROVE  TypeOK'
<1>1. toConsole' \in Seq(Datagrams) /\ toClient' \in Seq(Messages)
  BY AgedDatagrams, AgedMessages DEF Tick, TypeOK
<1>2. headTimer' \in {Off} \cup 0..RequestTimeout
  BY CountdownType, LimitsAssumption DEF Tick, TypeOK
<1>3. queueTimer' \in [Requests -> {Off} \cup 0..MaxQueueWait]
  BY CountdownType, LimitsAssumption DEF Tick, TypeOK
<1>4. grace' \in [Writes -> 0..Grace]
  <2>1. \A w \in Writes : Countdown(grace[w]) \in 0..Grace
    BY LimitsAssumption DEF TypeOK, Grace, Countdown
  <2> QED BY <2>1 DEF Tick
<1> QED BY <1>1, <1>2, <1>3, <1>4 DEF Tick, TypeOK

LEMMA NextType == TypeOK /\ [Next]_vars => TypeOK'
<1> SUFFICES ASSUME TypeOK, [Next]_vars PROVE TypeOK'
  OBVIOUS
<1>1. CASE Connect
  BY <1>1 DEF Connect, TypeOK, network
<1>2. CASE UNCHANGED vars
  BY <1>2 DEF vars, client, network, TypeOK
<1> QED BY <1>1, <1>2, CloseType, IssueType, DropType, TimeoutType, HandleType,
           ConsoleHandleType, LoseType, ConsolePushType, TickType DEF Next

(* Whatever is lost, late or closed, every variable keeps its type: the    *)
(* timers stay within their limits and the queues hold requests.           *)
THEOREM TypeCorrect == Spec => []TypeOK
BY InitType, NextType, PTL DEF Spec

-----------------------------------------------------------------------------
(* One request in flight. *)

InQueue(r) == \E i \in DOMAIN queue : queue[i] = r

LEMMA OutcomeKinds ==
    /\ Waiting \cap Settled = {} /\ "none" \notin Waiting \cup Settled
    /\ "sent" \in Waiting /\ "waiting" \in Waiting /\ "sent" # "waiting"
    /\ {"ok", "timeout", "overflow", "unavailable", "expired", "dropped", "cut"} = Settled
BY DEF Waiting, Settled, Unsent, Unknown

(* The queue as a function, its first element and the rest of it. *)
LEMMA QueueShape ==
    ASSUME NEW S, NEW q \in Seq(S), q # <<>>
    PROVE  /\ Len(q) \in Nat \ {0} /\ DOMAIN q = 1..Len(q) /\ Head(q) = q[1]
           /\ Tail(q) \in Seq(S) /\ Len(Tail(q)) = Len(q) - 1
           /\ DOMAIN Tail(q) = 1..(Len(q) - 1)
           /\ \A i \in 1..(Len(q) - 1) : Tail(q)[i] = q[i + 1]
           /\ Tail(q) = <<>> <=> Len(q) = 1
           /\ Tail(q) # <<>> => Head(Tail(q)) = q[2]
<1>1. Len(q) \in Nat \ {0} /\ DOMAIN q = 1..Len(q) /\ Head(q) = q[1]
  BY EmptySeq, LenProperties
<1>2. /\ Tail(q) \in Seq(S) /\ Len(Tail(q)) = Len(q) - 1
      /\ \A i \in 1..(Len(q) - 1) : Tail(q)[i] = q[i + 1]
  BY HeadTailProperties
<1>3. DOMAIN Tail(q) = 1..(Len(q) - 1)
  BY <1>2, LenProperties
<1>4. Tail(q) = <<>> <=> Len(q) = 1
  BY <1>1, <1>2, EmptySeq
<1>5. Tail(q) # <<>> => Head(Tail(q)) = q[2]
  <2>1. SUFFICES ASSUME Tail(q) # <<>> PROVE Head(Tail(q)) = q[2]
    OBVIOUS
  <2>2. Head(Tail(q)) = Tail(q)[1] /\ 1 \in 1..(Len(q) - 1)
    BY <2>1, <1>1, <1>2, <1>4
  <2> QED BY <2>2, <1>2
<1> QED BY <1>1, <1>2, <1>3, <1>4, <1>5

(* What settling the head and activating its successor does. *)
LEMMA PromotionInOrder ==
    ASSUME TypeOK, OneInFlight, queue # <<>>, NEW o \in Settled,
           ActivateHead(Tail(queue), [outcome EXCEPT ![Head(queue)] = o])
    PROVE  OneInFlight'
<1> DEFINE h == Head(queue)
           n == Len(queue)
<1>1. /\ n \in Nat \ {0} /\ DOMAIN queue = 1..n /\ h = queue[1]
      /\ queue' = Tail(queue) /\ DOMAIN queue' = 1..(n - 1)
      /\ \A i \in 1..(n - 1) : queue'[i] = queue[i + 1]
      /\ queue' = <<>> <=> n = 1
      /\ queue' # <<>> => Head(queue') = queue[2]
      /\ queue \in Seq(Requests)
  BY QueueShape DEF ActivateHead, TypeOK
<1>2. \A i \in 1..n : queue[i] \in Requests
  BY <1>1, ElementOfSeq
<1>3. /\ \A i, j \in 1..n : i # j => queue[i] # queue[j]
      /\ \A r \in Requests : (outcome[r] \in Waiting) <=> \E i \in 1..n : queue[i] = r
      /\ \A r \in Requests : (outcome[r] = "sent") <=> r = h
      /\ \A r \in Requests : (queueTimer[r] # Off) <=> (outcome[r] = "waiting")
  BY <1>1 DEF OneInFlight
<1>4. \A i, j \in 1..(n - 1) : i # j => queue'[i] # queue'[j]
  BY <1>1, <1>3
<1>5. outcome \in [Requests -> Outcomes] /\ h \in Requests /\ queueTimer \in [Requests -> Int]
  BY <1>1, <1>2 DEF TypeOK, Off
<1> HIDE DEF h, n
<1>6. CASE n = 1
  <2>1. headTimer' = Off /\ outcome' = [outcome EXCEPT ![h] = o] /\ queueTimer' = queueTimer
    BY <1>1, <1>6 DEF ActivateHead, h
  <2>2. \A r \in Requests : outcome[r] \in Waiting <=> r = h
    BY <1>1, <1>3, <1>6
  <2>3. \A r \in Requests : outcome'[r] \notin Waiting
    BY <2>1, <2>2, <1>5, OutcomeKinds
  <2>4. DOMAIN queue' = {} /\ queue' = <<>>
    BY <1>1, <1>6
  <2>5. \A r \in Requests : queueTimer'[r] = Off
    BY <2>1, <2>2, <1>3, OutcomeKinds
  <2> QED BY <2>1, <2>3, <2>4, <2>5, OutcomeKinds DEF OneInFlight
<1>7. CASE n # 1
  <2> DEFINE g == queue[2]
  <2>1. 2 \in 1..n /\ 1 \in 1..n /\ g \in Requests /\ g # h /\ Head(queue') = g /\ queue' # <<>>
    BY <1>1, <1>2, <1>3, <1>7
  <2> HIDE DEF g
  <2>2. /\ headTimer' = RequestTimeout
        /\ outcome' = [[outcome EXCEPT ![h] = o] EXCEPT ![g] = "sent"]
        /\ queueTimer' = [queueTimer EXCEPT ![g] = Off]
    BY <1>1, <2>1 DEF ActivateHead, h
  <2>3. headTimer' # Off
    BY <2>2, LimitsAssumption DEF Off
  <2>4. outcome'[g] = "sent" /\ outcome'[h] = o
        /\ \A r \in Requests \ {g, h} : outcome'[r] = outcome[r]
    BY <2>1, <2>2, <1>5
  <2>5. \A r \in Requests : r # h =>
            ((\E i \in 1..n : queue[i] = r) <=> \E i \in 1..(n - 1) : queue'[i] = r)
    <3> SUFFICES ASSUME NEW r \in Requests, r # h
                 PROVE (\E i \in 1..n : queue[i] = r) <=> \E i \in 1..(n - 1) : queue'[i] = r
      OBVIOUS
    <3>1. ASSUME NEW i \in 1..n, queue[i] = r PROVE \E j \in 1..(n - 1) : queue'[j] = r
      <4>1. i - 1 \in 1..(n - 1) /\ (i - 1) + 1 = i
        BY <3>1, <1>1
      <4> QED BY <3>1, <4>1, <1>1
    <3>2. ASSUME NEW i \in 1..(n - 1), queue'[i] = r PROVE \E j \in 1..n : queue[j] = r
      BY <3>2, <1>1
    <3> QED BY <3>1, <3>2
  <2>6. \A i \in 1..(n - 1) : queue'[i] # h
    BY <1>1, <1>3
  <2>7. \A r \in Requests : (outcome'[r] \in Waiting) <=> \E i \in 1..(n - 1) : queue'[i] = r
    <3> TAKE r \in Requests
    <3>1. CASE r = h
      BY <3>1, <2>4, <2>6, OutcomeKinds
    <3>2. CASE r = g
      <4>1. 1 \in 1..(n - 1) /\ queue'[1] = g
        BY <2>1, <1>1 DEF g
      <4> QED BY <3>2, <4>1, <2>4, OutcomeKinds
    <3>3. CASE r # h /\ r # g
      BY <3>3, <2>4, <2>5, <1>3
    <3> QED BY <3>1, <3>2, <3>3
  <2>8. \A r \in Requests : (outcome'[r] = "sent") <=> r = g
    BY <2>4, <1>3, OutcomeKinds
  <2>9. \A r \in Requests : (queueTimer'[r] # Off) <=> (outcome'[r] = "waiting")
    <3> TAKE r \in Requests
    <3>1. CASE r = h
      BY <3>1, <2>1, <2>2, <2>4, <1>3, <1>5, OutcomeKinds
    <3>2. CASE r = g
      BY <3>2, <2>2, <2>4, <1>5, OutcomeKinds
    <3>3. CASE r # h /\ r # g
      BY <3>3, <2>2, <2>4, <1>3, <1>5
    <3> QED BY <3>1, <3>2, <3>3
  <2>10. DOMAIN queue' = 1..(n - 1)
    BY <1>1
  <2>11. \A r \in Requests : (outcome'[r] = "sent") <=> (queue' # <<>> /\ r = Head(queue'))
    BY <2>1, <2>8
  <2> QED BY <1>4, <2>1, <2>3, <2>7, <2>9, <2>10, <2>11 DEF OneInFlight
<1> QED BY <1>6, <1>7

LEMMA IssueInOrder ==
    ASSUME TypeOK, OneInFlight, NEW r \in Requests, Issue(r)
    PROVE  OneInFlight'
<1>1. /\ outcome \in [Requests -> Outcomes] /\ outcome[r] = "none"
      /\ queueTimer \in [Requests -> Int] /\ queue \in Seq(Requests)
      /\ DOMAIN queue = 1..Len(queue) /\ Len(queue) \in Nat
  BY LenProperties DEF Issue, TypeOK, Off
<1>2. ~(\E i \in DOMAIN queue : queue[i] = r) /\ queueTimer[r] = Off
  BY <1>1, OutcomeKinds DEF OneInFlight
<1>3. ASSUME NEW o \in Settled, outcome' = [outcome EXCEPT ![r] = o],
             UNCHANGED <<queue, headTimer, queueTimer, toConsole>>
      PROVE  OneInFlight'
  <2>1. \A s \in Requests : outcome'[s] = IF s = r THEN o ELSE outcome[s]
    BY <1>1, <1>3
  <2>2. outcome[r] \notin Waiting /\ outcome'[r] \notin Waiting
    BY <1>1, <2>1, OutcomeKinds
  <2>3. queue # <<>> => r # Head(queue)
    BY <1>1, <2>2, OutcomeKinds DEF OneInFlight
  <2>4. \A s \in Requests : (outcome'[s] \in Waiting) <=> \E i \in DOMAIN queue : queue[i] = s
    BY <1>2, <2>1, <2>2 DEF OneInFlight
  <2>5. \A s \in Requests : (outcome'[s] = "sent") <=> (queue # <<>> /\ s = Head(queue))
    BY <2>1, <2>2, <2>3, OutcomeKinds DEF OneInFlight
  <2>6. \A s \in Requests : (queueTimer[s] # Off) <=> (outcome'[s] = "waiting")
    BY <1>2, <2>1, <2>2, OutcomeKinds DEF OneInFlight
  <2> QED BY <1>3, <2>4, <2>5, <2>6 DEF OneInFlight
<1>4. ASSUME queue = <<>>, ActivateHead(<<r>>, outcome)
      PROVE  OneInFlight'
  <2>1. /\ queue' = <<r>> /\ queue' # <<>> /\ Head(queue') = r /\ DOMAIN queue' = {1} /\ queue'[1] = r
        /\ headTimer' = RequestTimeout
        /\ outcome' = [outcome EXCEPT ![r] = "sent"]
        /\ queueTimer' = [queueTimer EXCEPT ![r] = Off]
    BY <1>4 DEF ActivateHead
  <2>2. headTimer' # Off
    BY <2>1, LimitsAssumption DEF Off
  <2>3. \A s \in Requests : outcome[s] \notin Waiting /\ queueTimer[s] = Off
    BY <1>4, OutcomeKinds DEF OneInFlight
  <2>4. \A s \in Requests : outcome'[s] = IF s = r THEN "sent" ELSE outcome[s]
    BY <1>1, <2>1
  <2>5. \A s \in Requests : (outcome'[s] \in Waiting) <=> s = r
    BY <2>3, <2>4, OutcomeKinds
  <2>6. \A s \in Requests : (outcome'[s] = "sent") <=> s = r
    BY <2>3, <2>4, OutcomeKinds
  <2>7. \A s \in Requests : queueTimer'[s] = Off /\ outcome'[s] # "waiting"
    BY <1>1, <2>1, <2>3, <2>4, OutcomeKinds
  <2> QED BY <2>1, <2>2, <2>5, <2>6, <2>7 DEF OneInFlight
<1>5. ASSUME queue # <<>>, queue' = Append(queue, r),
             outcome' = [outcome EXCEPT ![r] = "waiting"],
             queueTimer' = [queueTimer EXCEPT ![r] = MaxQueueWait],
             UNCHANGED <<headTimer, toConsole>>
      PROVE  OneInFlight'
  <2> DEFINE n == Len(queue)
  <2>1. /\ n \in Nat \ {0} /\ DOMAIN queue' = 1..(n + 1)
        /\ \A i \in 1..n : queue'[i] = queue[i]
        /\ queue'[n + 1] = r /\ queue' # <<>> /\ Head(queue') = Head(queue)
    BY <1>1, <1>5, AppendProperties, QueueShape, HeadTailAppend
  <2>2. \A s \in Requests : /\ outcome'[s] = IF s = r THEN "waiting" ELSE outcome[s]
                            /\ queueTimer'[s] = IF s = r THEN MaxQueueWait ELSE queueTimer[s]
    BY <1>1, <1>5
  <2>3. DOMAIN queue = 1..n
    BY <1>1
  <2> HIDE DEF n
  <2>4. \A i, j \in DOMAIN queue' : i # j => queue'[i] # queue'[j]
    <3> SUFFICES ASSUME NEW i \in 1..(n + 1), NEW j \in 1..(n + 1), i # j
                 PROVE  queue'[i] # queue'[j]
      BY <2>1
    <3>1. CASE i \in 1..n /\ j \in 1..n
      BY <3>1, <2>1, <2>3 DEF OneInFlight
    <3>2. CASE i = n + 1 /\ j \in 1..n
      BY <3>2, <2>1, <2>3, <1>2
    <3>3. CASE j = n + 1 /\ i \in 1..n
      BY <3>3, <2>1, <2>3, <1>2
    <3> QED BY <3>1, <3>2, <3>3, <2>1
  <2>5. \A s \in Requests : (\E i \in DOMAIN queue' : queue'[i] = s)
                               <=> (s = r \/ \E i \in DOMAIN queue : queue[i] = s)
    <3>1. DOMAIN queue' = DOMAIN queue \cup {n + 1}
      BY <2>1, <2>3
    <3> QED BY <3>1, <2>1, <2>3
  <2>6. \A s \in Requests : (outcome'[s] \in Waiting) <=> \E i \in DOMAIN queue' : queue'[i] = s
    BY <2>2, <2>5, OutcomeKinds DEF OneInFlight
  <2>7. \A s \in Requests : (outcome'[s] = "sent") <=> (queue' # <<>> /\ s = Head(queue'))
    <3>1. r # Head(queue)
      BY <1>1, <1>5, OutcomeKinds DEF OneInFlight
    <3> QED BY <3>1, <2>1, <2>2, <1>1, <1>5, OutcomeKinds DEF OneInFlight
  <2>8. MaxQueueWait # Off
    BY LimitsAssumption DEF Off
  <2>9. \A s \in Requests : (queueTimer'[s] # Off) <=> (outcome'[s] = "waiting")
    BY <2>2, <2>8 DEF OneInFlight
  <2>10. headTimer' # Off
    BY <1>5 DEF OneInFlight
  <2> QED BY <2>1, <2>4, <2>6, <2>7, <2>9, <2>10 DEF OneInFlight
<1> QED BY <1>3, <1>4, <1>5, OutcomeKinds DEF Issue

LEMMA DropInOrder ==
    ASSUME TypeOK, OneInFlight, NEW r \in Requests, DropQueuedEntry(r)
    PROVE  OneInFlight'
<1> DEFINE n == Len(queue)
<1>1. PICK k \in DOMAIN queue : queue[k] = r /\ queue' = RemoveAt(queue, k)
  BY DEF DropQueuedEntry
<1>2. /\ outcome \in [Requests -> Outcomes] /\ queueTimer \in [Requests -> Int]
      /\ queue \in Seq(Requests) /\ DOMAIN queue = 1..n /\ n \in Nat
  BY LenProperties DEF TypeOK, Off
<1>3. queueTimer[r] = 0 /\ outcome[r] = "waiting"
  BY DEF DropQueuedEntry, OneInFlight, Off
<1>4. queue # <<>> /\ Head(queue) = queue[1] /\ r # Head(queue) /\ k \in 2..n
  <2>1. queue # <<>>
    BY <1>1, <1>2
  <2>2. Head(queue) = queue[1]
    BY <2>1, <1>2, QueueShape
  <2>3. r # Head(queue)
    BY <1>3, <2>1, OutcomeKinds DEF OneInFlight
  <2> QED BY <1>1, <1>2, <2>1, <2>2, <2>3
<1>5. /\ queue' \in Seq(Requests) /\ Len(queue') = n - 1 /\ DOMAIN queue' = 1..(n - 1)
      /\ \A j \in 1..(n - 1) : queue'[j] = IF j < k THEN queue[j] ELSE queue[j + 1]
  <2>1. queue \in Seq(Requests) /\ k \in 1..Len(queue)
    BY <1>1, <1>2
  <2>2. /\ RemoveAt(queue, k) \in Seq(Requests) /\ Len(RemoveAt(queue, k)) = Len(queue) - 1
        /\ \A j \in 1..(Len(queue) - 1) : RemoveAt(queue, k)[j] = IF j < k THEN queue[j] ELSE queue[j + 1]
    BY <2>1, RemoveAtProperties
  <2>3. DOMAIN queue' = 1..Len(queue')
    BY <1>1, <2>2, LenProperties
  <2> QED BY <1>1, <2>2, <2>3
<1>6. queue' # <<>> /\ Head(queue') = Head(queue)
  <2>1. queue' # <<>>
    BY <1>2, <1>4, <1>5
  <2>2. Head(queue') = queue'[1] /\ 1 \in 1..(n - 1) /\ 1 < k
    <3>1. Head(queue') = queue'[1]
      BY <2>1, <1>5, QueueShape
    <3>2. n \in Nat /\ k \in 2..n
      BY <1>2, <1>4
    <3> QED BY <3>1, <3>2
  <2> QED BY <2>1, <2>2, <1>4, <1>5
<1>7. \A s \in Requests : /\ outcome'[s] = IF s = r THEN "expired" ELSE outcome[s]
                          /\ queueTimer'[s] = IF s = r THEN Off ELSE queueTimer[s]
  BY <1>2 DEF DropQueuedEntry
<1>8. \A i, j \in 1..n : i # j => queue[i] # queue[j]
  BY <1>2 DEF OneInFlight
<1> HIDE DEF n
<1>9. \A i, j \in 1..(n - 1) : i # j => queue'[i] # queue'[j]
  <2> SUFFICES ASSUME NEW i \in 1..(n - 1), NEW j \in 1..(n - 1), i # j
               PROVE  queue'[i] # queue'[j]
    OBVIOUS
  <2> DEFINE at(x) == IF x < k THEN x ELSE x + 1
  <2>1. at(i) \in 1..n /\ at(j) \in 1..n /\ at(i) # at(j)
    BY <1>2, <1>4
  <2>2. queue'[i] = queue[at(i)] /\ queue'[j] = queue[at(j)]
    BY <1>5
  <2> QED BY <2>1, <2>2, <1>8
<1>10. \A s \in Requests : (\E j \in 1..(n - 1) : queue'[j] = s)
                              <=> (s # r /\ \E i \in 1..n : queue[i] = s)
  <2> SUFFICES ASSUME NEW s \in Requests
               PROVE (\E j \in 1..(n - 1) : queue'[j] = s)
                        <=> (s # r /\ \E i \in 1..n : queue[i] = s)
    OBVIOUS
  <2>1. ASSUME NEW j \in 1..(n - 1), queue'[j] = s PROVE s # r /\ \E i \in 1..n : queue[i] = s
    <3> DEFINE i == IF j < k THEN j ELSE j + 1
    <3>1. i \in 1..n /\ i # k
      BY <1>2, <1>4
    <3>2. queue[i] = s
      BY <2>1, <1>5
    <3> QED BY <3>1, <3>2, <1>1, <1>2, <1>8
  <2>2. ASSUME s # r, NEW i \in 1..n, queue[i] = s PROVE \E j \in 1..(n - 1) : queue'[j] = s
    <3>1. i # k
      BY <2>2, <1>1
    <3>2. CASE i < k
      <4>1. i \in 1..(n - 1)
        BY <3>2, <1>2, <1>4
      <4> QED BY <4>1, <3>2, <2>2, <1>5
    <3>3. CASE i > k
      <4>1. i - 1 \in 1..(n - 1) /\ ~(i - 1 < k) /\ (i - 1) + 1 = i
        BY <3>3, <1>2, <1>4
      <4> QED BY <4>1, <2>2, <1>5
    <3> QED BY <3>1, <3>2, <3>3, <1>2, <1>4
  <2> QED BY <2>1, <2>2
<1>11. \A s \in Requests : (outcome'[s] \in Waiting) <=> \E j \in 1..(n - 1) : queue'[j] = s
  <2>1. \A s \in Requests : (outcome[s] \in Waiting) <=> \E i \in 1..n : queue[i] = s
    BY <1>2 DEF OneInFlight, n
  <2>2. "expired" \notin Waiting
    BY OutcomeKinds
  <2> QED BY <2>1, <2>2, <1>7, <1>10
<1>12. \A s \in Requests : (outcome'[s] = "sent") <=> (queue' # <<>> /\ s = Head(queue'))
  BY <1>4, <1>6, <1>7 DEF OneInFlight
<1>13. \A s \in Requests : (queueTimer'[s] # Off) <=> (outcome'[s] = "waiting")
  BY <1>7 DEF OneInFlight
<1>14. headTimer' # Off
  BY <1>4 DEF DropQueuedEntry, OneInFlight
<1> QED BY <1>5, <1>6, <1>9, <1>11, <1>12, <1>13, <1>14 DEF OneInFlight

LEMMA CloseInOrder ==
    ASSUME TypeOK, OneInFlight, Close
    PROVE  OneInFlight'
<1>1. \A r \in Requests : outcome'[r] \notin Waiting /\ queueTimer'[r] = Off
  BY OutcomeKinds DEF Close, TypeOK, Waiting
<1> QED BY <1>1, OutcomeKinds DEF Close, OneInFlight

LEMMA TickInOrder ==
    ASSUME TypeOK, OneInFlight, Tick
    PROVE  OneInFlight'
<1>1. (headTimer' # Off) <=> (headTimer # Off)
  BY CountdownType, LimitsAssumption DEF Tick, TypeOK
<1>2. \A r \in Requests : (queueTimer'[r] # Off) <=> (queueTimer[r] # Off)
  BY CountdownType, LimitsAssumption DEF Tick, TypeOK
<1> QED BY <1>1, <1>2 DEF Tick, OneInFlight

LEMMA NextInOrder == TypeOK /\ OneInFlight /\ [Next]_vars => OneInFlight'
<1> SUFFICES ASSUME TypeOK, OneInFlight, [Next]_vars PROVE OneInFlight'
  OBVIOUS
<1>1. ASSUME UNCHANGED <<queue, headTimer, queueTimer, outcome>> PROVE OneInFlight'
  BY <1>1 DEF OneInFlight
<1>2. CASE Timeout
  BY <1>2, PromotionInOrder, OutcomeKinds DEF Timeout
<1>3. CASE HandleMessage
  <2>1. CASE ResolveHead(Head(toClient))
    BY <2>1, PromotionInOrder, OutcomeKinds DEF ResolveHead, AnswersHead
  <2> QED BY <1>3, <1>1, <2>1 DEF HandleMessage, ConsumeAbandonedReply, DispatchSubscriptionPush
<1>4. CASE \/ Connect \/ ConsoleHandle \/ LoseRequest \/ LoseReply
           \/ (\E p \in Paths : ConsolePush(p)) \/ UNCHANGED vars
  BY <1>4, <1>1 DEF Connect, ConsoleHandle, LoseRequest, LoseReply, ConsolePush, vars, client
<1> QED BY <1>2, <1>3, <1>4, IssueInOrder, DropInOrder, CloseInOrder, TickInOrder DEF Next

LEMMA InitInOrder == Init => OneInFlight
BY DEF Init, OneInFlight, Waiting

(* Exactly the head of the queue is on the wire, and the timers of the     *)
(* queue run for the requests they belong to and for no other.             *)
THEOREM OneRequestInFlight == Spec => []OneInFlight
BY InitInOrder, NextInOrder, TypeCorrect, PTL DEF Spec

(* A request that is settled is in no queue, so no later step settles it   *)
(* again.                                                                  *)
LEMMA SettledStays ==
    ASSUME TypeOK, OneInFlight, [Next]_vars, NEW r \in Requests, outcome[r] \in Settled
    PROVE  outcome'[r] = outcome[r]
<1>1. outcome \in [Requests -> Outcomes]
  BY DEF TypeOK
<1>2. outcome[r] \notin Waiting /\ outcome[r] # "none"
  BY OutcomeKinds
<1>3. \A i \in DOMAIN queue : queue[i] # r
  BY <1>2 DEF OneInFlight
<1>4. ASSUME queue # <<>>, NEW o, ActivateHead(Tail(queue), [outcome EXCEPT ![Head(queue)] = o])
      PROVE  outcome'[r] = outcome[r]
  <2>1. r # Head(queue)
    BY <1>2, <1>4, OutcomeKinds DEF OneInFlight
  <2>2. Tail(queue) # <<>> => r # Head(Tail(queue))
    <3>1. Tail(queue) # <<>> => Head(Tail(queue)) = queue[2] /\ 2 \in DOMAIN queue
      BY <1>4, QueueShape DEF TypeOK
    <3> QED BY <3>1, <1>3
  <2> QED BY <1>1, <1>4, <2>1, <2>2 DEF ActivateHead
<1>5. CASE Timeout
  BY <1>5, <1>4 DEF Timeout
<1>6. CASE HandleMessage
  <2>1. CASE ResolveHead(Head(toClient))
    BY <2>1, <1>4 DEF ResolveHead, AnswersHead
  <2> QED BY <1>6, <2>1 DEF HandleMessage, ConsumeAbandonedReply, DispatchSubscriptionPush
<1>7. ASSUME NEW s \in Requests, Issue(s) PROVE outcome'[r] = outcome[r]
  <2>1. s # r
    BY <1>2, <1>7 DEF Issue
  <2> QED BY <1>1, <1>7, <2>1 DEF Issue, ActivateHead
<1>8. ASSUME NEW s \in Requests, DropQueuedEntry(s) PROVE outcome'[r] = outcome[r]
  <2>1. s # r
    BY <1>3, <1>8 DEF DropQueuedEntry
  <2> QED BY <1>1, <1>8, <2>1 DEF DropQueuedEntry
<1>9. CASE Close
  BY <1>2, <1>9 DEF Close, Waiting
<1>10. CASE \/ Connect \/ ConsoleHandle \/ LoseRequest \/ LoseReply \/ Tick
            \/ (\E p \in Paths : ConsolePush(p)) \/ UNCHANGED vars
  BY <1>10 DEF Connect, ConsoleHandle, LoseRequest, LoseReply, Tick, ConsolePush, vars, client
<1> QED BY <1>5, <1>6, <1>7, <1>8, <1>9, <1>10 DEF Next

(* The promise of a call is settled at most once.                          *)
THEOREM SettlesOnce == Spec => SettledForGood
<1>1. TypeOK /\ OneInFlight /\ [Next]_vars
        => [\A r \in Requests : outcome[r] \in Settled => outcome'[r] = outcome[r]]_vars
  BY SettledStays
<1> QED BY <1>1, TypeCorrect, OneRequestInFlight, PTL DEF Spec, SettledForGood


-----------------------------------------------------------------------------
(* Every step takes some datagrams off the wire, may put a push or a newly *)
(* sent request on it, and keeps the order of the others.                  *)

At(c, s, i) == IF i <= Len(c) THEN c[i] ELSE s[i - Len(c)]
Places(c, s) == 1..(Len(c) + Len(s))

(* The wire c2, s2 keeps datagrams of c, s beyond the first k; the last of *)
(* its datagrams may be a new one of a request in new.                     *)
Embeds(c, s, c2, s2, new, k) ==
    \E f \in [Places(c2, s2) -> {0} \cup {i \in Places(c, s) : i > k}] :
        /\ \A i \in Places(c2, s2) :
            IF f[i] = 0
              THEN \/ At(c2, s2, i).of = Push
                   \/ /\ At(c2, s2, i).of \in new /\ At(c2, s2, i).age = 0
                      /\ i = Len(c2) + Len(s2)
              ELSE At(c2, s2, i).of = At(c, s, f[i]).of /\ At(c2, s2, i).age = At(c, s, f[i]).age
        /\ \A i, j \in Places(c2, s2) : i < j /\ f[i] # 0 /\ f[j] # 0 => f[i] < f[j]

LEMMA EmbedSame ==
    ASSUME NEW c \in Seq(Messages), NEW s \in Seq(Datagrams)
    PROVE  Embeds(c, s, c, s, {}, 0)
<1> DEFINE f == [i \in Places(c, s) |-> i]
<1>1. Len(c) \in Nat /\ Len(s) \in Nat
  BY LenProperties
<1>2. f \in [Places(c, s) -> {0} \cup {i \in Places(c, s) : i > 0}]
  BY <1>1 DEF Places
<1>3. \A i \in Places(c, s) : f[i] = i /\ i # 0
  BY <1>1 DEF Places
<1> HIDE DEF f
<1> QED BY <1>2, <1>3 DEF Embeds

LEMMA EmbedReceive ==
    ASSUME NEW c \in Seq(Messages), NEW s \in Seq(Datagrams), c # <<>>
    PROVE  Embeds(c, s, Tail(c), s, {}, 1)
<1> DEFINE c2 == Tail(c)
           f == [i \in Places(c2, s) |-> i + 1]
<1>1. /\ Len(c) \in Nat \ {0} /\ Len(s) \in Nat /\ Len(c2) = Len(c) - 1
      /\ \A i \in 1..(Len(c) - 1) : c2[i] = c[i + 1]
  BY LenProperties, QueueShape
<1> HIDE DEF c2
<1>2. f \in [Places(c2, s) -> {0} \cup {i \in Places(c, s) : i > 1}]
  BY <1>1 DEF Places
<1>3. \A i \in Places(c2, s) : f[i] = i + 1 /\ f[i] # 0
  BY <1>1 DEF Places
<1>4. ASSUME NEW i \in Places(c2, s) PROVE At(c2, s, i) = At(c, s, i + 1)
  <2>1. CASE i <= Len(c2)
    BY <2>1, <1>1 DEF At, Places
  <2>2. CASE ~(i <= Len(c2))
    <3>1. (i + 1) - Len(c) = i - Len(c2)
      BY <1>1 DEF Places
    <3> QED BY <2>2, <3>1, <1>1 DEF At, Places
  <2> QED BY <2>1, <2>2
<1>5. \A i, j \in Places(c2, s) : i < j => i + 1 < j + 1
  BY <1>1 DEF Places
<1> HIDE DEF f
<1>6. Embeds(c, s, c2, s, {}, 1)
  BY <1>2, <1>3, <1>4, <1>5 DEF Embeds
<1> QED BY <1>6 DEF c2

LEMMA EmbedReceiveAndSend ==
    ASSUME NEW c \in Seq(Messages), NEW s \in Seq(Datagrams), c # <<>>,
           NEW d \in Datagrams, d.age = 0
    PROVE  Embeds(c, s, Tail(c), Append(s, d), {d.of}, 1)
<1> DEFINE c2 == Tail(c)
           s2 == Append(s, d)
           n == Len(c) + Len(s)
           f == [i \in Places(c2, s2) |-> IF i = n THEN 0 ELSE i + 1]
<1>1. /\ Len(c) \in Nat \ {0} /\ Len(s) \in Nat /\ Len(c2) = Len(c) - 1
      /\ \A i \in 1..(Len(c) - 1) : c2[i] = c[i + 1]
  BY LenProperties, QueueShape
<1>2. Len(s2) = Len(s) + 1 /\ (\A i \in 1..Len(s) : s2[i] = s[i]) /\ s2[Len(s) + 1] = d
  BY AppendProperties
<1> HIDE DEF c2, s2
<1>3. f \in [Places(c2, s2) -> {0} \cup {i \in Places(c, s) : i > 1}]
  <2>1. Places(c2, s2) = 1..n /\ Places(c, s) = 1..n /\ n \in Nat
    BY <1>1, <1>2 DEF Places
  <2>2. \A i \in 1..n : i # n => i + 1 \in 1..n /\ i + 1 > 1
    BY <2>1
  <2> HIDE DEF n
  <2> QED BY <2>1, <2>2
<1>4. \A i \in Places(c2, s2) : (f[i] = 0 <=> i = n) /\ (i # n => f[i] = i + 1)
  BY <1>1, <1>2 DEF Places
<1>5. ASSUME NEW i \in Places(c2, s2), i # n PROVE At(c2, s2, i) = At(c, s, i + 1)
  <2>1. CASE i <= Len(c2)
    BY <2>1, <1>1 DEF At, Places
  <2>2. CASE ~(i <= Len(c2))
    <3>1. (i + 1) - Len(c) = i - Len(c2) /\ i - Len(c2) \in 1..Len(s)
      BY <2>2, <1>1, <1>2, <1>5 DEF Places
    <3> QED BY <2>2, <3>1, <1>1, <1>2 DEF At, Places
  <2> QED BY <2>1, <2>2
<1>6. At(c2, s2, n) = d /\ n = Len(c2) + Len(s2)
  <2>1. n - Len(c2) = Len(s) + 1 /\ ~(n <= Len(c2))
    BY <1>1, <1>2
  <2> QED BY <2>1, <1>1, <1>2 DEF At
<1>7. \A i, j \in Places(c2, s2) : i < j => i + 1 < j + 1
  BY <1>1, <1>2 DEF Places
<1> HIDE DEF f, n
<1>8. Embeds(c, s, c2, s2, {d.of}, 1)
  BY <1>3, <1>4, <1>5, <1>6, <1>7 DEF Embeds
<1> QED BY <1>8 DEF c2, s2

LEMMA EmbedSend ==
    ASSUME NEW c \in Seq(Messages), NEW s \in Seq(Datagrams),
           NEW d \in Datagrams, d.age = 0
    PROVE  Embeds(c, s, c, Append(s, d), {d.of}, 0)
<1> DEFINE s2 == Append(s, d)
           n == Len(c) + Len(s) + 1
           f == [i \in Places(c, s2) |-> IF i = n THEN 0 ELSE i]
<1>1. Len(c) \in Nat /\ Len(s) \in Nat
  BY LenProperties
<1>2. Len(s2) = Len(s) + 1 /\ (\A i \in 1..Len(s) : s2[i] = s[i]) /\ s2[Len(s) + 1] = d
  BY AppendProperties
<1> HIDE DEF s2
<1>3. f \in [Places(c, s2) -> {0} \cup {i \in Places(c, s) : i > 0}]
  BY <1>1, <1>2 DEF Places
<1>4. \A i \in Places(c, s2) : (f[i] = 0 <=> i = n) /\ (i # n => f[i] = i)
  BY <1>1, <1>2 DEF Places
<1>5. ASSUME NEW i \in Places(c, s2), i # n PROVE At(c, s2, i) = At(c, s, i)
  <2>1. CASE i <= Len(c)
    BY <2>1 DEF At
  <2>2. CASE ~(i <= Len(c))
    <3>1. i - Len(c) \in 1..Len(s)
      BY <2>2, <1>1, <1>2, <1>5 DEF Places
    <3> QED BY <2>2, <3>1, <1>2 DEF At
  <2> QED BY <2>1, <2>2
<1>6. At(c, s2, n) = d /\ n = Len(c) + Len(s2)
  <2>1. n - Len(c) = Len(s) + 1 /\ ~(n <= Len(c))
    BY <1>1
  <2> QED BY <2>1, <1>1, <1>2 DEF At
<1> HIDE DEF f, n
<1>7. Embeds(c, s, c, s2, {d.of}, 0)
  BY <1>3, <1>4, <1>5, <1>6 DEF Embeds
<1> QED BY <1>7 DEF s2

LEMMA EmbedLoseRequest ==
    ASSUME NEW c \in Seq(Messages), NEW s \in Seq(Datagrams), s # <<>>
    PROVE  Embeds(c, s, c, Tail(s), {}, 0)
<1> DEFINE s2 == Tail(s)
           g(i) == IF i <= Len(c) THEN i ELSE i + 1
           f == [i \in Places(c, s2) |-> g(i)]
<1>1. /\ Len(c) \in Nat /\ Len(s) \in Nat \ {0} /\ Len(s2) = Len(s) - 1
      /\ \A i \in 1..(Len(s) - 1) : s2[i] = s[i + 1]
  BY LenProperties, QueueShape
<1> HIDE DEF s2
<1>2. f \in [Places(c, s2) -> {0} \cup {i \in Places(c, s) : i > 0}]
  BY <1>1 DEF Places
<1>3. \A i \in Places(c, s2) : f[i] = g(i) /\ g(i) # 0
  BY <1>1 DEF Places
<1>4. ASSUME NEW i \in Places(c, s2) PROVE At(c, s2, i) = At(c, s, g(i))
  <2>1. CASE i <= Len(c)
    BY <2>1 DEF At
  <2>2. CASE ~(i <= Len(c))
    <3>1. i - Len(c) \in 1..(Len(s) - 1) /\ (i - Len(c)) + 1 = g(i) - Len(c) /\ ~(g(i) <= Len(c))
      BY <2>2, <1>1 DEF Places
    <3> QED BY <2>2, <3>1, <1>1 DEF At
  <2> QED BY <2>1, <2>2
<1>5. \A i, j \in Places(c, s2) : i < j => g(i) < g(j)
  BY <1>1 DEF Places
<1> HIDE DEF f, g
<1>6. Embeds(c, s, c, s2, {}, 0)
  BY <1>2, <1>3, <1>4, <1>5 DEF Embeds
<1> QED BY <1>6 DEF s2

LEMMA EmbedAnswer ==
    ASSUME NEW c \in Seq(Messages), NEW s \in Seq(Datagrams), s # <<>>,
           NEW m \in Messages, m.of = Head(s).of, m.age = Head(s).age
    PROVE  Embeds(c, s, Append(c, m), Tail(s), {}, 0)
<1> DEFINE s2 == Tail(s)
           c2 == Append(c, m)
           f == [i \in Places(c2, s2) |-> i]
<1>1. /\ Len(c) \in Nat /\ Len(s) \in Nat \ {0} /\ Len(s2) = Len(s) - 1 /\ Head(s) = s[1]
      /\ \A i \in 1..(Len(s) - 1) : s2[i] = s[i + 1]
  BY LenProperties, QueueShape
<1>2. Len(c2) = Len(c) + 1 /\ (\A i \in 1..Len(c) : c2[i] = c[i]) /\ c2[Len(c) + 1] = m
  BY AppendProperties
<1> HIDE DEF s2, c2
<1>3. f \in [Places(c2, s2) -> {0} \cup {i \in Places(c, s) : i > 0}]
  BY <1>1, <1>2 DEF Places
<1>4. \A i \in Places(c2, s2) : f[i] = i /\ i # 0
  BY <1>1, <1>2 DEF Places
<1>5. ASSUME NEW i \in Places(c2, s2)
      PROVE At(c2, s2, i).of = At(c, s, i).of /\ At(c2, s2, i).age = At(c, s, i).age
  <2>1. CASE i \in 1..Len(c)
    BY <2>1, <1>1, <1>2 DEF At, Places
  <2>2. CASE i = Len(c) + 1
    <3>1. ~(i <= Len(c)) /\ i - Len(c) = 1 /\ i <= Len(c2)
      BY <2>2, <1>1, <1>2
    <3> QED BY <2>2, <3>1, <1>1, <1>2 DEF At
  <2>3. CASE i > Len(c) + 1
    <3>1. ~(i <= Len(c)) /\ ~(i <= Len(c2)) /\ i - Len(c2) \in 1..(Len(s) - 1)
          /\ (i - Len(c2)) + 1 = i - Len(c)
      BY <2>3, <1>1, <1>2 DEF Places
    <3> QED BY <3>1, <1>1 DEF At
  <2> QED BY <2>1, <2>2, <2>3, <1>1, <1>2 DEF Places
<1> HIDE DEF f
<1>6. Embeds(c, s, c2, s2, {}, 0)
  BY <1>3, <1>4, <1>5 DEF Embeds
<1> QED BY <1>6 DEF c2, s2

LEMMA EmbedPush ==
    ASSUME NEW c \in Seq(Messages), NEW s \in Seq(Datagrams),
           NEW m \in Messages, m.of = Push
    PROVE  Embeds(c, s, Append(c, m), s, {}, 0)
<1> DEFINE c2 == Append(c, m)
           n == Len(c) + 1
           g(i) == IF i < n THEN i ELSE IF i = n THEN 0 ELSE i - 1
           f == [i \in Places(c2, s) |-> g(i)]
<1>1. Len(c) \in Nat /\ Len(s) \in Nat
  BY LenProperties
<1>2. Len(c2) = n /\ (\A i \in 1..Len(c) : c2[i] = c[i]) /\ c2[n] = m
  BY AppendProperties
<1> HIDE DEF c2
<1>3. f \in [Places(c2, s) -> {0} \cup {i \in Places(c, s) : i > 0}]
  BY <1>1, <1>2 DEF Places
<1>4. \A i \in Places(c2, s) : f[i] = g(i) /\ (g(i) = 0 <=> i = n)
  BY <1>1, <1>2 DEF Places
<1>5. ASSUME NEW i \in Places(c2, s), i # n PROVE At(c2, s, i) = At(c, s, g(i))
  <2>1. CASE i < n
    <3>1. i \in 1..Len(c) /\ i <= Len(c2) /\ g(i) = i
      BY <2>1, <1>1, <1>2 DEF Places
    <3> QED BY <3>1, <1>1, <1>2 DEF At
  <2>2. CASE i > n
    <3>1. ~(i <= Len(c2)) /\ g(i) = i - 1 /\ ~(g(i) <= Len(c)) /\ g(i) - Len(c) = i - Len(c2)
      BY <2>2, <1>1, <1>2 DEF Places
    <3> QED BY <3>1 DEF At
  <2> QED BY <2>1, <2>2, <1>5, <1>1 DEF Places
<1>6. At(c2, s, n) = m
  BY <1>1, <1>2 DEF At
<1>7. \A i, j \in Places(c2, s) : i < j /\ i # n /\ j # n => g(i) < g(j)
  BY <1>1, <1>2 DEF Places
<1> HIDE DEF f, g, n
<1>8. Embeds(c, s, c2, s, {}, 0)
  BY <1>3, <1>4, <1>5, <1>6, <1>7 DEF Embeds
<1> QED BY <1>8 DEF c2

LEMMA EmbedClose ==
    ASSUME NEW c \in Seq(Messages), NEW s \in Seq(Datagrams)
    PROVE  Embeds(c, s, <<>>, s, {}, 0)
<1> DEFINE c2 == <<>>
           f == [i \in Places(c2, s) |-> i + Len(c)]
<1>1. Len(c) \in Nat /\ Len(s) \in Nat /\ Len(c2) = 0
  BY LenProperties
<1> HIDE DEF c2
<1>2. f \in [Places(c2, s) -> {0} \cup {i \in Places(c, s) : i > 0}]
  BY <1>1 DEF Places
<1>3. \A i \in Places(c2, s) : f[i] = i + Len(c) /\ f[i] # 0
  BY <1>1 DEF Places
<1>4. ASSUME NEW i \in Places(c2, s) PROVE At(c2, s, i) = At(c, s, i + Len(c))
  <2>1. ~(i <= Len(c2)) /\ ~(i + Len(c) <= Len(c)) /\ (i + Len(c)) - Len(c) = i - Len(c2)
    BY <1>1 DEF Places
  <2> QED BY <2>1 DEF At
<1>5. \A i, j \in Places(c2, s) : i < j => i + Len(c) < j + Len(c)
  BY <1>1 DEF Places
<1> HIDE DEF f
<1>6. Embeds(c, s, c2, s, {}, 0)
  BY <1>2, <1>3, <1>4, <1>5 DEF Embeds
<1> QED BY <1>6 DEF c2

-----------------------------------------------------------------------------
(* What each part of the invariant needs of a step that embeds the wire.   *)

(* Timed out after the step. *)
LeftTimedOut(r) == r \in Writes /\ outcome'[r] = "timeout"

WireEmbeds(new, k) == Embeds(toClient, toConsole, toClient', toConsole', new, k)

LEMMA WireIsPlaces ==
    /\ Wire = Places(toClient, toConsole)
    /\ \A i \in Wire : On(i) = At(toClient, toConsole, i)
BY DEF Wire, Places, On, At

LEMMA WireIsPlacesPrime ==
    /\ Wire' = Places(toClient', toConsole')
    /\ \A i \in Wire' : On(i)' = At(toClient', toConsole', i)
BY DEF Wire, Places, On, At

LEMMA WireTypes ==
    ASSUME TypeOK
    PROVE  /\ Len(toClient) \in Nat /\ Len(toConsole) \in Nat /\ Wire \subseteq Nat \ {0}
           /\ \A i \in Wire : On(i).of \in Requests \cup {Push} /\ On(i).age \in 0..MaxDelay
<1>1. /\ Len(toClient) \in Nat /\ Len(toConsole) \in Nat
      /\ \A i \in 1..Len(toClient) : toClient[i] \in Messages
      /\ \A i \in 1..Len(toConsole) : toConsole[i] \in Datagrams
  BY LenProperties, ElementOfSeq DEF TypeOK
<1>2. ASSUME NEW i \in Wire
      PROVE  On(i).of \in Requests \cup {Push} /\ On(i).age \in 0..MaxDelay
  <2>1. CASE i <= Len(toClient)
    <3>1. On(i) \in Messages
      BY <2>1, <1>1 DEF On, Wire
    <3> QED BY <3>1 DEF Messages
  <2>2. CASE ~(i <= Len(toClient))
    <3>1. On(i) \in Datagrams
      <4>1. i - Len(toClient) \in 1..Len(toConsole)
        BY <2>2, <1>1 DEF Wire
      <4> QED BY <2>2, <4>1, <1>1 DEF On
    <3> QED BY <3>1 DEF Datagrams
  <2> QED BY <2>1, <2>2
<1> QED BY <1>1, <1>2 DEF Wire

(* The embedding in terms of Wire and On. *)
LEMMA UseEmbeds ==
    ASSUME TypeOK, TypeOK', NEW new, NEW k, WireEmbeds(new, k)
    PROVE  \E f \in [Wire' -> {0} \cup {i \in Wire : i > k}] :
            /\ \A i \in Wire' :
                IF f[i] = 0
                  THEN \/ On(i)'.of = Push
                       \/ On(i)'.of \in new /\ On(i)'.age = 0 /\ \A j \in Wire' : ~(j > i)
                  ELSE On(i)'.of = On(f[i]).of /\ On(i)'.age = On(f[i]).age
            /\ \A i, j \in Wire' : i < j /\ f[i] # 0 /\ f[j] # 0 => f[i] < f[j]
<1>1. PICK f \in [Places(toClient', toConsole') -> {0} \cup {i \in Places(toClient, toConsole) : i > k}] :
        /\ \A i \in Places(toClient', toConsole') :
            IF f[i] = 0
              THEN \/ At(toClient', toConsole', i).of = Push
                   \/ /\ At(toClient', toConsole', i).of \in new /\ At(toClient', toConsole', i).age = 0
                      /\ i = Len(toClient') + Len(toConsole')
              ELSE /\ At(toClient', toConsole', i).of = At(toClient, toConsole, f[i]).of
                   /\ At(toClient', toConsole', i).age = At(toClient, toConsole, f[i]).age
        /\ \A i, j \in Places(toClient', toConsole') : i < j /\ f[i] # 0 /\ f[j] # 0 => f[i] < f[j]
  BY DEF WireEmbeds, Embeds
<1>2. \A j \in Wire' : ~(j > Len(toClient') + Len(toConsole'))
  <2>1. Len(toClient') \in Nat /\ Len(toConsole') \in Nat
    BY LenProperties DEF TypeOK
  <2> QED BY <2>1 DEF Wire
<1>3. f \in [Wire' -> {0} \cup {i \in Wire : i > k}]
  BY <1>1, WireIsPlaces, WireIsPlacesPrime
<1>4. ASSUME NEW i \in Wire'
      PROVE  IF f[i] = 0
               THEN \/ On(i)'.of = Push
                    \/ On(i)'.of \in new /\ On(i)'.age = 0 /\ \A j \in Wire' : ~(j > i)
               ELSE On(i)'.of = On(f[i]).of /\ On(i)'.age = On(f[i]).age
  <2>1. On(i)' = At(toClient', toConsole', i) /\ i \in Places(toClient', toConsole')
    BY WireIsPlacesPrime
  <2>2. CASE f[i] = 0
    BY <2>1, <2>2, <1>1, <1>2
  <2>3. CASE f[i] # 0
    <3>1. On(f[i]) = At(toClient, toConsole, f[i])
      BY <2>3, <1>3, WireIsPlaces
    <3> QED BY <2>1, <2>3, <3>1, <1>1
  <2> QED BY <2>2, <2>3
<1>5. \A i, j \in Wire' : i < j /\ f[i] # 0 /\ f[j] # 0 => f[i] < f[j]
  BY <1>1, WireIsPlacesPrime
<1> QED BY <1>3, <1>4, <1>5

LEMMA KeepWireOK ==
    ASSUME TypeOK, TypeOK', NEW new, NEW k, WireEmbeds(new, k),
           \A r \in new : r \in Requests /\ outcome'[r] = "sent",
           \A i \in Wire : i > k /\ On(i).of # Push =>
                /\ outcome'[On(i).of] \in OnWire
                /\ On(i).of \in Writes => outcome'[On(i).of] # "ok"
    PROVE  WireOK'
<1>1. SUFFICES ASSUME NEW i \in Wire', On(i)'.of # Push
               PROVE  /\ On(i)'.of \in Requests
                      /\ outcome'[On(i)'.of] \in OnWire
                      /\ On(i)'.of \in Writes => outcome'[On(i)'.of] # "ok"
  BY DEF WireOK
<1>2. PICK f \in [Wire' -> {0} \cup {j \in Wire : j > k}] :
        \A j \in Wire' :
            IF f[j] = 0
              THEN \/ On(j)'.of = Push
                   \/ On(j)'.of \in new /\ On(j)'.age = 0
              ELSE On(j)'.of = On(f[j]).of
  BY UseEmbeds
<1>3. CASE f[i] = 0
  BY <1>1, <1>2, <1>3 DEF OnWire
<1>4. CASE f[i] # 0
  <2>1. f[i] \in Wire /\ f[i] > k /\ On(f[i]).of = On(i)'.of
    BY <1>2, <1>4
  <2> QED BY <1>1, <2>1, WireTypes
<1> QED BY <1>3, <1>4

LEMMA KeepHeadIsLast ==
    ASSUME TypeOK, TypeOK', NEW k, WireEmbeds({}, k), HeadIsLast,
           queue' # <<>> => queue # <<>> /\ Head(queue') = Head(queue) /\ headTimer' = headTimer
    PROVE  HeadIsLast'
<1>1. SUFFICES ASSUME queue' # <<>>, NEW i \in Wire', On(i)'.of = Head(queue')
               PROVE  /\ On(i)'.age + headTimer' >= RequestTimeout
                      /\ \A j \in Wire' : j > i => On(j)'.of = Push
  BY DEF HeadIsLast
<1>2. PICK f \in [Wire' -> {0} \cup {j \in Wire : j > k}] :
        /\ \A j \in Wire' :
            IF f[j] = 0 THEN On(j)'.of = Push
                        ELSE On(j)'.of = On(f[j]).of /\ On(j)'.age = On(f[j]).age
        /\ \A j, l \in Wire' : j < l /\ f[j] # 0 /\ f[l] # 0 => f[j] < f[l]
  BY UseEmbeds
<1>3. Head(queue') \in Requests
  BY <1>1, QueueShape, TailType DEF TypeOK
<1>4. f[i] # 0 /\ f[i] \in Wire /\ On(f[i]).of = Head(queue) /\ On(f[i]).age = On(i)'.age
  BY <1>1, <1>2, <1>3, RequestsAssumption DEF Push
<1>5. /\ On(f[i]).age + headTimer >= RequestTimeout
      /\ \A j \in Wire : j > f[i] => On(j).of = Push
  BY <1>1, <1>4 DEF HeadIsLast
<1>6. ASSUME NEW j \in Wire', j > i PROVE On(j)'.of = Push
  <2>1. CASE f[j] = 0
    BY <2>1, <1>2
  <2>2. CASE f[j] # 0
    <3>1. i < j
      <4>1. Wire' \subseteq Nat
        BY LenProperties DEF Wire, TypeOK
      <4> QED BY <4>1, <1>6
    <3>2. f[i] < f[j] /\ f[j] \in Wire
      BY <2>2, <3>1, <1>2, <1>4
    <3>3. f[j] > f[i]
      BY <3>2, <1>4, WireTypes
    <3> QED BY <2>2, <3>2, <3>3, <1>2, <1>5
  <2> QED BY <2>1, <2>2
<1> QED BY <1>1, <1>4, <1>5, <1>6

LEMMA NewHeadIsLast ==
    ASSUME TypeOK, TypeOK', NEW k,
           queue' # <<>> => /\ WireEmbeds({Head(queue')}, k) /\ headTimer' = RequestTimeout
                            /\ \A i \in Wire : On(i).of # Head(queue')
    PROVE  HeadIsLast'
<1>1. SUFFICES ASSUME queue' # <<>>, NEW i \in Wire', On(i)'.of = Head(queue')
               PROVE  /\ On(i)'.age + headTimer' >= RequestTimeout
                      /\ \A j \in Wire' : j > i => On(j)'.of = Push
  BY DEF HeadIsLast
<1>2. PICK f \in [Wire' -> {0} \cup {j \in Wire : j > k}] :
        \A j \in Wire' :
            IF f[j] = 0
              THEN \/ On(j)'.of = Push
                   \/ On(j)'.of \in {Head(queue')} /\ On(j)'.age = 0 /\ \A l \in Wire' : ~(l > j)
              ELSE On(j)'.of = On(f[j]).of
  BY <1>1, UseEmbeds
<1>3. Head(queue') \in Requests
  BY <1>1, QueueShape, TailType DEF TypeOK
<1>4. f[i] = 0
  BY <1>1, <1>2
<1>5. On(i)'.age = 0 /\ \A l \in Wire' : ~(l > i)
  BY <1>1, <1>2, <1>3, <1>4, RequestsAssumption DEF Push
<1> QED BY <1>1, <1>5, LimitsAssumption

LEMMA KeepGraceCoversDelay ==
    ASSUME TypeOK, TypeOK', NEW new, NEW k, WireEmbeds(new, k),
           \A r \in new : outcome'[r] = "sent",
           socket' # "closed" =>
                \A i \in Wire : i > k /\ LeftTimedOut(On(i).of) =>
                    grace'[On(i).of] + On(i).age >= 3 * RequestTimeout
    PROVE  GraceCoversDelay'
<1>1. SUFFICES ASSUME socket' # "closed", NEW i \in Wire', On(i)'.of \in Writes, outcome'[On(i)'.of] = "timeout"
               PROVE  grace'[On(i)'.of] + On(i)'.age >= 3 * RequestTimeout
  BY DEF GraceCoversDelay, TimedOut
<1>2. PICK f \in [Wire' -> {0} \cup {j \in Wire : j > k}] :
        \A j \in Wire' :
            IF f[j] = 0
              THEN On(j)'.of = Push \/ On(j)'.of \in new
              ELSE On(j)'.of = On(f[j]).of /\ On(j)'.age = On(f[j]).age
  BY UseEmbeds
<1>3. f[i] # 0
  BY <1>1, <1>2, RequestsAssumption DEF Push, Writes
<1>4. f[i] \in Wire /\ f[i] > k /\ On(f[i]).of = On(i)'.of /\ On(f[i]).age = On(i)'.age
  BY <1>2, <1>3
<1> QED BY <1>1, <1>4 DEF LeftTimedOut

LEMMA KeepLateInOrder ==
    ASSUME TypeOK, TypeOK', NEW new, NEW k, WireEmbeds(new, k),
           \A r \in new : outcome'[r] = "sent",
           socket' # "closed" =>
                \A i, j \in Wire : k < i /\ i < j /\ LeftTimedOut(On(i).of) /\ LeftTimedOut(On(j).of) =>
                    grace'[On(i).of] < grace'[On(j).of]
    PROVE  LateInOrder'
<1>1. SUFFICES ASSUME socket' # "closed", NEW i \in Wire', NEW j \in Wire', i < j,
                      On(i)'.of \in Writes, outcome'[On(i)'.of] = "timeout",
                      On(j)'.of \in Writes, outcome'[On(j)'.of] = "timeout"
               PROVE  grace'[On(i)'.of] < grace'[On(j)'.of]
  BY DEF LateInOrder, TimedOut
<1>2. PICK f \in [Wire' -> {0} \cup {l \in Wire : l > k}] :
        /\ \A l \in Wire' :
            IF f[l] = 0
              THEN On(l)'.of = Push \/ On(l)'.of \in new
              ELSE On(l)'.of = On(f[l]).of
        /\ \A l, m \in Wire' : l < m /\ f[l] # 0 /\ f[m] # 0 => f[l] < f[m]
  BY UseEmbeds
<1>3. f[i] # 0 /\ f[j] # 0
  BY <1>1, <1>2, RequestsAssumption DEF Push, Writes
<1>4. /\ f[i] \in Wire /\ f[j] \in Wire /\ f[i] > k /\ f[i] < f[j]
      /\ On(f[i]).of = On(i)'.of /\ On(f[j]).of = On(j)'.of
  BY <1>1, <1>2, <1>3
<1> QED BY <1>1, <1>4 DEF LeftTimedOut

-----------------------------------------------------------------------------
(* The abandoned entries. *)

LEMMA LiveTypes ==
    ASSUME TypeOK
    PROVE  /\ grace \in [Writes -> 0..(2 * RequestTimeout)] /\ RequestTimeout \in Nat \ {0}
           /\ \A w \in Live : w \in Writes /\ grace[w] \in 1..(2 * RequestTimeout)
           /\ Live \subseteq Requests /\ IsFiniteSet(Live)
<1>1. grace \in [Writes -> 0..(2 * RequestTimeout)] /\ RequestTimeout \in Nat \ {0}
  BY LimitsAssumption DEF TypeOK, Grace
<1>2. \A w \in Live : w \in Writes /\ grace[w] \in 1..(2 * RequestTimeout)
  BY <1>1 DEF Live
<1>3. Live \subseteq Requests
  BY DEF Live, Writes
<1>4. IsFiniteSet(Live)
  BY <1>3, RequestsAssumption, FS_Subset
<1> QED BY <1>1, <1>2, <1>3, <1>4

(* The oldest live entry exists: entries a timeout apart are at most two.  *)
LEMMA OldestIsLeast ==
    ASSUME TypeOK, GraceApart, Live # {}
    PROVE  Oldest(Live) \in Live /\ \A v \in Live : grace[Oldest(Live)] <= grace[v]
<1>1. \E w \in Live : \A v \in Live : grace[w] <= grace[v]
  <2>1. PICK w \in Live : TRUE
    OBVIOUS
  <2>2. CASE \A v \in Live : grace[w] <= grace[v]
    BY <2>2
  <2>3. CASE \E v \in Live : ~(grace[w] <= grace[v])
    <3>1. PICK v \in Live : ~(grace[w] <= grace[v])
      BY <2>3
    <3>2. grace[v] <= RequestTimeout
      <4>1. grace[w] >= grace[v] + RequestTimeout
        BY <3>1, LiveTypes DEF GraceApart
      <4> QED BY <4>1, LiveTypes
    <3>3. ASSUME NEW u \in Live PROVE grace[v] <= grace[u]
      <4>1. CASE u = v
        BY <4>1, LiveTypes
      <4>2. CASE u # v
        <5>1. grace[v] >= grace[u] + RequestTimeout \/ grace[u] >= grace[v] + RequestTimeout
          BY <4>2 DEF GraceApart
        <5> QED BY <5>1, <3>2, LiveTypes
      <4> QED BY <4>1, <4>2
    <3> QED BY <3>3
  <2> QED BY <2>2, <2>3
<1> QED BY <1>1 DEF Oldest

(* When the head is due, at most one entry is live: none has to make room. *)
LEMMA RoomForOneMore ==
    ASSUME TypeOK, GraceApart, LinkAssumption, queue # <<>>, headTimer = 0
    PROVE  /\ \A w \in Live : grace[w] <= RequestTimeout
           /\ ~(Cardinality(Live) >= MaxQueueLength)
<1>1. \A w \in Live : grace[w] <= RequestTimeout
  BY LiveTypes DEF GraceApart
<1>2. \A v, w \in Live : v = w
  <2> SUFFICES ASSUME NEW v \in Live, NEW w \in Live, v # w PROVE FALSE
    OBVIOUS
  <2>1. grace[v] >= grace[w] + RequestTimeout \/ grace[w] >= grace[v] + RequestTimeout
    BY DEF GraceApart
  <2> QED BY <2>1, <1>1, LiveTypes
<1>3. Cardinality(Live) \in {0, 1}
  <2>1. CASE Live = {}
    BY <2>1, FS_EmptySet
  <2>2. CASE Live # {}
    <3>1. PICK w \in Live : Live = {w}
      BY <2>2, <1>2
    <3> QED BY <3>1, FS_Singleton
  <2> QED BY <2>1, <2>2
<1>4. MaxQueueLength \in Nat /\ MaxQueueLength >= 2
  BY LimitsAssumption DEF LinkAssumption
<1> QED BY <1>1, <1>3, <1>4

(* A timed-out write on the wire has a live entry. *)
LEMMA LateIsLive ==
    ASSUME TypeOK, LinkAssumption, GraceCoversDelay, socket # "closed",
           NEW i \in Wire, TimedOut(On(i).of)
    PROVE  On(i).of \in Live
<1>1. grace[On(i).of] + On(i).age >= 3 * RequestTimeout
  BY DEF GraceCoversDelay
<1>2. On(i).age \in 0..MaxDelay /\ On(i).of \in Writes
  BY WireTypes DEF TimedOut
<1> QED BY <1>1, <1>2, LiveTypes, LimitsAssumption DEF LinkAssumption, Live

-----------------------------------------------------------------------------
(* The steps, for the part of the invariant about the wire.                *)

WireInv ==
    /\ WireOK /\ AddressesOK /\ SocketOK /\ HeadIsLast
    /\ GraceCoversDelay /\ LateInOrder /\ GraceApart

USE DEF WireInv

LEMMA AddressesTail ==
    ASSUME TypeOK, AddressesOK, toClient # <<>>, toClient' = Tail(toClient)
    PROVE  AddressesOK'
<1>1. /\ DOMAIN toClient = 1..Len(toClient) /\ Len(toClient) \in Nat
      /\ DOMAIN toClient' = 1..(Len(toClient) - 1)
      /\ \A i \in 1..(Len(toClient) - 1) : toClient'[i] = toClient[i + 1]
  BY QueueShape DEF TypeOK
<1>2. \A i \in 1..(Len(toClient) - 1) : i + 1 \in 1..Len(toClient)
  BY <1>1
<1> QED BY <1>1, <1>2 DEF AddressesOK

LEMMA AddressesAppend ==
    ASSUME TypeOK, AddressesOK, NEW m \in Messages, toClient' = Append(toClient, m),
           IF m.of = Push THEN m.addr \in Paths ELSE m.addr = ReplyAddress(m.of)
    PROVE  AddressesOK'
<1>1. /\ DOMAIN toClient = 1..Len(toClient) /\ Len(toClient) \in Nat
      /\ Append(toClient, m) \in Seq(Messages) /\ Len(Append(toClient, m)) = Len(toClient) + 1
      /\ \A i \in 1..Len(toClient) : Append(toClient, m)[i] = toClient[i]
      /\ Append(toClient, m)[Len(toClient) + 1] = m
  BY AppendProperties, LenProperties DEF TypeOK
<1>2. DOMAIN toClient' = 1..(Len(toClient) + 1)
  BY <1>1, LenProperties
<1>3. ASSUME NEW i \in 1..(Len(toClient) + 1)
      PROVE IF toClient'[i].of = Push THEN toClient'[i].addr \in Paths
                                      ELSE toClient'[i].addr = ReplyAddress(toClient'[i].of)
  <2>1. CASE i = Len(toClient) + 1
    BY <2>1, <1>1
  <2>2. CASE i \in 1..Len(toClient)
    BY <2>2, <1>1 DEF AddressesOK
  <2> QED BY <2>1, <2>2, <1>1
<1> QED BY <1>2, <1>3 DEF AddressesOK

(* Steps of the network, and messages that reach neither list nor queue.   *)
LEMMA QuietKeeps ==
    ASSUME TypeOK, TypeOK', WireInv, NEW k, WireEmbeds({}, k), AddressesOK',
           UNCHANGED <<socket, queue, headTimer, grace, outcome>>,
           socket = "closed" => toClient' = <<>>
    PROVE  WireInv'
<1>1. WireOK'
  BY KeepWireOK DEF WireOK
<1>2. HeadIsLast'
  BY KeepHeadIsLast
<1>3. GraceCoversDelay'
  <2>1. socket' # "closed" => \A i \in Wire : i > k /\ LeftTimedOut(On(i).of) =>
                    grace'[On(i).of] + On(i).age >= 3 * RequestTimeout
    BY DEF GraceCoversDelay, TimedOut, LeftTimedOut
  <2> QED BY <2>1, KeepGraceCoversDelay
<1>4. LateInOrder'
  <2>1. socket' # "closed" => \A i, j \in Wire :
            k < i /\ i < j /\ LeftTimedOut(On(i).of) /\ LeftTimedOut(On(j).of) =>
                    grace'[On(i).of] < grace'[On(j).of]
    BY DEF LateInOrder, TimedOut, LeftTimedOut
  <2> QED BY <2>1, KeepLateInOrder
<1>5. SocketOK' /\ GraceApart'
  BY DEF SocketOK, GraceApart, Live
<1> QED BY <1>1, <1>2, <1>3, <1>4, <1>5

(* Steps on a request that is not on the wire.                             *)
LEMMA OffWireKeeps ==
    ASSUME TypeOK, TypeOK', WireInv,
           NEW r \in Requests, outcome[r] \in {"none", "waiting"},
           NEW o \in {"overflow", "unavailable", "waiting", "expired"},
           outcome' = [outcome EXCEPT ![r] = o],
           UNCHANGED <<socket, headTimer, grace, toClient, toConsole>>,
           queue' # <<>> => queue # <<>> /\ Head(queue') = Head(queue)
    PROVE  WireInv'
<1>1. WireEmbeds({}, 0)
  BY EmbedSame DEF WireEmbeds, TypeOK
<1>2. \A s \in Requests : outcome'[s] = IF s = r THEN o ELSE outcome[s]
  BY DEF TypeOK
<1>3. \A i \in Wire : On(i).of # Push => /\ On(i).of \in Requests
                                        /\ outcome'[On(i).of] = outcome[On(i).of]
  BY <1>2 DEF WireOK, OnWire
<1>4. \A i \in Wire : LeftTimedOut(On(i).of) => TimedOut(On(i).of)
  BY <1>2 DEF LeftTimedOut, TimedOut, Writes
<1>5. WireOK'
  BY <1>1, <1>3, KeepWireOK DEF WireOK
<1>6. HeadIsLast'
  BY <1>1, KeepHeadIsLast
<1>7. GraceCoversDelay'
  <2>1. socket' # "closed" => \A i \in Wire : i > 0 /\ LeftTimedOut(On(i).of) =>
                    grace'[On(i).of] + On(i).age >= 3 * RequestTimeout
    BY <1>4 DEF GraceCoversDelay
  <2> QED BY <1>1, <2>1, KeepGraceCoversDelay
<1>8. LateInOrder'
  <2>1. socket' # "closed" => \A i, j \in Wire :
            0 < i /\ i < j /\ LeftTimedOut(On(i).of) /\ LeftTimedOut(On(j).of) =>
                    grace'[On(i).of] < grace'[On(j).of]
    BY <1>4 DEF LateInOrder
  <2> QED BY <1>1, <2>1, KeepLateInOrder
<1>9. SocketOK'
  BY <1>2 DEF SocketOK
<1>10. GraceApart'
  <2>1. \A w \in Live : outcome'[w] = "timeout"
    BY <1>2, LiveTypes DEF GraceApart
  <2> QED BY <2>1 DEF GraceApart, Live
<1>11. AddressesOK'
  BY DEF AddressesOK
<1> QED BY <1>5, <1>6, <1>7, <1>8, <1>9, <1>10, <1>11

LEMMA IssueKeeps ==
    ASSUME TypeOK, TypeOK', OneInFlight, WireInv, NEW r \in Requests, Issue(r)
    PROVE  WireInv'
<1>1. /\ outcome[r] = "none" /\ outcome \in [Requests -> Outcomes]
      /\ UNCHANGED <<socket, grace, answer, toClient>>
  BY DEF Issue, TypeOK
<1>2. CASE \E o \in {"overflow", "unavailable"} : outcome' = [outcome EXCEPT ![r] = o]
           /\ UNCHANGED <<queue, headTimer, queueTimer, toConsole>>
  BY <1>1, <1>2, OffWireKeeps
<1>3. CASE queue = <<>> /\ socket = "open" /\ ActivateHead(<<r>>, outcome)
  <2> DEFINE d == [of |-> r, age |-> 0]
  <2>1. /\ queue' = <<r>> /\ queue' # <<>> /\ Head(queue') = r
        /\ headTimer' = RequestTimeout
        /\ outcome' = [outcome EXCEPT ![r] = "sent"]
        /\ toConsole' = Append(toConsole, d)
    BY <1>3 DEF ActivateHead
  <2>2. d \in Datagrams /\ d.age = 0 /\ d.of = r
    BY LimitsAssumption DEF Datagrams
  <2> HIDE DEF d
  <2>3. WireEmbeds({r}, 0)
    BY <1>1, <2>1, <2>2, EmbedSend DEF WireEmbeds, TypeOK
  <2>4. \A s \in Requests : outcome'[s] = IF s = r THEN "sent" ELSE outcome[s]
    BY <1>1, <2>1
  <2>5. \A i \in Wire : On(i).of # Push => On(i).of \in Requests /\ On(i).of # r
    BY <1>1 DEF WireOK, OnWire
  <2>6. \A i \in Wire : LeftTimedOut(On(i).of) => TimedOut(On(i).of)
    BY <2>4 DEF LeftTimedOut, TimedOut, Writes
  <2>7. WireOK'
    BY <2>3, <2>4, <2>5, KeepWireOK DEF WireOK
  <2>8. HeadIsLast'
    <3>1. \A i \in Wire : On(i).of # r
      BY <2>5, RequestsAssumption DEF Push
    <3> QED BY <2>1, <2>3, <3>1, NewHeadIsLast
  <2>9. GraceCoversDelay'
    <3>1. socket' # "closed" => \A i \in Wire : i > 0 /\ LeftTimedOut(On(i).of) =>
                    grace'[On(i).of] + On(i).age >= 3 * RequestTimeout
      BY <1>1, <2>6 DEF GraceCoversDelay
    <3> QED BY <2>3, <2>4, <3>1, KeepGraceCoversDelay
  <2>10. LateInOrder'
    <3>1. socket' # "closed" => \A i, j \in Wire :
            0 < i /\ i < j /\ LeftTimedOut(On(i).of) /\ LeftTimedOut(On(j).of) =>
                    grace'[On(i).of] < grace'[On(j).of]
      BY <1>1, <2>6 DEF LateInOrder
    <3> QED BY <2>3, <2>4, <3>1, KeepLateInOrder
  <2>11. SocketOK'
    BY <1>1, <1>3, <2>4 DEF SocketOK
  <2>12. GraceApart'
    <3>1. \A w \in Live : outcome'[w] = "timeout" /\ grace[w] <= RequestTimeout + headTimer'
      BY <1>1, <2>1, <2>4, LiveTypes DEF GraceApart
    <3> QED BY <1>1, <3>1 DEF GraceApart, Live
  <2>13. AddressesOK'
    BY <1>1 DEF AddressesOK
  <2> QED BY <2>7, <2>8, <2>9, <2>10, <2>11, <2>12, <2>13
<1>4. CASE /\ queue # <<>> /\ queue' = Append(queue, r)
           /\ outcome' = [outcome EXCEPT ![r] = "waiting"]
           /\ UNCHANGED <<headTimer, toConsole>>
  <2>1. Head(queue') = Head(queue)
    BY <1>4, HeadTailAppend DEF TypeOK
  <2> QED BY <1>1, <1>4, <2>1, OffWireKeeps
<1> QED BY <1>2, <1>3, <1>4 DEF Issue

LEMMA DropKeeps ==
    ASSUME TypeOK, TypeOK', OneInFlight, WireInv, NEW r \in Requests, DropQueuedEntry(r)
    PROVE  WireInv'
<1>1. outcome[r] = "waiting" /\ outcome' = [outcome EXCEPT ![r] = "expired"]
      /\ UNCHANGED <<socket, headTimer, grace, toClient, toConsole>>
  BY DEF DropQueuedEntry, OneInFlight, Off, network
<1>2. PICK k \in DOMAIN queue : queue[k] = r /\ queue' = RemoveAt(queue, k)
  BY DEF DropQueuedEntry
<1>3. /\ DOMAIN queue = 1..Len(queue) /\ Len(queue) \in Nat /\ queue # <<>> /\ Head(queue) = queue[1]
      /\ r # queue[1] /\ k # 1
  BY <1>1, <1>2, LenProperties, QueueShape DEF OneInFlight, TypeOK
<1>4. /\ queue' \in Seq(Requests)
      /\ \A j \in 1..(Len(queue) - 1) : queue'[j] = IF j < k THEN queue[j] ELSE queue[j + 1]
  <2>1. k \in 1..Len(queue) /\ queue \in Seq(Requests)
    BY <1>2, <1>3 DEF TypeOK
  <2> QED BY <2>1, <1>2, RemoveAtProperties
<1>5. queue'[1] = queue[1]
  <2>1. 1 \in 1..(Len(queue) - 1) /\ 1 < k
    BY <1>2, <1>3
  <2> QED BY <2>1, <1>4
<1>6. queue' # <<>> => Head(queue') = Head(queue)
  BY <1>3, <1>4, <1>5, QueueShape
<1> QED BY <1>1, <1>3, <1>6, OffWireKeeps

(* Settling the head and activating its successor. *)
LEMMA PromotionFacts ==
    ASSUME TypeOK, OneInFlight, queue # <<>>, NEW o \in {"ok", "timeout"},
           ActivateHead(Tail(queue), [outcome EXCEPT ![Head(queue)] = o])
    PROVE  /\ Head(queue) \in Requests /\ outcome[Head(queue)] = "sent" /\ outcome'[Head(queue)] = o
           /\ queue' = <<>> => toConsole' = toConsole
           /\ queue' # <<>> =>
                /\ Head(queue') \in Requests /\ Head(queue') # Head(queue)
                /\ outcome[Head(queue')] = "waiting" /\ outcome'[Head(queue')] = "sent"
                /\ headTimer' = RequestTimeout
                /\ toConsole' = Append(toConsole, [of |-> Head(queue'), age |-> 0])
           /\ \A r \in Requests : r # Head(queue) /\ (queue' # <<>> => r # Head(queue'))
                                    => outcome'[r] = outcome[r]
<1> DEFINE h == Head(queue)
<1>1. h \in Requests /\ outcome[h] = "sent" /\ outcome \in [Requests -> Outcomes] /\ queue' = Tail(queue)
  BY TailType DEF OneInFlight, TypeOK, ActivateHead
<1>2. CASE queue' = <<>>
  BY <1>1, <1>2 DEF ActivateHead
<1>3. CASE queue' # <<>>
  <2> DEFINE g == Head(queue')
  <2>1. g = queue[2] /\ h = queue[1] /\ 1 \in DOMAIN queue /\ 2 \in DOMAIN queue /\ g \in Requests
    BY <1>1, <1>3, QueueShape, TailType DEF TypeOK
  <2>2. g # h /\ outcome[g] \in Waiting
    BY <2>1 DEF OneInFlight
  <2>3. outcome[g] = "waiting"
    BY <2>1, <2>2 DEF OneInFlight, Waiting
  <2>4. /\ outcome' = [[outcome EXCEPT ![h] = o] EXCEPT ![g] = "sent"]
        /\ headTimer' = RequestTimeout
        /\ toConsole' = Append(toConsole, [of |-> g, age |-> 0])
    BY <1>1, <1>3 DEF ActivateHead
  <2> HIDE DEF g, h
  <2>5. outcome'[g] = "sent" /\ outcome'[h] = o
        /\ \A r \in Requests : r # h /\ r # g => outcome'[r] = outcome[r]
    BY <1>1, <2>1, <2>2, <2>4
  <2> QED BY <1>1, <1>3, <2>1, <2>2, <2>3, <2>4, <2>5 DEF g, h
<1> QED BY <1>2, <1>3

NewHead == IF queue' = <<>> THEN {} ELSE {Head(queue')}

LEMMA TimeoutKeeps ==
    ASSUME TypeOK, TypeOK', OneInFlight, WireInv, LinkAssumption, Timeout
    PROVE  WireInv'
<1> DEFINE h == Head(queue)
<1>1. /\ queue # <<>> /\ headTimer = 0 /\ UNCHANGED <<socket, toClient>>
      /\ ActivateHead(Tail(queue), [outcome EXCEPT ![h] = "timeout"])
  BY DEF Timeout
<1>2. /\ h \in Requests /\ outcome[h] = "sent" /\ outcome'[h] = "timeout"
      /\ \A r \in Requests : r # h /\ r \notin NewHead => outcome'[r] = outcome[r]
      /\ \A g \in NewHead : g \in Requests /\ g # h /\ outcome[g] = "waiting" /\ outcome'[g] = "sent"
  BY <1>1, PromotionFacts DEF NewHead
<1>3. WireEmbeds(NewHead, 0)
  <2>1. CASE queue' = <<>>
    BY <1>1, <2>1, PromotionFacts, EmbedSame DEF WireEmbeds, NewHead, TypeOK
  <2>2. CASE queue' # <<>>
    <3> DEFINE d == [of |-> Head(queue'), age |-> 0]
    <3>1. d \in Datagrams /\ d.age = 0 /\ d.of = Head(queue') /\ toConsole' = Append(toConsole, d)
      BY <1>1, <2>2, PromotionFacts, LimitsAssumption DEF Datagrams
    <3> HIDE DEF d
    <3> QED BY <1>1, <2>2, <3>1, EmbedSend DEF WireEmbeds, NewHead, TypeOK
  <2> QED BY <2>1, <2>2
<1>4. \A i \in Wire : On(i).of # Push =>
        On(i).of \in Requests /\ On(i).of \notin NewHead /\ outcome[On(i).of] \in OnWire
  BY <1>2 DEF WireOK, OnWire
<1>5. \A i \in Wire : LeftTimedOut(On(i).of) => On(i).of = h \/ TimedOut(On(i).of)
  BY <1>2 DEF LeftTimedOut, TimedOut, Writes
<1>6. \A w \in Live : grace[w] <= RequestTimeout
  BY <1>1, RoomForOneMore
<1>7. /\ \A w \in Writes : w # h => grace'[w] = grace[w]
      /\ h \in Writes => grace'[h] = 2 * RequestTimeout
  <2>1. CASE h \in Writes
    <3>1. grace' = [v \in Writes |-> IF v = h THEN Grace ELSE grace[v]]
      BY <2>1, <1>1, RoomForOneMore DEF Timeout, RememberAbandonedReply, Reads
    <3> QED BY <2>1, <3>1 DEF Grace
  <2>2. CASE h \notin Writes
    BY <2>2 DEF Timeout, Reads
  <2> QED BY <2>1, <2>2
<1>8. WireOK'
  <2>1. \A i \in Wire : i > 0 /\ On(i).of # Push =>
            /\ outcome'[On(i).of] \in OnWire
            /\ On(i).of \in Writes => outcome'[On(i).of] # "ok"
    BY <1>2, <1>4 DEF WireOK, OnWire
  <2> QED BY <1>2, <1>3, <2>1, KeepWireOK
<1>9. HeadIsLast'
  <2>1. \A i \in Wire : On(i).of \notin NewHead
    BY <1>2, <1>4, RequestsAssumption DEF Push
  <2> QED BY <1>1, <1>3, <2>1, PromotionFacts, NewHeadIsLast DEF NewHead
<1>10. GraceCoversDelay'
  <2>1. ASSUME socket' # "closed", NEW i \in Wire, LeftTimedOut(On(i).of)
        PROVE  grace'[On(i).of] + On(i).age >= 3 * RequestTimeout
    <3>1. CASE On(i).of = h
      <4>1. On(i).age + 0 >= RequestTimeout
        BY <1>1, <3>1 DEF HeadIsLast
      <4>2. grace'[On(i).of] = 2 * RequestTimeout
        BY <2>1, <3>1, <1>7 DEF LeftTimedOut
      <4> QED BY <4>1, <4>2, WireTypes, LimitsAssumption
    <3>2. CASE On(i).of # h
      BY <2>1, <3>2, <1>1, <1>5, <1>7 DEF GraceCoversDelay, LeftTimedOut
    <3> QED BY <3>1, <3>2
  <2> QED BY <1>2, <1>3, <2>1, KeepGraceCoversDelay
<1>11. LateInOrder'
  <2>1. ASSUME socket' # "closed", NEW i \in Wire, NEW j \in Wire, i < j,
               LeftTimedOut(On(i).of), LeftTimedOut(On(j).of)
        PROVE  grace'[On(i).of] < grace'[On(j).of]
    <3>1. On(i).of \in Writes /\ On(j).of \in Writes /\ On(j).of # Push
      BY <2>1, RequestsAssumption DEF LeftTimedOut, Push, Writes
    <3>2. On(i).of # h
      <4>1. j > i
        BY <2>1, WireTypes
      <4> QED BY <3>1, <4>1, <1>1 DEF HeadIsLast
    <3>3. grace'[On(i).of] = grace[On(i).of] /\ TimedOut(On(i).of)
      BY <2>1, <3>1, <3>2, <1>5, <1>7
    <3>4. CASE On(j).of = h
      <4>1. grace'[On(j).of] = 2 * RequestTimeout
        BY <3>1, <3>4, <1>7
      <4>2. grace[On(i).of] <= RequestTimeout
        BY <3>1, <1>6, LiveTypes DEF Live
      <4> QED BY <3>1, <3>3, <4>1, <4>2, LiveTypes
    <3>5. CASE On(j).of # h
      BY <2>1, <3>1, <3>3, <3>5, <1>1, <1>5, <1>7 DEF LateInOrder
    <3> QED BY <3>4, <3>5
  <2> QED BY <1>2, <1>3, <2>1, KeepLateInOrder
<1>12. SocketOK'
  <2>1. socket' = "open"
    BY <1>1 DEF SocketOK
  <2>2. \A r \in Requests : outcome'[r] # "cut"
    BY <2>1, <1>1, <1>2 DEF SocketOK
  <2> QED BY <2>1, <2>2 DEF SocketOK
<1>13. GraceApart'
  <2>1. \A w \in Live' : w \in Writes /\ (w = h \/ (w \in Live /\ grace'[w] = grace[w]))
    BY <1>7 DEF Live
  <2>2. \A w \in Live' : w = h => grace'[w] = 2 * RequestTimeout
    BY <2>1, <1>7
  <2>3. \A w \in Live' : w # h => grace'[w] <= RequestTimeout
    BY <2>1, <1>6
  <2>4. ASSUME NEW v \in Live', NEW w \in Live', v # w
        PROVE  grace'[v] >= grace'[w] + RequestTimeout \/ grace'[w] >= grace'[v] + RequestTimeout
    <3>1. CASE v # h /\ w # h
      BY <2>4, <3>1, <2>1 DEF GraceApart
    <3>2. grace'[v] \in Nat /\ grace'[w] \in Nat /\ RequestTimeout \in Nat
      BY <2>1, LimitsAssumption DEF TypeOK, Grace
    <3>3. CASE v = h
      BY <2>4, <3>3, <3>2, <2>2, <2>3
    <3>4. CASE w = h
      BY <2>4, <3>4, <3>2, <2>2, <2>3
    <3> QED BY <3>1, <3>3, <3>4
  <2>5. queue' # <<>> => \A w \in Live' : grace'[w] <= RequestTimeout + headTimer'
    <3>1. queue' # <<>> => headTimer' = RequestTimeout
      BY <1>1, PromotionFacts
    <3>2. \A w \in Live' : grace'[w] <= RequestTimeout + RequestTimeout
      BY <2>1, LimitsAssumption DEF TypeOK, Grace
    <3> QED BY <3>1, <3>2
  <2>6. \A w \in Live' : outcome'[w] = "timeout"
    <3>1. \A w \in Live : w # h => w \notin NewHead /\ w \in Requests /\ outcome[w] = "timeout"
      BY <1>2, LiveTypes DEF GraceApart
    <3> QED BY <2>1, <3>1, <1>2
  <2> QED BY <2>4, <2>5, <2>6 DEF GraceApart
<1>14. AddressesOK'
  BY <1>1 DEF AddressesOK
<1> QED BY <1>8, <1>9, <1>10, <1>11, <1>12, <1>13, <1>14

(* The message at hand. *)
LEMMA FirstOnWire ==
    ASSUME TypeOK, AddressesOK, SocketOK, toClient # <<>>
    PROVE  /\ 1 \in Wire /\ On(1) = Head(toClient) /\ socket # "closed"
           /\ Head(toClient).addr = BulkAck => Head(toClient).of \in Writes
           /\ \A i \in Wire : i # 1 => i > 1
<1>1. /\ Len(toClient) \in Nat \ {0} /\ Len(toConsole) \in Nat /\ Head(toClient) = toClient[1]
      /\ 1 \in DOMAIN toClient
  BY QueueShape, LenProperties DEF TypeOK
<1>2. 1 \in Wire /\ On(1) = Head(toClient)
  BY <1>1 DEF Wire, On
<1>3. Head(toClient).of \in Requests \cup {Push}
  BY <1>2, WireTypes
<1>4. Head(toClient).addr = BulkAck => Head(toClient).of \in Writes
  <2>1. IF Head(toClient).of = Push THEN Head(toClient).addr \in Paths
                                    ELSE Head(toClient).addr = ReplyAddress(Head(toClient).of)
    BY <1>1 DEF AddressesOK
  <2>2. \A r \in Requests : Path[r] \in Paths
    BY RequestsAssumption
  <2> QED BY <2>1, <2>2, <1>3, RequestsAssumption DEF ReplyAddress
<1> QED BY <1>1, <1>2, <1>4 DEF SocketOK, Wire

(* A write is resolved by its own ack: an ack of another write would be of *)
(* one that timed out, and its entry would still be live.                  *)
LEMMA OwnAck ==
    ASSUME TypeOK, OneInFlight, WireInv, LinkAssumption, toClient # <<>>,
           AnswersHead(Head(toClient)), Head(queue) \in Writes
    PROVE  Head(toClient).of = Head(queue)
<1> DEFINE m == Head(toClient)
<1>1. m.addr = BulkAck /\ Live = {} /\ queue # <<>>
  BY DEF AnswersHead, Matches, ReplyAddress, IsLateReply
<1>2. 1 \in Wire /\ On(1) = m /\ socket # "closed" /\ m.of \in Writes
  BY <1>1, FirstOnWire
<1>3. m.of # Push /\ m.of \in Requests
  BY <1>2, RequestsAssumption DEF Push, Writes
<1>4. outcome[m.of] \in {"sent", "timeout"}
  BY <1>2, <1>3 DEF WireOK, OnWire, SocketOK
<1>5. outcome[m.of] # "timeout"
  <2>1. CASE outcome[m.of] = "timeout"
    <3>1. On(1).of \in Live
      BY <2>1, <1>2, LateIsLive DEF TimedOut
    <3> QED BY <3>1, <1>1
  <2> QED BY <2>1
<1> QED BY <1>3, <1>4, <1>5 DEF OneInFlight

LEMMA ResolveKeeps ==
    ASSUME TypeOK, TypeOK', OneInFlight, WireInv, LinkAssumption,
           HandleMessage, ResolveHead(Head(toClient))
    PROVE  WireInv'
<1> DEFINE h == Head(queue)
<1>1. /\ queue # <<>> /\ toClient # <<>> /\ UNCHANGED <<socket, grace>> /\ toClient' = Tail(toClient)
      /\ ActivateHead(Tail(queue), [outcome EXCEPT ![h] = "ok"])
      /\ AnswersHead(Head(toClient))
  BY DEF HandleMessage, ResolveHead, AnswersHead
<1>2. /\ h \in Requests /\ outcome[h] = "sent" /\ outcome'[h] = "ok"
      /\ \A r \in Requests : r # h /\ r \notin NewHead => outcome'[r] = outcome[r]
      /\ \A g \in NewHead : g \in Requests /\ g # h /\ outcome[g] = "waiting" /\ outcome'[g] = "sent"
  BY <1>1, PromotionFacts DEF NewHead
<1>3. WireEmbeds(NewHead, 1)
  <2>1. CASE queue' = <<>>
    BY <1>1, <2>1, PromotionFacts, EmbedReceive DEF WireEmbeds, NewHead, TypeOK
  <2>2. CASE queue' # <<>>
    <3> DEFINE d == [of |-> Head(queue'), age |-> 0]
    <3>1. d \in Datagrams /\ d.age = 0 /\ d.of = Head(queue') /\ toConsole' = Append(toConsole, d)
      BY <1>1, <2>2, PromotionFacts, LimitsAssumption DEF Datagrams
    <3> HIDE DEF d
    <3> QED BY <1>1, <2>2, <3>1, EmbedReceiveAndSend DEF WireEmbeds, NewHead, TypeOK
  <2> QED BY <2>1, <2>2
<1>4. \A i \in Wire : On(i).of # Push =>
        On(i).of \in Requests /\ On(i).of \notin NewHead /\ outcome[On(i).of] \in OnWire
  BY <1>2 DEF WireOK, OnWire
<1>5. \A i \in Wire : LeftTimedOut(On(i).of) => TimedOut(On(i).of)
  BY <1>2 DEF LeftTimedOut, TimedOut, Writes
<1>6. WireOK'
  <2>1. ASSUME NEW i \in Wire, i > 1, On(i).of # Push
        PROVE  /\ outcome'[On(i).of] \in OnWire
               /\ On(i).of \in Writes => outcome'[On(i).of] # "ok"
    <3>1. CASE On(i).of = h
      <4>1. h \notin Writes
        <5> SUFFICES ASSUME h \in Writes PROVE FALSE
          OBVIOUS
        <5>1. On(1).of = h /\ 1 \in Wire
          BY <1>1, OwnAck, FirstOnWire
        <5> QED BY <5>1, <2>1, <1>1 DEF HeadIsLast
      <4> QED BY <3>1, <4>1, <1>2 DEF OnWire
    <3>2. CASE On(i).of # h
      BY <2>1, <3>2, <1>2, <1>4 DEF WireOK
    <3> QED BY <3>1, <3>2
  <2> QED BY <2>1, <1>2, <1>3, KeepWireOK
<1>7. HeadIsLast'
  <2>1. \A i \in Wire : On(i).of \notin NewHead
    BY <1>2, <1>4, RequestsAssumption DEF Push
  <2> QED BY <1>1, <1>3, <2>1, PromotionFacts, NewHeadIsLast DEF NewHead
<1>8. GraceCoversDelay'
  <2>1. socket' # "closed" => \A i \in Wire : i > 1 /\ LeftTimedOut(On(i).of) =>
                    grace'[On(i).of] + On(i).age >= 3 * RequestTimeout
    BY <1>1, <1>5 DEF GraceCoversDelay
  <2> QED BY <1>2, <1>3, <2>1, KeepGraceCoversDelay
<1>9. LateInOrder'
  <2>1. socket' # "closed" => \A i, j \in Wire :
            1 < i /\ i < j /\ LeftTimedOut(On(i).of) /\ LeftTimedOut(On(j).of) =>
                    grace'[On(i).of] < grace'[On(j).of]
    BY <1>1, <1>5 DEF LateInOrder
  <2> QED BY <1>2, <1>3, <2>1, KeepLateInOrder
<1>10. SocketOK'
  <2>1. socket' = "open"
    BY <1>1 DEF SocketOK
  <2>2. \A r \in Requests : outcome'[r] # "cut"
    BY <2>1, <1>1, <1>2 DEF SocketOK
  <2> QED BY <2>1, <2>2 DEF SocketOK
<1>11. GraceApart'
  <2>1. queue' # <<>> => \A w \in Live : grace[w] <= RequestTimeout + headTimer'
    <3>1. queue' # <<>> => headTimer' = RequestTimeout
      BY <1>1, PromotionFacts
    <3> QED BY <3>1, LiveTypes
  <2>2. \A w \in Live : outcome'[w] = "timeout"
    <3>1. \A w \in Live : w # h /\ w \notin NewHead /\ w \in Requests /\ outcome[w] = "timeout"
      BY <1>2, LiveTypes DEF GraceApart
    <3> QED BY <3>1, <1>2
  <2> QED BY <1>1, <2>1, <2>2 DEF GraceApart, Live
<1>12. AddressesOK'
  BY <1>1, AddressesTail
<1> QED BY <1>6, <1>7, <1>8, <1>9, <1>10, <1>11, <1>12

(* Swallowing a late ack: the entry it uses up is that of a write with no  *)
(* other datagram on the wire.                                             *)
LEMMA ConsumeKeeps ==
    ASSUME TypeOK, TypeOK', OneInFlight, WireInv, LinkAssumption,
           HandleMessage, ConsumeAbandonedReply(Head(toClient))
    PROVE  WireInv'
<1> DEFINE v == Oldest(Live)
           m == Head(toClient)
<1>1. /\ toClient # <<>> /\ toClient' = Tail(toClient) /\ m.addr = BulkAck /\ Live # {}
      /\ grace' = [grace EXCEPT ![v] = 0]
      /\ UNCHANGED <<socket, queue, headTimer, outcome, toConsole>>
  BY DEF HandleMessage, ConsumeAbandonedReply, IsLateReply
<1>2. v \in Live /\ v \in Writes /\ \A w \in Live : grace[v] <= grace[w]
  BY <1>1, OldestIsLeast, LiveTypes
<1>3. 1 \in Wire /\ On(1) = m /\ socket # "closed" /\ m.of \in Writes
  BY <1>1, FirstOnWire
<1> HIDE DEF v
<1>4. \A w \in Writes : grace'[w] = IF w = v THEN 0 ELSE grace[w]
  BY <1>1 DEF TypeOK
<1>5. WireEmbeds({}, 1)
  BY <1>1, EmbedReceive DEF WireEmbeds, TypeOK
<1>6. ASSUME NEW i \in Wire, i > 1, TimedOut(On(i).of)
      PROVE  On(i).of # v
  <2> SUFFICES ASSUME On(i).of = v PROVE FALSE
    OBVIOUS
  <2>1. m.of # Push /\ m.of \in Requests /\ v # Push
    BY <1>2, <1>3, RequestsAssumption DEF Push, Writes
  <2>2. outcome[m.of] \in {"sent", "timeout"}
    BY <1>3, <2>1 DEF WireOK, OnWire, SocketOK
  <2>3. CASE outcome[m.of] = "sent"
    <3>1. queue # <<>> /\ m.of = Head(queue)
      BY <2>1, <2>3 DEF OneInFlight
    <3> QED BY <3>1, <2>1, <1>3, <1>6 DEF HeadIsLast
  <2>4. CASE outcome[m.of] = "timeout"
    <3>1. TimedOut(On(1).of)
      BY <2>4, <1>3 DEF TimedOut
    <3>2. grace[m.of] < grace[v]
      <4>1. 1 < i
        BY <1>6, WireTypes
      <4> QED BY <3>1, <4>1, <1>3, <1>6 DEF LateInOrder
    <3>3. m.of \in Live
      BY <3>1, <1>3, LateIsLive
    <3> QED BY <3>2, <3>3, <1>2, LiveTypes
  <2> QED BY <2>2, <2>3, <2>4
<1>7. \A i \in Wire : LeftTimedOut(On(i).of) => TimedOut(On(i).of)
  BY <1>1 DEF LeftTimedOut, TimedOut
<1>8. WireOK'
  BY <1>1, <1>5, KeepWireOK DEF WireOK
<1>9. HeadIsLast'
  BY <1>1, <1>5, KeepHeadIsLast
<1>10. GraceCoversDelay'
  <2>1. socket' # "closed" => \A i \in Wire : i > 1 /\ LeftTimedOut(On(i).of) =>
                    grace'[On(i).of] + On(i).age >= 3 * RequestTimeout
    BY <1>1, <1>4, <1>6, <1>7 DEF GraceCoversDelay, LeftTimedOut
  <2> QED BY <1>5, <2>1, KeepGraceCoversDelay
<1>11. LateInOrder'
  <2>1. ASSUME socket' # "closed", NEW i \in Wire, NEW j \in Wire, 1 < i, i < j,
               LeftTimedOut(On(i).of), LeftTimedOut(On(j).of)
        PROVE  grace'[On(i).of] < grace'[On(j).of]
    <3>1. i > 1 /\ j > 1
      BY <2>1, WireTypes
    <3> QED BY <2>1, <3>1, <1>1, <1>4, <1>6, <1>7 DEF LateInOrder, LeftTimedOut
  <2> QED BY <1>5, <2>1, KeepLateInOrder
<1>12. SocketOK'
  BY <1>1, <1>3 DEF SocketOK
<1>13. GraceApart'
  <2>1. \A w \in Live' : w \in Live /\ grace'[w] = grace[w]
    BY <1>2, <1>4 DEF Live
  <2> QED BY <1>1, <2>1 DEF GraceApart
<1>14. AddressesOK'
  BY <1>1, AddressesTail
<1> QED BY <1>8, <1>9, <1>10, <1>11, <1>12, <1>13, <1>14

LEMMA ReplyType ==
    ASSUME TypeOK, toConsole # <<>>, NEW done \in SUBSET Writes
    PROVE  /\ Reply(Head(toConsole), done) \in Messages
           /\ Head(toConsole).of \in Requests
<1> DEFINE d == Head(toConsole)
<1>1. d.of \in Requests /\ d.age \in 0..MaxDelay
  <2>1. d \in Datagrams
    BY TailType DEF TypeOK
  <2> QED BY <2>1 DEF Datagrams
<1>2. Kind[d.of] \in Kinds /\ Path[d.of] \in Paths
  BY <1>1, RequestsAssumption
<1>3. Holds(Path[d.of], done) \in SUBSET Writes /\ ReplyAddress(d.of) \in Paths \cup {BulkAck}
  BY <1>2 DEF Holds, ReplyAddress
<1> HIDE DEF d
<1>4. Reply(d, done) \in Messages
  BY <1>1, <1>2, <1>3 DEF Reply, Messages
<1> QED BY <1>1, <1>4 DEF d

LEMMA NetworkKeeps ==
    ASSUME TypeOK, TypeOK', WireInv,
           \/ ConsoleHandle \/ LoseRequest \/ LoseReply \/ \E p \in Paths : ConsolePush(p)
           \/ HandleMessage /\ DispatchSubscriptionPush(Head(toClient))
    PROVE  WireInv'
<1>1. UNCHANGED <<socket, queue, headTimer, grace, outcome>>
  BY DEF ConsoleHandle, LoseRequest, LoseReply, ConsolePush, HandleMessage,
         DispatchSubscriptionPush, client
<1>2. CASE toClient # <<>> /\ toClient' = Tail(toClient) /\ toConsole' = toConsole
  <2>1. WireEmbeds({}, 1)
    BY <1>2, EmbedReceive DEF WireEmbeds, TypeOK
  <2>2. socket # "closed" /\ AddressesOK'
    BY <1>2, AddressesTail DEF SocketOK
  <2> QED BY <1>1, <2>1, <2>2, QuietKeeps
<1>3. CASE LoseRequest
  <2>1. WireEmbeds({}, 0)
    BY <1>3, EmbedLoseRequest DEF LoseRequest, WireEmbeds, TypeOK
  <2>2. AddressesOK' /\ toClient' = toClient
    BY <1>3 DEF LoseRequest, AddressesOK
  <2> QED BY <1>1, <2>1, <2>2, QuietKeeps DEF SocketOK
<1>4. CASE ConsoleHandle
  <2>1. CASE socket = "open"
    <3> DEFINE m == Reply(Head(toConsole), applied')
    <3>1. /\ toConsole # <<>> /\ toConsole' = Tail(toConsole) /\ toClient' = Append(toClient, m)
          /\ applied' \in SUBSET Writes
      BY <1>4, <2>1 DEF ConsoleHandle, TypeOK
    <3>2. m \in Messages /\ Head(toConsole).of \in Requests
      BY <3>1, ReplyType
    <3>3. m.of = Head(toConsole).of /\ m.age = Head(toConsole).age /\ m.addr = ReplyAddress(m.of)
      BY DEF Reply
    <3>4. m.of # Push
      BY <3>2, <3>3, RequestsAssumption DEF Push
    <3> HIDE DEF m
    <3>5. WireEmbeds({}, 0)
      BY <3>1, <3>2, <3>3, EmbedAnswer DEF WireEmbeds, TypeOK
    <3>6. AddressesOK'
      BY <3>1, <3>2, <3>3, <3>4, AddressesAppend
    <3> QED BY <1>1, <2>1, <3>5, <3>6, QuietKeeps
  <2>2. CASE socket # "open"
    <3>1. toConsole # <<>> /\ toConsole' = Tail(toConsole) /\ toClient' = toClient
      BY <1>4, <2>2 DEF ConsoleHandle
    <3>2. WireEmbeds({}, 0)
      BY <3>1, EmbedLoseRequest DEF WireEmbeds, TypeOK
    <3>3. AddressesOK'
      BY <3>1 DEF AddressesOK
    <3> QED BY <1>1, <3>1, <3>2, <3>3, QuietKeeps DEF SocketOK
  <2> QED BY <2>1, <2>2
<1>5. ASSUME NEW p \in Paths, ConsolePush(p) PROVE WireInv'
  <2> DEFINE m == [of |-> Push, kind |-> Push, addr |-> p, holds |-> Holds(p, applied), age |-> 0]
  <2>1. m \in Messages /\ m.of = Push /\ m.addr \in Paths
    BY LimitsAssumption DEF Messages, Holds, TypeOK
  <2>2. toClient' = Append(toClient, m) /\ toConsole' = toConsole /\ socket = "open"
    BY <1>5 DEF ConsolePush
  <2> HIDE DEF m
  <2>3. WireEmbeds({}, 0)
    BY <2>1, <2>2, EmbedPush DEF WireEmbeds, TypeOK
  <2>4. AddressesOK'
    BY <2>1, <2>2, AddressesAppend
  <2> QED BY <1>1, <2>2, <2>3, <2>4, QuietKeeps
<1> QED BY <1>2, <1>3, <1>4, <1>5 DEF LoseReply, HandleMessage, DispatchSubscriptionPush

LEMMA TickKeeps ==
    ASSUME TypeOK, TypeOK', OneInFlight, WireInv, LinkAssumption, Tick
    PROVE  WireInv'
<1>1. UNCHANGED <<socket, queue, outcome>> /\ toConsole' = Aged(toConsole) /\ toClient' = Aged(toClient)
  BY DEF Tick
<1>2. /\ Len(toClient') = Len(toClient) /\ DOMAIN toClient' = DOMAIN toClient
      /\ \A i \in DOMAIN toClient : /\ toClient'[i].of = toClient[i].of
                                    /\ toClient'[i].addr = toClient[i].addr
                                    /\ toClient'[i].age = toClient[i].age + 1
  BY AgedMessages DEF Tick, TypeOK
<1>3. /\ Len(toConsole') = Len(toConsole) /\ DOMAIN toConsole' = DOMAIN toConsole
      /\ \A i \in DOMAIN toConsole : /\ toConsole'[i].of = toConsole[i].of
                                     /\ toConsole'[i].age = toConsole[i].age + 1
  BY AgedDatagrams DEF Tick, TypeOK
<1>4. Wire' = Wire /\ \A i \in Wire : On(i)'.of = On(i).of /\ On(i)'.age = On(i).age + 1
  <2>1. DOMAIN toClient = 1..Len(toClient) /\ DOMAIN toConsole = 1..Len(toConsole)
        /\ Len(toClient) \in Nat /\ Len(toConsole) \in Nat
    BY LenProperties DEF TypeOK
  <2>2. ASSUME NEW i \in Wire PROVE On(i)'.of = On(i).of /\ On(i)'.age = On(i).age + 1
    <3>1. CASE i <= Len(toClient)
      <4>1. i \in DOMAIN toClient /\ On(i) = toClient[i] /\ On(i)' = toClient'[i]
        BY <3>1, <2>1, <1>2 DEF Wire, On
      <4> QED BY <4>1, <1>2
    <3>2. CASE ~(i <= Len(toClient))
      <4>1. i - Len(toClient) \in DOMAIN toConsole /\ On(i) = toConsole[i - Len(toClient)]
            /\ On(i)' = toConsole'[i - Len(toClient)]
        BY <3>2, <2>1, <1>2 DEF Wire, On
      <4> QED BY <4>1, <1>3
    <3> QED BY <3>1, <3>2
  <2> QED BY <2>2, <1>2, <1>3 DEF Wire
<1>5. \A i \in Wire : On(i).age \in Nat /\ On(i).age + 1 <= MaxDelay
  <2>1. DOMAIN toClient = 1..Len(toClient) /\ DOMAIN toConsole = 1..Len(toConsole)
        /\ Len(toClient) \in Nat /\ Len(toConsole) \in Nat
    BY LenProperties DEF TypeOK
  <2>2. ASSUME NEW i \in Wire PROVE On(i).age < MaxDelay
    <3>1. CASE i <= Len(toClient)
      <4>1. i \in DOMAIN toClient /\ On(i) = toClient[i]
        BY <3>1, <2>1 DEF Wire, On
      <4> QED BY <4>1 DEF Tick, InTime
    <3>2. CASE ~(i <= Len(toClient))
      <4>1. i - Len(toClient) \in DOMAIN toConsole /\ On(i) = toConsole[i - Len(toClient)]
        BY <3>2, <2>1 DEF Wire, On
      <4> QED BY <4>1 DEF Tick, InTime
    <3> QED BY <3>1, <3>2
  <2> QED BY <2>2, WireTypes, LimitsAssumption
<1>6. \A w \in Writes : /\ grace'[w] \in Nat /\ grace[w] \in Nat /\ grace'[w] >= grace[w] - 1
                        /\ grace'[w] > 0 => grace'[w] = grace[w] - 1
                        /\ grace'[w] <= grace[w]
  <2>1. \A w \in Writes : grace'[w] = Countdown(grace[w])
    BY DEF Tick
  <2> QED BY <2>1, LiveTypes DEF Countdown
<1>7. WireOK'
  BY <1>1, <1>4 DEF WireOK
<1>8. AddressesOK'
  BY <1>2 DEF AddressesOK
<1>9. SocketOK'
  <2>1. toClient = <<>> => toClient' = <<>>
    BY <1>2, EmptySeq DEF TypeOK
  <2> QED BY <1>1, <2>1 DEF SocketOK
<1>10. queue # <<>> => /\ headTimer \in Nat /\ headTimer' \in Nat /\ headTimer' >= headTimer - 1
                       /\ headTimer' = 0 \/ headTimer' = headTimer - 1
  <2>1. queue # <<>> => headTimer \in Nat
    BY LimitsAssumption DEF OneInFlight, TypeOK
  <2> QED BY <2>1 DEF Tick, Countdown
<1>11. HeadIsLast'
  <2> SUFFICES ASSUME queue # <<>>, NEW i \in Wire, On(i).of = Head(queue)
               PROVE  /\ On(i)'.age + headTimer' >= RequestTimeout
                      /\ \A j \in Wire : j > i => On(j)'.of = Push
    BY <1>1, <1>4 DEF HeadIsLast
  <2>1. On(i).age + headTimer >= RequestTimeout /\ \A j \in Wire : j > i => On(j).of = Push
    BY DEF HeadIsLast
  <2> QED BY <2>1, <1>4, <1>5, <1>10, LimitsAssumption
<1>12. ASSUME socket # "closed", NEW i \in Wire, TimedOut(On(i).of)
       PROVE  /\ grace'[On(i).of] + On(i)'.age >= 3 * RequestTimeout
              /\ grace'[On(i).of] = grace[On(i).of] - 1
  <2>1. grace[On(i).of] + On(i).age >= 3 * RequestTimeout /\ On(i).of \in Writes
    BY <1>12 DEF GraceCoversDelay, TimedOut
  <2>2. grace'[On(i).of] + On(i)'.age >= 3 * RequestTimeout
    BY <2>1, <1>4, <1>5, <1>6, LimitsAssumption
  <2>3. grace'[On(i).of] > 0
    BY <2>1, <2>2, <1>4, <1>5, <1>6, LimitsAssumption DEF LinkAssumption
  <2> QED BY <2>1, <2>2, <2>3, <1>6
<1>13. GraceCoversDelay'
  <2>1. \A i \in Wire : TimedOut(On(i).of)' => TimedOut(On(i).of) /\ On(i)'.of = On(i).of
    BY <1>1, <1>4 DEF TimedOut
  <2> QED BY <2>1, <1>1, <1>4, <1>12 DEF GraceCoversDelay
<1>14. LateInOrder'
  <2> SUFFICES ASSUME socket # "closed", NEW i \in Wire, NEW j \in Wire, i < j,
                      TimedOut(On(i).of), TimedOut(On(j).of)
               PROVE  grace'[On(i).of] < grace'[On(j).of]
    BY <1>1, <1>4 DEF LateInOrder, TimedOut
  <2>1. grace[On(i).of] < grace[On(j).of] /\ On(i).of \in Writes /\ On(j).of \in Writes
    BY DEF LateInOrder, TimedOut
  <2> QED BY <2>1, <1>6, <1>12
<1>15. GraceApart'
  <2>1. \A w \in Live' : w \in Live /\ w \in Writes /\ grace'[w] = grace[w] - 1
    BY <1>6 DEF Live
  <2>2. ASSUME NEW v \in Live', NEW w \in Live', v # w
        PROVE  grace'[v] >= grace'[w] + RequestTimeout \/ grace'[w] >= grace'[v] + RequestTimeout
    <3>1. grace[v] >= grace[w] + RequestTimeout \/ grace[w] >= grace[v] + RequestTimeout
      BY <2>1, <2>2 DEF GraceApart
    <3> QED BY <3>1, <2>1, <1>6, LimitsAssumption
  <2>3. ASSUME queue # <<>>, NEW w \in Live' PROVE grace'[w] <= RequestTimeout + headTimer'
    <3>1. grace[w] <= RequestTimeout + headTimer
      BY <2>1, <2>3 DEF GraceApart
    <3> QED BY <2>3, <3>1, <2>1, <1>6, <1>10, LimitsAssumption
  <2>4. \A w \in Live' : outcome'[w] = "timeout"
    BY <2>1, <1>1 DEF GraceApart
  <2> QED BY <2>2, <2>3, <2>4, <1>1 DEF GraceApart
<1> QED BY <1>7, <1>8, <1>9, <1>11, <1>13, <1>14, <1>15

LEMMA CloseKeeps ==
    ASSUME TypeOK, TypeOK', WireInv, Close
    PROVE  WireInv'
<1>1. /\ socket' = "closed" /\ queue' = <<>> /\ toClient' = <<>> /\ toConsole' = toConsole
      /\ grace' = [w \in Writes |-> 0]
      /\ \A r \in Requests : outcome'[r] = CASE outcome[r] = "sent" -> "cut"
                                             [] outcome[r] = "waiting" -> "dropped"
                                             [] OTHER -> outcome[r]
  BY DEF Close
<1>2. WireEmbeds({}, 0)
  BY <1>1, EmbedClose DEF WireEmbeds, TypeOK
<1>3. WireOK'
  <2>1. \A i \in Wire : i > 0 /\ On(i).of # Push =>
            /\ outcome'[On(i).of] \in OnWire
            /\ On(i).of \in Writes => outcome'[On(i).of] # "ok"
    BY <1>1 DEF WireOK, OnWire
  <2> QED BY <1>2, <2>1, KeepWireOK
<1>4. AddressesOK'
  BY <1>1 DEF AddressesOK
<1>5. Live' = {}
  BY <1>1 DEF Live
<1> QED BY <1>1, <1>3, <1>4, <1>5 DEF SocketOK, HeadIsLast, GraceCoversDelay, LateInOrder, GraceApart

LEMMA WireInvNext ==
    ASSUME TypeOK, TypeOK', OneInFlight, WireInv, LinkAssumption, [Next]_vars
    PROVE  WireInv'
<1>1. CASE UNCHANGED vars
  BY <1>1 DEF vars, client, network, WireOK, AddressesOK, SocketOK, HeadIsLast, GraceCoversDelay,
              LateInOrder, GraceApart, Wire, On, Live, TimedOut
<1>2. CASE Connect
  <2>1. UNCHANGED <<queue, headTimer, grace, outcome, toClient, toConsole>>
        /\ socket = "unopened" /\ socket' = "open"
    BY <1>2 DEF Connect, network
  <2>2. AddressesOK' /\ SocketOK' /\ WireOK' /\ HeadIsLast' /\ GraceApart'
    BY <2>1 DEF AddressesOK, SocketOK, WireOK, HeadIsLast, GraceApart, Wire, On, Live
  <2>3. GraceCoversDelay' /\ LateInOrder'
    BY <2>1 DEF GraceCoversDelay, LateInOrder, Wire, On, TimedOut
  <2> QED BY <2>2, <2>3
<1>3. CASE HandleMessage
  BY <1>3, ResolveKeeps, ConsumeKeeps, NetworkKeeps DEF HandleMessage
<1> QED BY <1>1, <1>2, <1>3, CloseKeeps, IssueKeeps, DropKeeps, TimeoutKeeps, NetworkKeeps,
           TickKeeps DEF Next

-----------------------------------------------------------------------------
(* What the messages show. *)

(* The messages c acknowledge writes of app only, and show the writes oks  *)
(* and every write acknowledged before them.                               *)
Shows(c, app, oks) ==
    /\ \A i \in DOMAIN c : c[i].of \in Writes => c[i].of \in app
    /\ \A i, j \in DOMAIN c :
        i < j /\ c[i].of \in Writes /\ c[j].addr = Path[c[i].of] => c[i].of \in c[j].holds
    /\ \A w \in oks, i \in DOMAIN c : c[i].addr = Path[w] => w \in c[i].holds

LEMMA ShowsTail ==
    ASSUME NEW c \in Seq(Messages), c # <<>>, NEW app, NEW oks, Shows(c, app, oks)
    PROVE  /\ Shows(Tail(c), app, oks)
           /\ Head(c).of \in Writes => Shows(Tail(c), app, oks \cup {Head(c).of})
           /\ \A w \in oks : Head(c).addr = Path[w] => w \in Head(c).holds
           /\ Head(c).of \in Writes => Head(c).of \in app
<1>1. /\ DOMAIN c = 1..Len(c) /\ Len(c) \in Nat \ {0} /\ DOMAIN Tail(c) = 1..(Len(c) - 1)
      /\ \A i \in 1..(Len(c) - 1) : Tail(c)[i] = c[i + 1]
      /\ Head(c) = c[1] /\ 1 \in DOMAIN c
  BY QueueShape
<1>2. \A i \in DOMAIN Tail(c) : i + 1 \in DOMAIN c /\ 1 < i + 1 /\ Tail(c)[i] = c[i + 1]
  BY <1>1
<1>3. \A i, j \in DOMAIN Tail(c) : i < j => i + 1 < j + 1
  BY <1>1
<1>4. Shows(Tail(c), app, oks)
  BY <1>2, <1>3 DEF Shows
<1>5. Head(c).of \in Writes => \A i \in DOMAIN Tail(c) :
            Tail(c)[i].addr = Path[Head(c).of] => Head(c).of \in Tail(c)[i].holds
  BY <1>1, <1>2 DEF Shows
<1> QED BY <1>1, <1>4, <1>5 DEF Shows

LEMMA ShowsAppend ==
    ASSUME NEW c \in Seq(Messages), NEW m \in Messages, NEW app, NEW app2, NEW oks,
           Shows(c, app, oks), app \subseteq app2, app2 \subseteq Writes, oks \subseteq app,
           m.of \in Writes => m.of \in app2,
           m.addr = BulkAck \/ m.holds = Holds(m.addr, app2)
    PROVE  Shows(Append(c, m), app2, oks)
<1> DEFINE d == Append(c, m)
           n == Len(c) + 1
<1>1. /\ DOMAIN c = 1..Len(c) /\ Len(c) \in Nat /\ DOMAIN d = 1..n
      /\ \A i \in 1..Len(c) : d[i] = c[i]
      /\ d[n] = m
  BY AppendProperties, LenProperties
<1>2. /\ DOMAIN d = DOMAIN c \cup {n} /\ n \notin DOMAIN c /\ \A i \in DOMAIN c : i < n
      /\ \A i, j \in DOMAIN d : i < j => i \in DOMAIN c
  BY <1>1
<1>3. ASSUME NEW w \in app, m.addr = Path[w] PROVE w \in m.holds
  <2>1. w \in Writes /\ Path[w] \in Paths
    BY RequestsAssumption DEF Writes
  <2> QED BY <1>3, <2>1, RequestsAssumption DEF Holds
<1> HIDE DEF d, n
<1>4. \A i \in DOMAIN d : d[i].of \in Writes => d[i].of \in app2
  BY <1>1, <1>2 DEF Shows
<1>5. ASSUME NEW i \in DOMAIN d, NEW j \in DOMAIN d, i < j,
             d[i].of \in Writes, d[j].addr = Path[d[i].of]
      PROVE  d[i].of \in d[j].holds
  <2>1. i \in DOMAIN c
    BY <1>2, <1>5
  <2>2. CASE j \in DOMAIN c
    BY <2>1, <2>2, <1>1, <1>5 DEF Shows
  <2>3. CASE j = n
    <3>1. d[i].of \in app
      BY <2>1, <1>1, <1>5 DEF Shows
    <3> QED BY <2>3, <3>1, <1>1, <1>3, <1>5
  <2> QED BY <2>2, <2>3, <1>2
<1>6. ASSUME NEW w \in oks, NEW i \in DOMAIN d, d[i].addr = Path[w] PROVE w \in d[i].holds
  <2>1. CASE i \in DOMAIN c
    BY <2>1, <1>1, <1>6 DEF Shows
  <2>2. CASE i = n
    BY <2>2, <1>1, <1>3, <1>6
  <2> QED BY <2>1, <2>2, <1>2
<1>7. Shows(d, app2, oks)
  BY <1>4, <1>5, <1>6 DEF Shows
<1> QED BY <1>7 DEF d

Oks == {w \in Writes : outcome[w] = "ok"}

LEMMA ShowWrites ==
    ASSUME TypeOK
    PROVE  RepliesShowWrites <=>
            /\ Shows(toClient, applied, Oks)
            /\ Oks \subseteq applied
            /\ \A w \in applied : outcome[w] \in OnWire
            /\ \A r \in Requests : after[r] \subseteq {w \in Oks : Path[w] = Path[r]}
BY DEF RepliesShowWrites, Shows, Oks

(* A request is resolved by the message at hand or as it was before.       *)
LEMMA OkByAnswer ==
    ASSUME TypeOK, OneInFlight, [Next]_vars, NEW r \in Requests, outcome'[r] = "ok"
    PROVE  \/ outcome[r] = "ok" /\ answer'[r] = answer[r]
           \/ /\ HandleMessage /\ ResolveHead(Head(toClient))
              /\ r = Head(queue) /\ answer'[r] = Head(toClient)
<1>1. outcome \in [Requests -> Outcomes] /\ answer \in [Requests -> Messages \cup {NoAnswer}]
  BY DEF TypeOK
<1>2. CASE Timeout
  <2>1. queue # <<>> /\ ActivateHead(Tail(queue), [outcome EXCEPT ![Head(queue)] = "timeout"])
        /\ answer' = answer
    BY <1>2 DEF Timeout
  <2>2. outcome'[r] = outcome[r]
    BY <2>1, PromotionFacts
  <2> QED BY <2>1, <2>2
<1>3. CASE HandleMessage
  <2>1. CASE ResolveHead(Head(toClient))
    <3>1. queue # <<>> /\ ActivateHead(Tail(queue), [outcome EXCEPT ![Head(queue)] = "ok"])
          /\ answer' = [answer EXCEPT ![Head(queue)] = Head(toClient)]
      BY <2>1 DEF ResolveHead, AnswersHead
    <3>2. r = Head(queue) \/ outcome'[r] = outcome[r]
      BY <3>1, PromotionFacts
    <3>3. r = Head(queue) => answer'[r] = Head(toClient)
      BY <3>1, <1>1
    <3>4. r # Head(queue) => answer'[r] = answer[r]
      BY <3>1, <1>1
    <3> QED BY <1>3, <2>1, <3>2, <3>3, <3>4
  <2> QED BY <1>3, <2>1 DEF HandleMessage, ConsumeAbandonedReply, DispatchSubscriptionPush
<1>4. ASSUME NEW s \in Requests, Issue(s) PROVE outcome[r] = "ok" /\ answer'[r] = answer[r]
  <2>1. answer' = answer
    BY <1>4 DEF Issue
  <2>2. CASE ActivateHead(<<s>>, outcome)
    <3>1. outcome' = [outcome EXCEPT ![s] = "sent"]
      BY <2>2 DEF ActivateHead
    <3> QED BY <2>1, <3>1, <1>1
  <2>3. CASE \E o \in {"overflow", "unavailable", "waiting"} : outcome' = [outcome EXCEPT ![s] = o]
    BY <2>1, <2>3, <1>1
  <2> QED BY <2>2, <2>3, <1>4 DEF Issue
<1>5. ASSUME NEW s \in Requests, DropQueuedEntry(s) PROVE outcome[r] = "ok" /\ answer'[r] = answer[r]
  BY <1>1, <1>5 DEF DropQueuedEntry
<1>6. CASE Close
  BY <1>1, <1>6 DEF Close
<1>7. CASE \/ Connect \/ ConsoleHandle \/ LoseRequest \/ LoseReply \/ Tick
           \/ (\E p \in Paths : ConsolePush(p)) \/ UNCHANGED vars
  BY <1>7 DEF Connect, ConsoleHandle, LoseRequest, LoseReply, Tick, ConsolePush, vars, client
<1> QED BY <1>2, <1>3, <1>4, <1>5, <1>6, <1>7 DEF Next

(* What was sent stays sent, and what is on the wire was. *)
LEMMA SentStays ==
    ASSUME TypeOK, OneInFlight, [Next]_vars, NEW r \in Requests, outcome[r] \in OnWire
    PROVE  outcome'[r] \in OnWire
<1>1. outcome \in [Requests -> Outcomes]
  BY DEF TypeOK
<1>2. outcome[r] # "none" /\ outcome[r] # "waiting"
  BY DEF OnWire
<1>3. ASSUME queue # <<>>, NEW o \in {"ok", "timeout"},
             ActivateHead(Tail(queue), [outcome EXCEPT ![Head(queue)] = o])
      PROVE  outcome'[r] \in OnWire
  BY <1>3, PromotionFacts DEF OnWire
<1>4. CASE Timeout
  BY <1>4, <1>3 DEF Timeout
<1>5. CASE HandleMessage
  <2>1. CASE ResolveHead(Head(toClient))
    BY <2>1, <1>3 DEF ResolveHead, AnswersHead
  <2> QED BY <1>5, <2>1 DEF HandleMessage, ConsumeAbandonedReply, DispatchSubscriptionPush
<1>6. ASSUME NEW s \in Requests, Issue(s) PROVE outcome'[r] \in OnWire
  <2>1. s # r
    BY <1>2, <1>6 DEF Issue
  <2>2. outcome'[r] = outcome[r]
    BY <1>1, <1>6, <2>1 DEF Issue, ActivateHead
  <2> QED BY <2>2
<1>7. ASSUME NEW s \in Requests, DropQueuedEntry(s) PROVE outcome'[r] \in OnWire
  <2>1. s # r
    BY <1>2, <1>7 DEF DropQueuedEntry, OneInFlight, Off
  <2> QED BY <1>1, <1>7, <2>1 DEF DropQueuedEntry
<1>8. CASE Close
  BY <1>8 DEF Close, OnWire
<1>9. CASE \/ Connect \/ ConsoleHandle \/ LoseRequest \/ LoseReply \/ Tick
           \/ (\E p \in Paths : ConsolePush(p)) \/ UNCHANGED vars
  BY <1>9 DEF Connect, ConsoleHandle, LoseRequest, LoseReply, Tick, ConsolePush, vars, client
<1> QED BY <1>4, <1>5, <1>6, <1>7, <1>8, <1>9 DEF Next

LEMMA ShowWritesPrime ==
    ASSUME TypeOK',
           Shows(toClient', applied', Oks'), Oks' \subseteq applied',
           \A w \in applied' : outcome'[w] \in OnWire,
           \A r \in Requests : after'[r] \subseteq {w \in Oks' : Path[w] = Path[r]}
    PROVE  RepliesShowWrites'
BY DEF RepliesShowWrites, Shows, Oks

LEMMA ShowsLess ==
    ASSUME NEW c, NEW app, NEW oks, Shows(c, app, oks),
           NEW app2, app \subseteq app2, NEW oks2, oks2 \subseteq oks
    PROVE  Shows(c, app2, oks2)
BY DEF Shows

(* Only the acknowledgement at hand adds to what is reported done. *)
LEMMA OksGrow ==
    ASSUME TypeOK, OneInFlight, WireInv, LinkAssumption, [Next]_vars
    PROVE  \/ Oks' \subseteq Oks
           \/ /\ HandleMessage /\ toClient # <<>> /\ Head(toClient).of \in Writes
              /\ Oks' \subseteq Oks \cup {Head(toClient).of}
<1>1. ASSUME NEW w \in Oks', w \notin Oks
      PROVE  /\ HandleMessage /\ ResolveHead(Head(toClient)) /\ w = Head(queue)
             /\ toClient # <<>> /\ w = Head(toClient).of
  <2>1. HandleMessage /\ ResolveHead(Head(toClient)) /\ w = Head(queue)
    BY <1>1, OkByAnswer DEF Oks, Writes
  <2>2. toClient # <<>> /\ AnswersHead(Head(toClient)) /\ Head(queue) \in Writes
    BY <1>1, <2>1 DEF HandleMessage, ResolveHead, Oks
  <2> QED BY <2>1, <2>2, OwnAck
<1>2. Oks' \subseteq Writes
  BY DEF Oks
<1> QED BY <1>1, <1>2

LEMMA ShowsKept ==
    ASSUME TypeOK, TypeOK', OneInFlight, WireInv, LinkAssumption, RepliesShowWrites, [Next]_vars
    PROVE  /\ Shows(toClient', applied', Oks') /\ Oks' \subseteq applied'
           /\ applied \subseteq applied'
<1>1. /\ Shows(toClient, applied, Oks) /\ Oks \subseteq applied
      /\ applied \subseteq Writes /\ applied' \subseteq Writes
      /\ toClient \in Seq(Messages)
  BY ShowWrites DEF TypeOK
<1>2. CASE HandleMessage
  <2>1. toClient # <<>> /\ toClient' = Tail(toClient) /\ applied' = applied
    BY <1>2 DEF HandleMessage
  <2>2. CASE Oks' \subseteq Oks
    BY <1>1, <2>1, <2>2, ShowsTail, ShowsLess
  <2>3. CASE Head(toClient).of \in Writes /\ Oks' \subseteq Oks \cup {Head(toClient).of}
    <3>1. /\ Shows(Tail(toClient), applied, Oks \cup {Head(toClient).of})
          /\ Head(toClient).of \in applied
      BY <1>1, <2>1, <2>3, ShowsTail
    <3>2. Shows(Tail(toClient), applied, Oks')
      BY <2>3, <3>1, ShowsLess
    <3> QED BY <1>1, <2>1, <2>3, <3>1, <3>2
  <2> QED BY <2>2, <2>3, OksGrow
<1>3. ASSUME ~HandleMessage PROVE Oks' \subseteq Oks
  BY <1>3, OksGrow
<1>4. CASE ConsoleHandle
  <2>1. /\ toConsole # <<>> /\ applied \subseteq applied'
        /\ applied' = applied \cup ({Head(toConsole).of} \cap Writes)
        /\ UNCHANGED outcome
    BY <1>4 DEF ConsoleHandle, client
  <2>2. Oks' = Oks
    BY <2>1 DEF Oks
  <2>3. CASE socket = "open"
    <3> DEFINE m == Reply(Head(toConsole), applied')
    <3>1. toClient' = Append(toClient, m)
      BY <1>4, <2>3 DEF ConsoleHandle
    <3>2. m \in Messages /\ Head(toConsole).of \in Requests
      BY <1>1, <2>1, ReplyType
    <3>3. m.of = Head(toConsole).of /\ m.addr = ReplyAddress(m.of)
          /\ m.holds = Holds(Path[m.of], applied')
      BY DEF Reply
    <3>4. m.addr = BulkAck \/ m.holds = Holds(m.addr, applied')
      BY <3>3 DEF ReplyAddress
    <3>5. m.of \in Writes => m.of \in applied'
      BY <2>1, <3>3
    <3> HIDE DEF m
    <3>6. Shows(Append(toClient, m), applied', Oks)
      BY <1>1, <2>1, <3>2, <3>4, <3>5, ShowsAppend
    <3> QED BY <1>1, <2>1, <2>2, <3>1, <3>6
  <2>4. CASE socket # "open"
    BY <1>1, <1>4, <2>1, <2>2, <2>4, ShowsLess DEF ConsoleHandle
  <2> QED BY <2>3, <2>4
<1>5. ASSUME NEW p \in Paths, ConsolePush(p)
      PROVE  Shows(toClient', applied', Oks') /\ applied' = applied /\ Oks' \subseteq applied
  <2> DEFINE m == [of |-> Push, kind |-> Push, addr |-> p, holds |-> Holds(p, applied), age |-> 0]
  <2>1. m \in Messages /\ m.of \notin Writes /\ m.holds = Holds(m.addr, applied)
    BY LimitsAssumption, RequestsAssumption DEF Messages, Holds, TypeOK, Push, Writes
  <2>2. toClient' = Append(toClient, m) /\ applied' = applied /\ UNCHANGED outcome
    BY <1>5 DEF ConsolePush, client
  <2> HIDE DEF m
  <2>3. Shows(Append(toClient, m), applied, Oks)
    BY <1>1, <2>1, ShowsAppend
  <2>4. Oks' = Oks
    BY <2>2 DEF Oks
  <2> QED BY <1>1, <2>2, <2>3, <2>4
<1>6. CASE LoseReply
  <2>1. toClient # <<>> /\ toClient' = Tail(toClient) /\ applied' = applied /\ Oks' = Oks
    BY <1>6 DEF LoseReply, client, Oks
  <2> QED BY <1>1, <2>1, ShowsTail
<1>7. CASE Tick
  <2>1. toClient' = Aged(toClient) /\ applied' = applied /\ Oks' = Oks /\ InTime(toClient)
    BY <1>7 DEF Tick, Oks
  <2>2. Shows(Aged(toClient), applied, Oks)
    <3>1. /\ DOMAIN Aged(toClient) = DOMAIN toClient
          /\ \A i \in DOMAIN toClient :
                /\ Aged(toClient)[i].of = toClient[i].of
                /\ Aged(toClient)[i].addr = toClient[i].addr
                /\ Aged(toClient)[i].holds = toClient[i].holds
      BY <1>1, <2>1, AgedMessages
    <3> QED BY <1>1, <3>1 DEF Shows
  <2> QED BY <1>1, <2>1, <2>2
<1>8. CASE Close
  <2>1. toClient' = <<>> /\ applied' = applied
    BY <1>8 DEF Close
  <2>2. Oks' = Oks
    <3>1. \A r \in Requests : outcome'[r] = CASE outcome[r] = "sent" -> "cut"
                                             [] outcome[r] = "waiting" -> "dropped"
                                             [] OTHER -> outcome[r]
      BY <1>8 DEF Close
    <3>2. \A r \in Requests : outcome'[r] = "ok" <=> outcome[r] = "ok"
      BY <3>1
    <3> QED BY <3>2 DEF Oks, Writes
  <2>3. Shows(<<>>, applied, Oks)
    BY DEF Shows
  <2> QED BY <1>1, <2>1, <2>2, <2>3
<1>9. CASE UNCHANGED <<toClient, applied>> /\ ~HandleMessage
  BY <1>1, <1>3, <1>9, ShowsLess
<1>10. ASSUME NEW s \in Requests, Issue(s) \/ DropQueuedEntry(s)
       PROVE  UNCHANGED <<toClient, applied>>
  BY <1>10 DEF Issue, DropQueuedEntry, network
<1>11. CASE Connect \/ Timeout \/ LoseRequest \/ UNCHANGED vars
  <2>1. UNCHANGED <<toClient, applied>>
    BY <1>11 DEF Connect, Timeout, LoseRequest, vars, network
  <2> QED BY <1>2, <1>9, <2>1
<1> QED BY <1>2, <1>4, <1>5, <1>6, <1>7, <1>8, <1>9, <1>10, <1>11 DEF Next

(* A write takes effect only with its request on the wire. *)
LEMMA AppliedWereSent ==
    ASSUME TypeOK, OneInFlight, WireInv, RepliesShowWrites, [Next]_vars,
           NEW w \in applied'
    PROVE  outcome'[w] \in OnWire
<1>1. CASE w \in applied
  <2>1. w \in Requests /\ outcome[w] \in OnWire
    BY <1>1 DEF RepliesShowWrites, TypeOK, Writes
  <2> QED BY <2>1, SentStays
<1>2. CASE w \notin applied
  <2>1. ConsoleHandle /\ w = Head(toConsole).of /\ toConsole # <<>> /\ w \in Requests
        /\ UNCHANGED outcome
    BY <1>2 DEF Next, vars, network, client, Connect, Close, Issue, DropQueuedEntry, Timeout,
                HandleMessage, ConsoleHandle, LoseRequest, LoseReply, ConsolePush, Tick, Writes
  <2>2. /\ Len(toClient) \in Nat /\ Len(toConsole) \in Nat \ {0}
        /\ Head(toConsole) = toConsole[1]
    BY <2>1, QueueShape, LenProperties DEF TypeOK
  <2>3. Len(toClient) + 1 \in Wire /\ On(Len(toClient) + 1).of = w
    BY <2>1, <2>2 DEF Wire, On
  <2>4. w # Push
    BY <2>1, RequestsAssumption DEF Push
  <2>5. outcome[w] \in OnWire
    BY <2>3, <2>4 DEF WireOK
  <2> QED BY <2>1, <2>5
<1> QED BY <1>1, <1>2

LEMMA AfterKept ==
    ASSUME TypeOK, TypeOK', OneInFlight, RepliesShowWrites, [Next]_vars, NEW r \in Requests
    PROVE  /\ after'[r] \subseteq {w \in Oks' : Path[w] = Path[r]}
           /\ outcome[r] # "none" => after'[r] = after[r]
<1>1. Oks \subseteq Oks'
  <2>1. ASSUME NEW w \in Oks PROVE w \in Writes /\ outcome'[w] = "ok"
    <3>1. w \in Writes /\ w \in Requests /\ outcome[w] = "ok" /\ outcome[w] \in Settled
      BY <2>1 DEF Oks, Writes, Settled
    <3> QED BY <3>1, SettledStays
  <2> QED BY <2>1 DEF Oks
<1>2. after[r] \subseteq {w \in Oks : Path[w] = Path[r]}
  BY ShowWrites
<1>3. ASSUME NEW s \in Requests, Issue(s)
      PROVE  /\ after'[r] \subseteq {w \in Oks : Path[w] = Path[r]}
             /\ outcome[r] # "none" => after'[r] = after[r]
  <2>1. /\ outcome[s] = "none"
        /\ after' = [after EXCEPT ![s] = {w \in Writes : outcome[w] = "ok" /\ Path[w] = Path[s]}]
    BY <1>3 DEF Issue
  <2>2. CASE s = r
    <3>1. after'[r] = {w \in Writes : outcome[w] = "ok" /\ Path[w] = Path[r]}
      BY <2>1, <2>2 DEF TypeOK
    <3> QED BY <2>1, <2>2, <3>1 DEF Oks
  <2>3. CASE s # r
    <3>1. after'[r] = after[r]
      BY <2>1, <2>3 DEF TypeOK
    <3> QED BY <1>2, <3>1
  <2> QED BY <2>2, <2>3
<1>4. CASE ~ \E s \in Requests : Issue(s)
  <2>1. after' = after
    BY <1>4 DEF Next, vars, network, client, Connect, Close, DropQueuedEntry, Timeout,
                HandleMessage, ConsoleHandle, LoseRequest, LoseReply, ConsolePush, Tick
  <2> QED BY <1>1, <1>2, <2>1
<1> QED BY <1>1, <1>3, <1>4

LEMMA AnswersNext ==
    ASSUME TypeOK, TypeOK', IInv, LinkAssumption, [Next]_vars
    PROVE  RepliesShowWrites' /\ ReadYourWrites' /\ NoForeignAck'
<1>1. OneInFlight /\ WireInv /\ RepliesShowWrites /\ ReadYourWrites /\ NoForeignAck
  BY DEF IInv
<1>2. RepliesShowWrites'
  <2>1. \A w \in applied' : outcome'[w] \in OnWire
    BY <1>1, AppliedWereSent
  <2>2. \A r \in Requests : after'[r] \subseteq {w \in Oks' : Path[w] = Path[r]}
    BY <1>1, AfterKept
  <2> QED BY <1>1, <2>1, <2>2, ShowsKept, ShowWritesPrime
<1>3. ASSUME NEW r \in Requests, r \in Reads, outcome'[r] = "ok"
      PROVE  after'[r] \subseteq answer'[r].holds
  <2>1. CASE outcome[r] = "ok" /\ answer'[r] = answer[r]
    <3>1. after'[r] = after[r]
      BY <1>1, <2>1, AfterKept
    <3> QED BY <1>1, <1>3, <2>1, <3>1 DEF ReadYourWrites
  <2>2. CASE /\ HandleMessage /\ ResolveHead(Head(toClient))
             /\ r = Head(queue) /\ answer'[r] = Head(toClient)
    <3>1. toClient # <<>> /\ queue # <<>> /\ after' = after /\ Head(toClient).addr = Path[r]
      BY <1>3, <2>2 DEF HandleMessage, ResolveHead, AnswersHead, Matches, ReplyAddress, Reads
    <3>2. after[r] \subseteq {w \in Oks : Path[w] = Path[r]} /\ Shows(toClient, applied, Oks)
      BY <1>1, ShowWrites
    <3>3. toClient \in Seq(Messages)
      BY DEF TypeOK
    <3>4. \A w \in Oks : Head(toClient).addr = Path[w] => w \in Head(toClient).holds
      BY <3>1, <3>2, <3>3, ShowsTail
    <3> QED BY <2>2, <3>1, <3>2, <3>4
  <2> QED BY <1>1, <1>3, <2>1, <2>2, OkByAnswer
<1>4. ASSUME NEW w \in Writes, outcome'[w] = "ok"
      PROVE  answer'[w].of = w
  <2>1. w \in Requests
    BY DEF Writes
  <2>2. CASE outcome[w] = "ok" /\ answer'[w] = answer[w]
    BY <1>1, <2>2 DEF NoForeignAck
  <2>3. CASE /\ HandleMessage /\ ResolveHead(Head(toClient))
             /\ w = Head(queue) /\ answer'[w] = Head(toClient)
    <3>1. toClient # <<>> /\ AnswersHead(Head(toClient))
      BY <2>3 DEF HandleMessage, ResolveHead
    <3>2. Head(toClient).of = Head(queue)
      BY <1>1, <2>3, <3>1, OwnAck
    <3> QED BY <2>3, <3>2
  <2> QED BY <1>1, <1>4, <2>1, <2>2, <2>3, OkByAnswer
<1> QED BY <1>2, <1>3, <1>4 DEF ReadYourWrites, NoForeignAck

LEMMA InitIInv == Init => IInv
<1> SUFFICES ASSUME Init PROVE IInv
  OBVIOUS
<1>1. /\ OneInFlight /\ socket = "unopened" /\ queue = <<>> /\ toClient = <<>> /\ toConsole = <<>>
      /\ applied = {} /\ grace = [w \in Writes |-> 0] /\ after = [r \in Requests |-> {}]
      /\ outcome = [r \in Requests |-> "none"]
  BY InitInOrder DEF Init
<1>2. Wire = {} /\ DOMAIN toClient = {} /\ Live = {}
  BY <1>1 DEF Wire, Live
<1>3. \A r \in Requests : outcome[r] = "none" /\ after[r] = {}
  BY <1>1
<1>4. \A w \in Writes : outcome[w] = "none"
  BY <1>3 DEF Writes
<1>5. WireOK /\ AddressesOK /\ SocketOK /\ HeadIsLast /\ GraceCoversDelay /\ LateInOrder /\ GraceApart
  BY <1>1, <1>2, <1>3 DEF WireOK, AddressesOK, SocketOK, HeadIsLast, GraceCoversDelay, LateInOrder,
                          GraceApart
<1>6. RepliesShowWrites
  BY <1>1, <1>2, <1>3, <1>4 DEF RepliesShowWrites
<1>7. NoForeignAck /\ ReadYourWrites
  BY <1>3, <1>4 DEF NoForeignAck, ReadYourWrites
<1> QED BY <1>1, <1>5, <1>6, <1>7 DEF IInv

LEMMA NextIInv == TypeOK /\ TypeOK' /\ LinkAssumption /\ IInv /\ [Next]_vars => IInv'
<1> SUFFICES ASSUME TypeOK, TypeOK', LinkAssumption, IInv, [Next]_vars PROVE IInv'
  OBVIOUS
<1>1. OneInFlight /\ WireInv
  BY DEF IInv
<1>2. OneInFlight' /\ WireInv'
  BY <1>1, NextInOrder, WireInvNext
<1>3. RepliesShowWrites' /\ ReadYourWrites' /\ NoForeignAck'
  BY AnswersNext
<1> QED BY <1>2, <1>3 DEF IInv

(* On a link no slower than timeout and grace period together the client   *)
(* keeps the wire, the abandoned list and the answers in step.             *)
THEOREM AcksStayInStep == LinkAssumption => (Spec => []IInv)
<1> SUFFICES ASSUME LinkAssumption PROVE Spec => []IInv
  OBVIOUS
<1>1. TypeOK /\ TypeOK' /\ IInv /\ [Next]_vars => IInv'
  BY NextIInv
<1> QED BY <1>1, InitIInv, TypeCorrect, PTL DEF Spec

(* No write is ever resolved by the acknowledgement of another write.      *)
THEOREM OwnAcksOnly == LinkAssumption => (Spec => []NoForeignAck)
<1> SUFFICES ASSUME LinkAssumption PROVE Spec => []NoForeignAck
  OBVIOUS
<1>1. IInv => NoForeignAck
  BY DEF IInv
<1> QED BY <1>1, AcksStayInStep, PTL

(* A read shows every write to its path reported done before it was made.  *)
THEOREM ReadsSeeWrites == LinkAssumption => (Spec => []ReadYourWrites)
<1> SUFFICES ASSUME LinkAssumption PROVE Spec => []ReadYourWrites
  OBVIOUS
<1>1. IInv => ReadYourWrites
  BY DEF IInv
<1> QED BY <1>1, AcksStayInStep, PTL

-----------------------------------------------------------------------------
(* The client implements its contract.                                     *)

Told == [r \in Requests |-> Status(r)]

LEMMA Statuses ==
    ASSUME TypeOK, NEW r \in Requests
    PROVE  /\ Told[r] \in Contract!Statuses
           /\ outcome[r] = "none" <=> Told[r] = "none"
           /\ outcome[r] \in Waiting <=> Told[r] = "pending"
           /\ outcome[r] \in Unsent <=> Told[r] = "refused"
           /\ outcome[r] \in Unknown <=> Told[r] = "unknown"
           /\ outcome[r] = "ok" <=> Told[r] = "done"
<1>1. outcome[r] \in Outcomes /\ Told[r] = Status(r)
  BY DEF TypeOK, Told
<1>2. outcome[r] = "none" => Status(r) = "none"
  BY DEF Status, Waiting, Unsent, Unknown
<1>3. outcome[r] \in Waiting => Status(r) = "pending"
  BY DEF Status, Waiting, Unsent, Unknown
<1>4. outcome[r] \in Unsent => Status(r) = "refused"
  BY DEF Status, Waiting, Unsent, Unknown
<1>5. outcome[r] \in Unknown => Status(r) = "unknown"
  BY DEF Status, Waiting, Unsent, Unknown
<1>6. outcome[r] = "ok" => Status(r) = "done"
  BY DEF Status, Waiting, Unsent, Unknown
<1>7. \/ outcome[r] = "none" \/ outcome[r] \in Waiting \/ outcome[r] \in Unsent
      \/ outcome[r] \in Unknown \/ outcome[r] = "ok"
  BY <1>1 DEF Outcomes, Settled
<1> QED BY <1>1, <1>2, <1>3, <1>4, <1>5, <1>6, <1>7 DEF Contract!Statuses

(* The same for the state after a step. *)
LEMMA StatusesPrime ==
    ASSUME TypeOK', NEW r \in Requests
    PROVE  /\ Told'[r] \in Contract!Statuses
           /\ outcome'[r] = "none" <=> Told'[r] = "none"
           /\ outcome'[r] \in Waiting <=> Told'[r] = "pending"
           /\ outcome'[r] \in Unsent <=> Told'[r] = "refused"
           /\ outcome'[r] \in Unknown <=> Told'[r] = "unknown"
           /\ outcome'[r] = "ok" <=> Told'[r] = "done"
<1>1. outcome'[r] \in Outcomes /\ Told'[r] = Status(r)'
  BY DEF TypeOK, Told
<1>2. outcome'[r] = "none" => Status(r)' = "none"
  BY DEF Status, Waiting, Unsent, Unknown
<1>3. outcome'[r] \in Waiting => Status(r)' = "pending"
  BY DEF Status, Waiting, Unsent, Unknown
<1>4. outcome'[r] \in Unsent => Status(r)' = "refused"
  BY DEF Status, Waiting, Unsent, Unknown
<1>5. outcome'[r] \in Unknown => Status(r)' = "unknown"
  BY DEF Status, Waiting, Unsent, Unknown
<1>6. outcome'[r] = "ok" => Status(r)' = "done"
  BY DEF Status, Waiting, Unsent, Unknown
<1>7. \/ outcome'[r] = "none" \/ outcome'[r] \in Waiting \/ outcome'[r] \in Unsent
      \/ outcome'[r] \in Unknown \/ outcome'[r] = "ok"
  BY <1>1 DEF Outcomes, Settled
<1> QED BY <1>1, <1>2, <1>3, <1>4, <1>5, <1>6, <1>7 DEF Contract!Statuses

(* One request changes its status, as the contract allows.                 *)
LEMMA OneStatus ==
    ASSUME TypeOK, TypeOK', NEW h \in Requests, UNCHANGED applied,
           \A r \in Requests : r # h => Told'[r] = Told[r],
           \/ Told[h] = "none" /\ Told'[h] \in {"pending", "refused"}
           \/ Told[h] = "pending" /\ Contract!Ending(h, Told'[h])
    PROVE  Contract!Next
<1>1. Told' = [Told EXCEPT ![h] = Told'[h]] /\ Told'[h] \in Contract!Statuses
  BY StatusesPrime DEF Told
<1>2. Told = [r \in Requests |-> Status(r)] /\ Told' = [r \in Requests |-> Status(r)]'
  BY DEF Told
<1> HIDE DEF Told
<1>3. Contract!Call(h) \/ Contract!Settle(h)
  BY <1>1, <1>2 DEF Contract!Call, Contract!Settle
<1> QED BY <1>3 DEF Contract!Next

LEMMA SameStatuses ==
    ASSUME UNCHANGED <<outcome, applied>>
    PROVE  UNCHANGED Contract!vars
BY DEF Contract!vars, Status

(* The head is settled and the request behind it promoted. *)
LEMMA PromotionAllowed ==
    ASSUME TypeOK, TypeOK', OneInFlight, UNCHANGED applied, queue # <<>>,
           NEW o \in {"ok", "timeout"},
           ActivateHead(Tail(queue), [outcome EXCEPT ![Head(queue)] = o]),
           o = "ok" /\ Head(queue) \in Writes => Head(queue) \in applied
    PROVE  Contract!Next
<1> DEFINE h == Head(queue)
<1>1. /\ h \in Requests /\ outcome[h] = "sent" /\ outcome'[h] = o
      /\ \A r \in Requests : r # h =>
            outcome'[r] = outcome[r] \/ (outcome[r] = "waiting" /\ outcome'[r] = "sent")
  BY PromotionFacts
<1>2. Told[h] = "pending"
  BY <1>1, Statuses DEF Waiting
<1>3. ASSUME NEW r \in Requests, r # h PROVE Told'[r] = Told[r]
  <2>1. CASE outcome'[r] = outcome[r]
    BY <2>1 DEF Told, Status
  <2>2. CASE outcome[r] = "waiting" /\ outcome'[r] = "sent"
    BY <2>2, Statuses, StatusesPrime DEF Waiting
  <2> QED BY <1>1, <1>3, <2>1, <2>2
<1>4. Contract!Ending(h, Told'[h])
  <2>1. CASE o = "ok"
    <3>1. Told'[h] = "done"
      BY <1>1, <2>1, StatusesPrime
    <3> QED BY <2>1, <3>1 DEF Contract!Ending
  <2>2. CASE o = "timeout"
    <3>1. Told'[h] = "unknown"
      BY <1>1, <2>2, StatusesPrime DEF Unknown
    <3> QED BY <3>1 DEF Contract!Ending
  <2> QED BY <2>1, <2>2
<1> HIDE DEF h
<1> QED BY <1>1, <1>2, <1>3, <1>4, OneStatus

LEMMA CloseAllowed ==
    ASSUME TypeOK, TypeOK', RepliesShowWrites, Close
    PROVE  Contract!Next
<1>1. /\ UNCHANGED applied
      /\ \A r \in Requests : outcome'[r] = CASE outcome[r] = "sent" -> "cut"
                                             [] outcome[r] = "waiting" -> "dropped"
                                             [] OTHER -> outcome[r]
  BY DEF Close
<1>2. ASSUME NEW r \in Requests
      PROVE  IF Told[r] = "pending" THEN Told'[r] # "done" /\ Contract!Ending(r, Told'[r])
                                    ELSE Told'[r] = Told[r]
  <2>1. CASE outcome[r] = "sent"
    <3>1. Told[r] = "pending" /\ Told'[r] = "unknown"
      BY <1>1, <2>1, Statuses, StatusesPrime DEF Waiting, Unknown
    <3> QED BY <3>1 DEF Contract!Ending
  <2>2. CASE outcome[r] = "waiting"
    <3>1. Told[r] = "pending" /\ Told'[r] = "refused"
      BY <1>1, <2>2, Statuses, StatusesPrime DEF Waiting, Unsent
    <3>2. r \notin applied
      BY <2>2 DEF RepliesShowWrites, OnWire
    <3> QED BY <3>1, <3>2 DEF Contract!Ending
  <2>3. CASE outcome[r] \notin Waiting
    <3>1. outcome'[r] = outcome[r] /\ Told[r] # "pending"
      BY <1>1, <2>3, Statuses DEF Waiting
    <3> QED BY <3>1 DEF Told, Status
  <2> QED BY <2>1, <2>2, <2>3 DEF Waiting
<1>3. Told' \in [Requests -> Contract!Statuses] /\ Told = [r \in Requests |-> Status(r)]
      /\ Told' = [r \in Requests |-> Status(r)]'
  BY StatusesPrime DEF Told
<1> HIDE DEF Told
<1>4. Contract!SettleAll
  BY <1>1, <1>2, <1>3 DEF Contract!SettleAll
<1> QED BY <1>4 DEF Contract!Next

LEMMA StepAllowed ==
    ASSUME TypeOK, TypeOK', IInv, IInv', [Next]_vars
    PROVE  [Contract!Next]_(Contract!vars)
<1>1. OneInFlight /\ WireOK /\ RepliesShowWrites /\ RepliesShowWrites'
  BY DEF IInv
<1>2. CASE UNCHANGED <<outcome, applied>>
  BY <1>2, SameStatuses
<1>3. ASSUME NEW s \in Requests, Issue(s) PROVE Contract!Next
  <2>1. /\ outcome[s] = "none" /\ UNCHANGED applied
        /\ outcome'[s] \in Waiting \cup Unsent
        /\ \A r \in Requests : r # s => outcome'[r] = outcome[r]
    BY <1>3 DEF Issue, ActivateHead, TypeOK, Waiting, Unsent
  <2>2. \A r \in Requests : r # s => Told'[r] = Told[r]
    BY <2>1 DEF Told, Status
  <2>3. Told[s] = "none" /\ Told'[s] \in {"pending", "refused"}
    BY <2>1, Statuses, StatusesPrime
  <2> QED BY <2>1, <2>2, <2>3, OneStatus
<1>4. ASSUME NEW s \in Requests, DropQueuedEntry(s) PROVE Contract!Next
  <2>1. /\ outcome[s] = "waiting" /\ UNCHANGED applied /\ outcome'[s] = "expired"
        /\ \A r \in Requests : r # s => outcome'[r] = outcome[r]
    BY <1>1, <1>4 DEF DropQueuedEntry, TypeOK, OneInFlight, Off
  <2>2. \A r \in Requests : r # s => Told'[r] = Told[r]
    BY <2>1 DEF Told, Status
  <2>3. Told[s] = "pending" /\ Told'[s] = "refused"
    BY <2>1, Statuses, StatusesPrime DEF Waiting, Unsent
  <2>4. s \notin applied
    BY <1>1, <2>1 DEF RepliesShowWrites, OnWire
  <2>5. Contract!Ending(s, Told'[s])
    BY <2>3, <2>4 DEF Contract!Ending
  <2> QED BY <2>1, <2>2, <2>3, <2>5, OneStatus
<1>5. CASE Timeout
  <2>1. queue # <<>> /\ ActivateHead(Tail(queue), [outcome EXCEPT ![Head(queue)] = "timeout"])
        /\ UNCHANGED applied
    BY <1>5 DEF Timeout
  <2> QED BY <1>1, <2>1, PromotionAllowed
<1>6. CASE HandleMessage /\ ResolveHead(Head(toClient))
  <2>1. queue # <<>> /\ ActivateHead(Tail(queue), [outcome EXCEPT ![Head(queue)] = "ok"])
        /\ UNCHANGED applied
    BY <1>6 DEF HandleMessage, ResolveHead, AnswersHead
  <2>2. Head(queue) \in Writes => Head(queue) \in applied
    <3>1. outcome'[Head(queue)] = "ok"
      BY <2>1, <1>1, PromotionFacts
    <3> QED BY <1>1, <2>1, <3>1 DEF RepliesShowWrites
  <2> QED BY <1>1, <2>1, <2>2, PromotionAllowed
<1>7. CASE Close
  BY <1>1, <1>7, CloseAllowed
<1>8. CASE ConsoleHandle
  <2> DEFINE w == Head(toConsole).of
  <2>1. /\ UNCHANGED outcome /\ applied' = applied \cup ({w} \cap Writes) /\ toConsole # <<>>
    BY <1>8 DEF ConsoleHandle, client
  <2>2. CASE w \notin Writes \/ w \in applied
    BY <1>2, <2>1, <2>2
  <2>3. CASE w \in Writes /\ w \notin applied
    <3>1. w \in Requests
      BY <2>3 DEF Writes
    <3>2. /\ Len(toClient) \in Nat /\ Len(toConsole) \in Nat \ {0}
          /\ Head(toConsole) = toConsole[1]
      BY <2>1, QueueShape, LenProperties DEF TypeOK
    <3>3. Len(toClient) + 1 \in Wire /\ On(Len(toClient) + 1).of = w
      BY <3>2 DEF Wire, On
    <3>4. w # Push
      BY <3>1, RequestsAssumption DEF Push
    <3>5. outcome[w] \in OnWire /\ outcome[w] # "ok"
      BY <1>1, <2>3, <3>3, <3>4 DEF WireOK
    <3>6. Status(w) \in {"pending", "unknown"}
      <4>1. Told[w] \in {"pending", "unknown"}
        BY <3>1, <3>5, Statuses DEF OnWire, Waiting, Unknown
      <4> QED BY <3>1, <4>1 DEF Told
    <3>7. UNCHANGED [r \in Requests |-> Status(r)]
      BY <2>1 DEF Status
    <3> HIDE DEF w
    <3>8. Contract!Apply(w)
      BY <2>1, <2>3, <3>1, <3>6, <3>7 DEF Contract!Apply
    <3> QED BY <2>3, <3>8 DEF Contract!Next
  <2> QED BY <2>2, <2>3
<1>9. CASE \/ HandleMessage /\ ~ResolveHead(Head(toClient))
           \/ Connect \/ LoseRequest \/ LoseReply \/ Tick
           \/ (\E p \in Paths : ConsolePush(p)) \/ UNCHANGED vars
  <2>1. UNCHANGED <<outcome, applied>>
    BY <1>9 DEF HandleMessage, ConsumeAbandonedReply, DispatchSubscriptionPush,
                Connect, LoseRequest, LoseReply, Tick, ConsolePush, vars, client
  <2> QED BY <1>2, <2>1
<1> QED BY <1>3, <1>4, <1>5, <1>6, <1>7, <1>8, <1>9 DEF Next

(* The client implements RequestContract: a write reported done has been   *)
(* applied, one refused as never sent never is, and every call settles in  *)
(* one of the ways the contract names.                                     *)
THEOREM ClientKeepsContract == LinkAssumption => (Spec => ImplementsContract)
<1> SUFFICES ASSUME LinkAssumption PROVE Spec => ImplementsContract
  OBVIOUS
<1>1. Init => Contract!Init
  <2> SUFFICES ASSUME Init PROVE Contract!Init
    OBVIOUS
  <2>1. applied = {} /\ \A r \in Requests : Status(r) = "none"
    BY DEF Init, Status, Waiting, Unsent, Unknown
  <2> QED BY <2>1 DEF Contract!Init
<1>2. TypeOK /\ TypeOK' /\ IInv /\ IInv' /\ [Next]_vars => [Contract!Next]_(Contract!vars)
  BY StepAllowed
<1> QED BY <1>1, <1>2, TypeCorrect, AcksStayInStep, PTL DEF Spec, ImplementsContract, Contract!Spec
=============================================================================
