----------------------------- MODULE Access_proofs -----------------------------
(* What is proved of the credentials and of the gateway. *)
EXTENDS Credentials, McpGateway, SequenceTheorems, FiniteSetTheorems, TLAPS

-----------------------------------------------------------------------------
(* Credentials *)

Ids(d) == Held(d.grants) \cup Held(d.sessions)

(* Every number in use was given out. *)
FreshIn(d) == d.clients \subseteq 0..fresh /\ d.keys \subseteq 0..fresh /\ Ids(d) \subseteq 0..fresh
FreshInv ==
    /\ FreshIn(Memory) /\ FreshIn(file) /\ (taken # None => FreshIn(taken))
    /\ Held(challenges) \subseteq 0..fresh
    /\ \A n \in 1..Len(calls) : calls[n].made \in 0..fresh /\ calls[n].gone \subseteq 0..fresh /\ calls[n].using \in 0..fresh
    /\ \A i \in 1..(MaxFresh + MaxCalls) : heirs[i] # {} => i <= fresh

(* Owners: in memory, in the file and in what is being written. *)
OwnedIn(d) ==
    /\ \A g \in d.grants : g.owner \in d.clients \/ g.id \in late
    /\ \A s \in d.sessions : s.owner \in d.keys \/ s.id \in late
Forgetting(n) == calls[n].op = "forget" /\ calls[n].at = "ending"
OwnersInv ==
    /\ OwnedIn(Memory) /\ OwnedIn(file) /\ (taken # None => OwnedIn(taken))
    /\ \A n \in 1..Len(calls) : Forgetting(n) => \A g \in grants : g.owner = calls[n].arg => g.id \in late

(* Whose save is being written. *)
Writer == IF taken = None THEN 0 ELSE Head(writes)

(* Promises: what is told is in all three, what ended in none; what a call  *)
(* under way made or ended is already so in what is written for it.         *)
KeptIn(d) ==
    /\ Held(d.grants) \cap Held(d.sessions) = {}
    /\ promised \subseteq Ids(d) /\ ended \cap Ids(d) = {}
PromisesInv ==
    /\ KeptIn(Memory) /\ KeptIn(file) /\ (taken # None => KeptIn(taken)) /\ ended \subseteq 0..fresh
    /\ \A n \in 1..Len(calls) : ~Over(n) => calls[n].gone \cap Ids(Memory) = {}
    /\ Writer # 0 /\ ~Over(Writer) =>
          /\ calls[Writer].gone \cap Ids(taken) = {}
          /\ calls[Writer].made \in Ids(Memory) => calls[Writer].made \in Ids(taken)

(* What was bought with is nowhere left to buy with: not a grant in memory, *)
(* in the file or in what is written, not a challenge, not in a call that   *)
(* is still to make something.                                              *)
Refreshing(n) == calls[n].op = "refresh" /\ calls[n].at = "ending"
LoggingIn(n) == calls[n].op = "login" /\ calls[n].at = "noting"
MayBuy(i) ==
    \/ i \in Held(grants) \cup Held(file.grants) \/ (taken # None /\ i \in Held(taken.grants))
    \/ \E n \in 1..Len(calls) : Refreshing(n) /\ calls[n].using = i
Challenged(i) ==
    \/ i \in Held(challenges)
    \/ \E n \in 1..Len(calls) : LoggingIn(n) /\ calls[n].using = i
BoughtOnce ==
    /\ SpentOnce
    /\ \A i \in 1..(MaxFresh + MaxCalls) : heirs[i] # {} => ~MayBuy(i) /\ ~Challenged(i)
    /\ \A i \in Nat : ~(MayBuy(i) /\ Challenged(i))
SpendersApart ==
    /\ \A n \in 1..Len(calls) : Refreshing(n) => calls[n].using \notin Held(grants)
    /\ \A n \in 1..Len(calls) : LoggingIn(n) => calls[n].using \notin Held(challenges)
    /\ \A n, m \in 1..Len(calls) : calls[n].using = calls[m].using /\ Refreshing(n) /\ Refreshing(m) => n = m
    /\ \A n, m \in 1..Len(calls) : calls[n].using = calls[m].using /\ LoggingIn(n) /\ LoggingIn(m) => n = m
    /\ Writer # 0 /\ Refreshing(Writer) => calls[Writer].using \notin Held(taken.grants)
SpentInv == BoughtOnce /\ SpendersApart

-----------------------------------------------------------------------------
(* How the calls and the queue of writes change. *)

Ops == {"register", "exchange", "refresh", "revoke", "forget", "login", "approve", "addKey", "dropKey", "logout"}
Stages == {"verifying", "noting", "ending", "saving", "done", "failed", "lost"}

LEMMA CallsAre ==
    ASSUME TypeOK
    PROVE  /\ Len(calls) \in Nat /\ DOMAIN calls = 1..Len(calls)
           /\ \A n \in 1..Len(calls) : calls[n] \in Call /\ calls[n].op \in Ops /\ calls[n].at \in Stages
                 /\ calls[n].arg \in Nat /\ calls[n].using \in Nat /\ calls[n].made \in Nat /\ calls[n].gone \subseteq Nat
<1>1. calls \in Seq(Call)
  BY DEF TypeOK
<1>2. \A n \in 1..Len(calls) : calls[n] \in Call
  BY <1>1, ElementOfSeq
<1>3. QED
  BY <1>1, <1>2, LenProperties DEF Call, Ops, Stages

LEMMA CallBegins ==
    ASSUME TypeOK, NEW op \in Ops, NEW arg \in Nat, NEW using \in Nat, NEW mk \in Nat, NEW gone \in SUBSET Nat,
           NEW at \in Stages, Begun(op, arg, using, mk, gone, at)
    PROVE  /\ calls' \in Seq(Call) /\ Len(calls') = Len(calls) + 1
           /\ \A n \in 1..Len(calls) : calls'[n] = calls[n]
           /\ calls'[Len(calls) + 1].op = op /\ calls'[Len(calls) + 1].arg = arg
           /\ calls'[Len(calls) + 1].using = using /\ calls'[Len(calls) + 1].made = mk
           /\ calls'[Len(calls) + 1].gone = gone /\ calls'[Len(calls) + 1].at = at
<1> DEFINE c == [op |-> op, arg |-> arg, using |-> using, made |-> mk, gone |-> gone, at |-> at]
<1>1. c \in Call
  BY DEF Call, Ops, Stages
<1>2. calls \in Seq(Call) /\ calls' = Append(calls, c)
  BY DEF TypeOK, Begun
<1>3. c.op = op /\ c.arg = arg /\ c.using = using /\ c.made = mk /\ c.gone = gone /\ c.at = at
  OBVIOUS
<1> HIDE DEF c
<1>4. QED
  BY <1>1, <1>2, <1>3

(* Replacing an element of a sequence leaves the others. *)
LEMMA OneReplaced ==
    ASSUME NEW S, NEW q \in Seq(S), NEW n \in 1..Len(q), NEW c \in S, NEW r, r = [q EXCEPT ![n] = c]
    PROVE  r \in Seq(S) /\ Len(r) = Len(q) /\ r[n] = c /\ \A m \in 1..Len(q) : m # n => r[m] = q[m]
  BY ExceptSeq

LEMMA CallGoesOn ==
    ASSUME TypeOK, NEW n \in 1..Len(calls), NEW at \in Stages, Ends(n, at)
    PROVE  /\ calls' \in Seq(Call) /\ Len(calls') = Len(calls)
           /\ \A m \in 1..Len(calls) : m # n => calls'[m] = calls[m]
           /\ calls'[n].op = calls[n].op /\ calls'[n].arg = calls[n].arg /\ calls'[n].using = calls[n].using
           /\ calls'[n].made = calls[n].made /\ calls'[n].gone = calls[n].gone /\ calls'[n].at = at
<1> DEFINE c == [calls[n] EXCEPT !.at = at]
<1>1. calls[n] \in Call /\ calls \in Seq(Call)
  BY CallsAre DEF TypeOK
<1>2. c \in Call
  BY <1>1 DEF Call, Stages
<1>3. c.op = calls[n].op /\ c.arg = calls[n].arg /\ c.using = calls[n].using
      /\ c.made = calls[n].made /\ c.gone = calls[n].gone /\ c.at = at
  BY <1>1 DEF Call
<1>4. calls' = [calls EXCEPT ![n] = c]
  BY <1>1 DEF Ends
<1> HIDE DEF c
<1>5. QED
  <2>1. /\ calls' \in Seq(Call) /\ Len(calls') = Len(calls) /\ calls'[n] = c
        /\ \A m \in 1..Len(calls) : m # n => calls'[m] = calls[m]
    BY ONLY <1>1, <1>2, <1>4, n \in 1..Len(calls), OneReplaced
  <2>2. QED
    BY <1>3, <2>1

LEMMA CallMakes ==
    ASSUME TypeOK, NEW n \in 1..Len(calls), calls' = [calls EXCEPT ![n].at = "saving", ![n].made = fresh + 1]
    PROVE  /\ calls' \in Seq(Call) /\ Len(calls') = Len(calls)
           /\ \A m \in 1..Len(calls) : m # n => calls'[m] = calls[m]
           /\ calls'[n].op = calls[n].op /\ calls'[n].arg = calls[n].arg /\ calls'[n].using = calls[n].using
           /\ calls'[n].made = fresh + 1 /\ calls'[n].gone = calls[n].gone /\ calls'[n].at = "saving"
<1> DEFINE b == [calls[n] EXCEPT !.at = "saving"]
           c == [b EXCEPT !.made = fresh + 1]
<1>1. calls[n] \in Call /\ calls \in Seq(Call) /\ fresh + 1 \in Nat
  BY CallsAre DEF TypeOK
<1>2. b \in Call
  BY <1>1 DEF Call
<1>3. b.op = calls[n].op /\ b.arg = calls[n].arg /\ b.using = calls[n].using /\ b.gone = calls[n].gone /\ b.at = "saving"
  BY <1>1 DEF Call
<1>4. c \in Call
  <2> HIDE DEF b
  <2>1. QED
    BY <1>1, <1>2 DEF Call
<1>5. c.op = b.op /\ c.arg = b.arg /\ c.using = b.using /\ c.made = fresh + 1 /\ c.gone = b.gone /\ c.at = b.at
  <2> HIDE DEF b
  <2>1. QED
    BY <1>1, <1>2 DEF Call
<1>6. calls' = [calls EXCEPT ![n] = c]
  BY <1>1
<1> HIDE DEF b, c
<1>7. QED
  <2>1. /\ calls' \in Seq(Call) /\ Len(calls') = Len(calls) /\ calls'[n] = c
        /\ \A m \in 1..Len(calls) : m # n => calls'[m] = calls[m]
    BY ONLY <1>1, <1>4, <1>6, n \in 1..Len(calls), OneReplaced
  <2>2. c.op = calls[n].op /\ c.arg = calls[n].arg /\ c.using = calls[n].using /\ c.gone = calls[n].gone /\ c.at = "saving"
    BY <1>3, <1>5
  <2>3. QED
    BY <1>5, <2>1, <2>2

(* A restart loses what was under way. *)
LEMMA CallsAreLost ==
    ASSUME TypeOK, Restart
    PROVE  /\ calls' \in Seq(Call) /\ Len(calls') = Len(calls)
           /\ \A n \in 1..Len(calls) :
                 /\ calls'[n].op = calls[n].op /\ calls'[n].arg = calls[n].arg /\ calls'[n].using = calls[n].using
                 /\ calls'[n].made = calls[n].made /\ calls'[n].gone = calls[n].gone
                 /\ calls'[n].at \in {"done", "failed", "lost"}
<1> DEFINE c(n) == IF Over(n) THEN calls[n] ELSE [calls[n] EXCEPT !.at = "lost"]
<1>1. Len(calls) \in Nat /\ DOMAIN calls = 1..Len(calls) /\ \A n \in 1..Len(calls) : calls[n] \in Call
  BY CallsAre
<1>2. ASSUME NEW n \in 1..Len(calls)
      PROVE  /\ c(n) \in Call /\ c(n).op = calls[n].op /\ c(n).arg = calls[n].arg /\ c(n).using = calls[n].using
             /\ c(n).made = calls[n].made /\ c(n).gone = calls[n].gone /\ c(n).at \in {"done", "failed", "lost"}
  <2>1. CASE Over(n)
    BY <1>1, <2>1 DEF Over
  <2>2. CASE ~Over(n)
    BY <1>1, <2>2 DEF Call
  <2>3. QED
    BY <2>1, <2>2
<1>3. calls' = [n \in 1..Len(calls) |-> c(n)]
  BY <1>1 DEF Restart
<1> HIDE DEF c
<1>4. QED
  BY <1>1, <1>2, <1>3

(* The call a write is for is one of those there are. *)
LEMMA QueueIs ==
    ASSUME TypeOK, writes # <<>>
    PROVE  /\ Head(writes) \in 0..Len(calls) /\ Tail(writes) \in Seq(0..Len(calls))
           /\ Head(writes) # 0 => Head(writes) \in 1..Len(calls)
  BY CallsAre DEF TypeOK

LEMMA WithoutIsLess ==
    ASSUME NEW set, NEW gone
    PROVE  Without(set, gone) \subseteq set /\ \A x \in set : x \in Without(set, gone) <=> x.id \notin gone
  BY DEF Without

LEMMA OldestAreThere ==
    ASSUME NEW n, NEW ids
    PROVE  OldestOf(n, ids) \subseteq ids /\ AllBut(n, ids) \subseteq ids
  BY DEF OldestOf, AllBut

LEMMA IssueTypes ==
    ASSUME TypeOK, NEW c \in Nat, NEW old \in Nat, Issue(c, old)
    PROVE  /\ grants' \subseteq Owned /\ fresh' \in Nat /\ promised' \subseteq Nat /\ late' \subseteq Nat
           /\ heirs' \in [1..(MaxFresh + MaxCalls) -> SUBSET Nat]
<1>1. [id |-> fresh + 1, owner |-> c] \in Owned /\ fresh + 1 \in Nat
  BY DEF TypeOK, Owned
<1>2. grants' \subseteq Owned /\ fresh' \in Nat /\ promised' \subseteq Nat
  BY <1>1 DEF TypeOK, Issue, Without, Forgets
<1>3. heirs' \in [1..(MaxFresh + MaxCalls) -> SUBSET Nat]
  BY <1>1 DEF TypeOK, Issue, Makes
<1>4. late' \subseteq Nat
  BY <1>1 DEF TypeOK, Issue, Orphan
<1>5. QED
  BY <1>2, <1>3, <1>4

LEMMA SessionTypes ==
    ASSUME TypeOK, NEW k \in Nat, NEW challenge \in Nat, OpenSession(k, challenge)
    PROVE  /\ sessions' \subseteq Owned /\ fresh' \in Nat /\ promised' \subseteq Nat /\ late' \subseteq Nat
           /\ heirs' \in [1..(MaxFresh + MaxCalls) -> SUBSET Nat]
<1>1. [id |-> fresh + 1, owner |-> k] \in Owned /\ fresh + 1 \in Nat
  BY DEF TypeOK, Owned
<1>2. sessions' \subseteq Owned /\ fresh' \in Nat /\ promised' \subseteq Nat
  BY <1>1 DEF TypeOK, OpenSession, Without, Forgets
<1>3. heirs' \in [1..(MaxFresh + MaxCalls) -> SUBSET Nat]
  BY <1>1 DEF TypeOK, OpenSession, Makes
<1>4. late' \subseteq Nat
  BY <1>1 DEF TypeOK, OpenSession, Orphan
<1>5. QED
  BY <1>2, <1>3, <1>4

(* What belongs to somebody, and what is held, has numbers. *)
LEMMA NumbersOf ==
    ASSUME TypeOK
    PROVE  /\ Held(grants) \subseteq Nat /\ Held(sessions) \subseteq Nat /\ Held(challenges) \subseteq Nat
           /\ \A o : Of(grants, o) \subseteq Held(grants) /\ Of(sessions, o) \subseteq Held(sessions)
  BY DEF TypeOK, Held, Of, Owned

(* The steps of the store: one of the queue's calls is answered. *)
LEMMA EndWriteTypes ==
    ASSUME TypeOK, EndWrite
    PROVE  TypeOK'
<1> DEFINE n == Head(writes)
<1>1. writes # <<>> /\ n \in 0..Len(calls) /\ Tail(writes) \in Seq(0..Len(calls)) /\ (n # 0 => n \in 1..Len(calls))
  BY QueueIs DEF EndWrite, TypeOK
<1>2. taken' = None /\ file' = taken /\ file' \in Data /\ troubles' = troubles
  BY DEF EndWrite, TypeOK
<1> HIDE DEF n
<1>3. CASE n = 0
  <2>1. writes' = Tail(writes) /\ UNCHANGED <<memory, flows, fresh, calls, history>>
    BY <1>3 DEF EndWrite, n
  <2>2. QED
    BY <1>1, <1>2, <2>1 DEF TypeOK, memory, flows, history
<1>4. CASE n # 0
  <2>0. n \in 1..Len(calls) /\ calls[n].arg \in Nat /\ calls[n].using \in Nat /\ calls[n].made \in Nat /\ calls[n].gone \subseteq Nat
    BY <1>1, <1>4, CallsAre
  <2>1. CASE Reports(n)
    <3>1. calls' \in Seq(Call) /\ Len(calls') = Len(calls) /\ writes' = Tail(writes)
      BY <2>0, <2>1, CallGoesOn DEF Reports, Stages
    <3>2. promised' \subseteq Nat /\ ended' \subseteq Nat
      BY <2>0, <2>1 DEF Reports, TypeOK
    <3>3. UNCHANGED <<memory, flows, fresh, heirs, late>>
      BY <2>1 DEF Reports
    <3>4. QED
      BY <1>1, <1>2, <3>1, <3>2, <3>3 DEF TypeOK, memory, flows
  <2>2. CASE Reissues(n)
    <3>1. calls' \in Seq(Call) /\ Len(calls') = Len(calls)
      BY <2>0, <2>2, CallMakes DEF Reissues, SavesAgain
    <3>2. writes' \in Seq(0..Len(calls))
      BY <1>1, <2>0, <2>2 DEF Reissues, SavesAgain
    <3>3. /\ grants' \subseteq Owned /\ fresh' \in Nat /\ promised' \subseteq Nat /\ late' \subseteq Nat
          /\ heirs' \in [1..(MaxFresh + MaxCalls) -> SUBSET Nat]
      BY <2>0, <2>2, IssueTypes DEF Reissues
    <3>4. UNCHANGED <<clients, keys, sessions, flows, ended>>
      BY <2>2 DEF Reissues
    <3>5. QED
      BY <1>2, <3>1, <3>2, <3>3, <3>4 DEF TypeOK, flows
  <2>3. CASE Removes(n)
    <3>1. calls' \in Seq(Call) /\ Len(calls') = Len(calls)
      BY <2>0, <2>3, CallGoesOn DEF Removes, Stages
    <3>2. writes' \in Seq(0..Len(calls)) /\ ended' \subseteq Nat /\ clients' \subseteq Nat
      <4>1. writes' \in {Tail(writes), Append(Tail(writes), n)} /\ ended' \in {ended, ended \cup calls[n].gone}
        BY <2>3 DEF Removes
      <4>2. clients' \subseteq Nat
        BY <2>3 DEF Removes, TypeOK
      <4>3. writes' \in Seq(0..Len(calls))
        <5>1. Tail(writes) \in Seq(0..Len(calls)) /\ Append(Tail(writes), n) \in Seq(0..Len(calls))
          BY <1>1
        <5>2. QED
          BY <4>1, <5>1
      <4>4. ended' \subseteq Nat
        BY <2>0, <4>1 DEF TypeOK
      <4>5. QED
        BY <4>2, <4>3, <4>4
    <3>3. UNCHANGED <<grants, keys, sessions, flows, fresh, promised, heirs, late>>
      BY <2>3 DEF Removes
    <3>4. QED
      BY <1>2, <3>1, <3>2, <3>3 DEF TypeOK, flows
  <2>4. CASE Opens(n)
    <3>1. calls' \in Seq(Call) /\ Len(calls') = Len(calls)
      BY <2>0, <2>4, CallMakes DEF Opens, SavesAgain
    <3>2. writes' \in Seq(0..Len(calls))
      BY <1>1, <2>0, <2>4 DEF Opens, SavesAgain
    <3>3. /\ sessions' \subseteq Owned /\ fresh' \in Nat /\ promised' \subseteq Nat /\ late' \subseteq Nat
          /\ heirs' \in [1..(MaxFresh + MaxCalls) -> SUBSET Nat]
      BY <2>0, <2>4, SessionTypes DEF Opens
    <3>4. UNCHANGED <<clients, grants, keys, flows, ended>>
      BY <2>4 DEF Opens
    <3>5. QED
      BY <1>2, <3>1, <3>2, <3>3, <3>4 DEF TypeOK, flows
  <2>5. CASE Approves(n)
    <3>1. calls' \in Seq(Call) /\ Len(calls') = Len(calls)
      BY <2>0, <2>5, CallGoesOn DEF Approves, Stages
    <3>2. writes' \in Seq(0..Len(calls)) /\ pending' \subseteq Nat /\ codes' \subseteq Nat
      BY <1>1, <2>0, <2>5 DEF Approves, TypeOK
    <3>3. UNCHANGED <<memory, challenges, fresh, history>>
      BY <2>5 DEF Approves
    <3>4. QED
      BY <1>2, <3>1, <3>2, <3>3 DEF TypeOK, memory, history
  <2>6. QED
    BY <1>4, <2>1, <2>2, <2>3, <2>4, <2>5 DEF EndWrite, n
<1>5. QED
  BY <1>3, <1>4

(* A save is queued behind the others. *)
LEMMA SaveQueued ==
    ASSUME TypeOK, Len(calls') = Len(calls) + 1, Save(Len(calls) + 1)
    PROVE  /\ writes' \in Seq(0..Len(calls')) /\ writes' # <<>>
           /\ writes # <<>> => Head(writes') = Head(writes)
<1>1. Len(calls) \in Nat /\ writes \in Seq(0..Len(calls))
  BY CallsAre DEF TypeOK
<1>2. writes \in Seq(0..(Len(calls) + 1)) /\ Len(calls) + 1 \in 0..(Len(calls) + 1)
  BY <1>1, 0..Len(calls) \subseteq 0..(Len(calls) + 1), SeqMonotonic
<1>3. writes' = Append(writes, Len(calls) + 1)
  BY DEF Save
<1>4. QED
  BY <1>1, <1>2, <1>3

(* Every variable of the credentials keeps its type. *)
THEOREM CredentialsTypeCorrect == Spec => []TypeOK
<1>1. Init => TypeOK
  <2> SUFFICES ASSUME Init PROVE TypeOK
    OBVIOUS
  <2>1. /\ clients \subseteq Nat /\ grants \subseteq Owned /\ keys \subseteq Nat /\ sessions \subseteq Owned
        /\ file \in Data
    BY DEF Init, Owned, Data, Memory
  <2>2. heirs \in [1..(MaxFresh + MaxCalls) -> SUBSET Nat]
    BY DEF Init
  <2>3. calls \in Seq(Call) /\ writes \in Seq(0..Len(calls)) /\ taken = None
    BY DEF Init
  <2>4. QED
    BY <2>1, <2>2, <2>3 DEF Init, TypeOK
<1>2. TypeOK /\ [Next]_vars => TypeOK'
  <2> SUFFICES ASSUME TypeOK, [Next]_vars PROVE TypeOK'
    OBVIOUS
  <2> USE DEF flows, store, history
  <2>0. fresh \in Nat /\ fresh + 1 \in Nat /\ Len(calls) \in Nat /\ DOMAIN calls = 1..Len(calls)
    BY CallsAre DEF TypeOK
  <2>1. ASSUME Register PROVE TypeOK'
    <3>1. calls' \in Seq(Call) /\ Len(calls') = Len(calls) + 1
      BY <2>0, <2>1, CallBegins DEF Register, Ops, Stages
    <3>2. clients' \subseteq Nat /\ grants' \subseteq Owned /\ promised' \subseteq Nat
      BY <2>0, <2>1 DEF TypeOK, Register, Without, Forgets
    <3>3. writes' \in Seq(0..Len(calls')) /\ (taken # None => writes' # <<>>)
      <4>1. writes \in Seq(0..Len(calls')) /\ Me \in 0..Len(calls') /\ 0 \in 0..Len(calls')
        BY <2>0, <3>1, SeqMonotonic, 0..Len(calls) \subseteq 0..Len(calls') DEF TypeOK, Me
      <4>2. writes' = writes \o <<Me>> \/ writes' = writes \o <<0, Me>>
        BY <2>1 DEF Register
      <4>3. <<Me>> \in Seq(0..Len(calls')) /\ <<0, Me>> \in Seq(0..Len(calls')) /\ Len(<<Me>>) = 1 /\ Len(<<0, Me>>) = 2
        BY <4>1
      <4>4. writes' \in Seq(0..Len(calls')) /\ Len(writes') > 0
        <5>1. Len(writes) + 1 > 0 /\ Len(writes) + 2 > 0
          BY <4>1, LenProperties
        <5>2. writes \o <<Me>> \in Seq(0..Len(calls')) /\ Len(writes \o <<Me>>) = Len(writes) + 1
          BY <4>1, <4>3, ConcatProperties, Zenon
        <5>3. writes \o <<0, Me>> \in Seq(0..Len(calls')) /\ Len(writes \o <<0, Me>>) = Len(writes) + 2
          BY <4>1, <4>3, ConcatProperties, Zenon
        <5>4. QED
          BY <4>2, <5>1, <5>2, <5>3, Zenon
      <4>5. QED
        BY <4>4, EmptySeq
    <3>4. QED
      BY <2>0, <2>1, <3>1, <3>2, <3>3 DEF TypeOK, Register
  <2>2. ASSUME NEW c \in clients, Authorize(c) PROVE TypeOK'
    BY <2>2 DEF TypeOK, Authorize, memory
  <2>3. ASSUME NEW c \in clients, Forget(c) PROVE TypeOK'
    <3>0. c \in Nat /\ Of(grants, c) \in SUBSET Nat
      BY NumbersOf DEF TypeOK
    <3>1. calls' \in Seq(Call) /\ Len(calls') = Len(calls) + 1
      BY <2>3, <3>0, CallBegins DEF Forget, Ops, Stages
    <3>2. clients' \subseteq Nat /\ grants' \subseteq Owned /\ promised' \subseteq Nat /\ codes' \subseteq Nat /\ pending' \subseteq Nat
      BY <2>3 DEF TypeOK, Forget, Without, Forgets
    <3>3. writes' \in Seq(0..Len(calls')) /\ writes' # <<>>
      BY <2>3, <3>1, SaveQueued DEF Forget, Me
    <3>4. QED
      BY <2>3, <3>1, <3>2, <3>3 DEF TypeOK, Forget
  <2>4. ASSUME NEW c \in pending, Approve(c) PROVE TypeOK'
    BY <2>4 DEF TypeOK, Approve, memory
  <2>5. ASSUME NEW c \in codes, Exchange(c) PROVE TypeOK'
    <3>0. c \in Nat
      BY DEF TypeOK
    <3>1. calls' \in Seq(Call) /\ Len(calls') = Len(calls) + 1
      BY <2>0, <2>5, <3>0, CallBegins DEF Exchange, Ops, Stages
    <3>2. /\ grants' \subseteq Owned /\ fresh' \in Nat /\ promised' \subseteq Nat /\ late' \subseteq Nat
          /\ heirs' \in [1..(MaxFresh + MaxCalls) -> SUBSET Nat]
      BY <2>5, <3>0, IssueTypes DEF Exchange
    <3>3. writes' \in Seq(0..Len(calls')) /\ writes' # <<>>
      BY <2>5, <3>1, SaveQueued DEF Exchange, Me
    <3>4. QED
      BY <2>5, <3>1, <3>2, <3>3 DEF TypeOK, Exchange
  <2>6. ASSUME NEW g \in Held(grants), Refresh(g) PROVE TypeOK'
    <3>0. g \in Nat /\ {g} \in SUBSET Nat
      BY NumbersOf
    <3>1. (CHOOSE x \in grants : x.id = g).owner \in Nat
      <4>1. \E x \in grants : x.id = g
        BY DEF Held
      <4>2. QED
        BY <4>1 DEF TypeOK, Owned
    <3>2. calls' \in Seq(Call) /\ Len(calls') = Len(calls) + 1
      BY <2>6, <3>0, <3>1, CallBegins DEF Refresh, Ops, Stages
    <3>3. grants' \subseteq Owned /\ promised' \subseteq Nat
      BY <2>6 DEF TypeOK, Refresh, Without, Forgets
    <3>4. writes' \in Seq(0..Len(calls')) /\ writes' # <<>>
      BY <2>6, <3>2, SaveQueued DEF Refresh, Me
    <3>5. QED
      BY <2>6, <3>2, <3>3, <3>4 DEF TypeOK, Refresh
  <2>7. ASSUME NEW g \in Held(grants), Revoke(g) PROVE TypeOK'
    <3>0. g \in Nat /\ {g} \in SUBSET Nat
      BY NumbersOf
    <3>1. calls' \in Seq(Call) /\ Len(calls') = Len(calls) + 1
      BY <2>7, <3>0, CallBegins DEF Revoke, Ops, Stages
    <3>2. grants' \subseteq Owned /\ promised' \subseteq Nat
      BY <2>7 DEF TypeOK, Revoke, Without, Forgets
    <3>3. writes' \in Seq(0..Len(calls')) /\ writes' # <<>>
      BY <2>7, <3>1, SaveQueued DEF Revoke, Me
    <3>4. QED
      BY <2>7, <3>1, <3>2, <3>3 DEF TypeOK, Revoke
  <2>8. ASSUME NEW k \in keys, DropKey(k) PROVE TypeOK'
    <3>0. k \in Nat /\ Of(sessions, k) \in SUBSET Nat
      BY NumbersOf DEF TypeOK
    <3>1. calls' \in Seq(Call) /\ Len(calls') = Len(calls) + 1
      BY <2>8, <3>0, CallBegins DEF DropKey, Ops, Stages
    <3>2. keys' \subseteq Nat /\ sessions' \subseteq Owned /\ promised' \subseteq Nat
      BY <2>8 DEF TypeOK, DropKey, Without, Forgets
    <3>3. writes' \in Seq(0..Len(calls')) /\ writes' # <<>>
      BY <2>8, <3>1, SaveQueued DEF DropKey, Me
    <3>4. QED
      BY <2>8, <3>1, <3>2, <3>3 DEF TypeOK, DropKey
  <2>9. ASSUME NEW s \in Held(sessions), Logout(s) PROVE TypeOK'
    <3>0. s \in Nat /\ {s} \in SUBSET Nat
      BY NumbersOf
    <3>1. calls' \in Seq(Call) /\ Len(calls') = Len(calls) + 1
      BY <2>9, <3>0, CallBegins DEF Logout, Ops, Stages
    <3>2. sessions' \subseteq Owned /\ promised' \subseteq Nat
      BY <2>9 DEF TypeOK, Logout, Without, Forgets
    <3>3. writes' \in Seq(0..Len(calls')) /\ writes' # <<>>
      BY <2>9, <3>1, SaveQueued DEF Logout, Me
    <3>4. QED
      BY <2>9, <3>1, <3>2, <3>3 DEF TypeOK, Logout
  <2>10. ASSUME NEW purpose \in {"login", "register"}, Offer(purpose) PROVE TypeOK'
    <3>1. challenges' \subseteq [id : Nat, purpose : {"login", "register"}]
      BY <2>0, <2>10 DEF TypeOK, Offer, Without
    <3>2. QED
      BY <2>0, <2>10, <3>1 DEF TypeOK, Offer, memory
  <2>11. ASSUME NEW arg \in Nat, NEW x \in challenges, NEW op \in {"login", "approve", "addKey"},
                Begun(op, arg, x.id, 0, {}, "verifying"), UNCHANGED <<memory, flows, fresh, store, history>>
         PROVE TypeOK'
    <3>0. x.id \in Nat /\ 0 \in Nat /\ {} \in SUBSET Nat /\ op \in Ops /\ "verifying" \in Stages
      BY DEF TypeOK, Ops, Stages
    <3>1. calls' \in Seq(Call) /\ Len(calls') = Len(calls) + 1
      BY <2>11, <3>0, CallBegins
    <3>2. writes' \in Seq(0..Len(calls'))
      BY <2>0, <2>11, <3>1, SeqMonotonic, 0..Len(calls) \subseteq 0..Len(calls') DEF TypeOK
    <3>3. QED
      BY <2>11, <3>1, <3>2 DEF TypeOK, memory
  <2>12. ASSUME NEW n \in 1..Len(calls), Verified(n) PROVE TypeOK'
    <3>1. calls' \in Seq(Call) /\ Len(calls') = Len(calls)
      <4>1. CASE Ends(n, "noting") \/ Ends(n, "failed")
        BY <4>1, CallGoesOn DEF Stages
      <4>2. CASE calls' = [calls EXCEPT ![n].at = "saving", ![n].made = fresh + 1]
        BY <4>2, CallMakes
      <4>3. QED
        BY <2>12, <4>1, <4>2 DEF Verified, Ends
    <3>2. writes' = writes \/ writes' = Append(writes, n)
      BY <2>12 DEF Verified, Save
    <3>3. writes' \in Seq(0..Len(calls')) /\ (taken # None => writes' # <<>>)
      <4>1. writes \in Seq(0..Len(calls)) /\ n \in 0..Len(calls) /\ (taken # None => writes # <<>>)
        BY <2>0 DEF TypeOK
      <4>2. Append(writes, n) \in Seq(0..Len(calls)) /\ Append(writes, n) # <<>>
        BY <4>1
      <4>3. QED
        BY <3>1, <3>2, <4>1, <4>2
    <3>4. challenges' \subseteq [id : Nat, purpose : {"login", "register"}]
      BY <2>12 DEF TypeOK, Verified, Spend, Without
    <3>5. keys' \subseteq Nat /\ fresh' \in Nat
      BY <2>0, <2>12 DEF TypeOK, Verified
    <3>6. heirs' \in [1..(MaxFresh + MaxCalls) -> SUBSET Nat]
      <4>1. heirs' = heirs \/ Makes(calls[n].using)
        BY <2>12 DEF Verified
      <4>2. QED
        BY <2>0, <4>1 DEF TypeOK, Makes
    <3>7. QED
      BY <2>12, <3>1, <3>3, <3>4, <3>5, <3>6 DEF TypeOK, Verified
  <2>13. ASSUME Expire PROVE TypeOK'
    BY <2>13 DEF TypeOK, Expire, Without, memory
  <2>14. ASSUME BeginWrite PROVE TypeOK'
    <3>1. Memory \in Data
      BY DEF TypeOK, Memory, Data
    <3>2. QED
      BY <2>14, <3>1 DEF TypeOK, BeginWrite, Take, memory
  <2>15. ASSUME EndWrite PROVE TypeOK'
    BY <2>15, EndWriteTypes
  <2>16. ASSUME WriteFails PROVE TypeOK'
    <3>1. writes # <<>> /\ Tail(writes) \in Seq(0..Len(calls)) /\ (Head(writes) # 0 => Head(writes) \in 1..Len(calls))
      BY <2>16, QueueIs DEF WriteFails, TypeOK
    <3>2. calls' \in Seq(Call) /\ Len(calls') = Len(calls)
      <4>1. CASE Head(writes) = 0
        BY <2>16, <4>1 DEF WriteFails, TypeOK
      <4>2. CASE Head(writes) # 0
        BY <2>16, <3>1, <4>2, CallGoesOn DEF WriteFails, Stages
      <4>3. QED
        BY <4>1, <4>2
    <3>3. QED
      BY <2>16, <3>1, <3>2 DEF TypeOK, WriteFails, QueueAfter, memory
  <2>17. ASSUME Restart PROVE TypeOK'
    <3>1. calls' \in Seq(Call) /\ Len(calls') = Len(calls)
      BY <2>17, CallsAreLost
    <3>2. file.clients \subseteq Nat /\ file.grants \subseteq Owned /\ file.keys \subseteq Nat /\ file.sessions \subseteq Owned
      BY DEF TypeOK, Data
    <3>3. QED
      BY <2>17, <3>1, <3>2 DEF TypeOK, Restart
  <2>18. CASE UNCHANGED vars
    BY <2>18 DEF TypeOK, vars, memory
  <2>19. ASSUME NEW x \in challenges, \/ AddKey(x.id) \/ \E k \in keys : Login(k, x.id)
                                      \/ \E c \in pending : ApproveByPasskey(c, x.id)
         PROVE  TypeOK'
    BY <2>11, <2>19 DEF AddKey, Login, ApproveByPasskey, TypeOK
  <2>20. QED
    BY <2>0, <2>1, <2>2, <2>3, <2>4, <2>5, <2>6, <2>7, <2>8, <2>9, <2>10, <2>12, <2>13, <2>14, <2>15, <2>16,
       <2>17, <2>18, <2>19 DEF Next
<1>3. QED
  BY <1>1, <1>2, PTL DEF Spec

-----------------------------------------------------------------------------
(* Owners. *)

LEMMA MemoryFields ==
    Memory.clients = clients /\ Memory.grants = grants /\ Memory.keys = keys /\ Memory.sessions = sessions
  BY DEF Memory

(* What is in the file or being written stays owned while more is late. *)
LEMMA StoreStaysOwned ==
    ASSUME OwnersInv, late \subseteq late', file' = file, taken' = taken \/ taken' = None
    PROVE  OwnedIn(file)' /\ (taken' # None => OwnedIn(taken)')
  BY DEF OwnersInv, OwnedIn

(* A call that begins, goes on or is lost is not a client being forgotten   *)
(* that was not already.                                                    *)
LEMMA ForgettingOnly ==
    ASSUME TypeOK, OwnersInv, late \subseteq late',
           \A n \in 1..Len(calls') : Forgetting(n)' =>
              /\ n \in 1..Len(calls) /\ Forgetting(n) /\ calls'[n].arg = calls[n].arg
              /\ \A g \in grants' : g.owner = calls[n].arg => g \in grants \/ g.id \in late'
    PROVE  \A n \in 1..Len(calls') : Forgetting(n)' => \A g \in grants' : g.owner = calls'[n].arg => g.id \in late'
  BY DEF OwnersInv

(* A new grant is of a client that is there and stays, or counts as late. *)
LEMMA IssueOwns ==
    ASSUME TypeOK, OwnersInv, NEW c \in Nat, NEW old \in Nat, Issue(c, old), clients' = clients, keys' = keys, sessions' = sessions
    PROVE  /\ OwnedIn(Memory)' /\ late \subseteq late'
           /\ \A n \in 1..Len(calls) : Forgetting(n) => \A g \in grants' : g.owner = calls[n].arg => g \in grants \/ g.id \in late'
<1> DEFINE new == [id |-> fresh + 1, owner |-> c]
<1>1. new.id = fresh + 1 /\ new.owner = c
  OBVIOUS
<1>2. grants' = Without(grants, AllBut(MaxGrants - 1, Of(grants, c))) \cup {new}
  BY DEF Issue
<1>3. late' = IF Registered(c) /\ ~BeingForgotten(c) THEN late ELSE late \cup {fresh + 1}
  BY DEF Issue, Orphan
<1> HIDE DEF new
<1>4. \A g \in grants' : g \in grants \/ g = new
  BY <1>2 DEF Without
<1>5. late \subseteq late' /\ (fresh + 1 \in late' \/ (Registered(c) /\ ~BeingForgotten(c)))
  BY <1>3
<1>6. \A g \in grants' : g.owner \in clients \/ g.id \in late'
  BY <1>1, <1>4, <1>5, MemoryFields DEF OwnersInv, OwnedIn, Registered
<1>7. \A s \in sessions : s.owner \in keys \/ s.id \in late'
  BY <1>5, MemoryFields DEF OwnersInv, OwnedIn
<1>8. OwnedIn(Memory)'
  BY <1>6, <1>7 DEF OwnedIn, Memory
<1>9. \A n \in 1..Len(calls) : Forgetting(n) /\ calls[n].arg = c => BeingForgotten(c)
  BY CallsAre DEF Forgetting, BeingForgotten
<1>10. QED
  BY <1>1, <1>4, <1>5, <1>8, <1>9

LEMMA SessionOwns ==
    ASSUME TypeOK, OwnersInv, NEW k \in Nat, NEW challenge \in Nat, OpenSession(k, challenge),
           clients' = clients, keys' = keys, grants' = grants
    PROVE  OwnedIn(Memory)' /\ late \subseteq late'
<1> DEFINE new == [id |-> fresh + 1, owner |-> k]
<1>1. new.id = fresh + 1 /\ new.owner = k
  OBVIOUS
<1>2. sessions' = Without(sessions, OldestOf(MaxSessions, Held(sessions))) \cup {new}
  BY DEF OpenSession
<1>3. late' = IF k \in keys THEN late ELSE late \cup {fresh + 1}
  BY DEF OpenSession, Orphan
<1> HIDE DEF new
<1>4. \A s \in sessions' : s \in sessions \/ s = new
  BY <1>2 DEF Without
<1>5. late \subseteq late' /\ (fresh + 1 \in late' \/ k \in keys)
  BY <1>3
<1>6. \A s \in sessions' : s.owner \in keys \/ s.id \in late'
  BY <1>1, <1>4, <1>5, MemoryFields DEF OwnersInv, OwnedIn
<1>7. \A g \in grants : g.owner \in clients \/ g.id \in late'
  BY <1>5, MemoryFields DEF OwnersInv, OwnedIn
<1>8. QED
  BY <1>5, <1>6, <1>7 DEF OwnedIn, Memory

LEMMA EndWriteOwns ==
    ASSUME TypeOK, OwnersInv, EndWrite
    PROVE  OwnersInv'
<1> DEFINE n == Head(writes)
<1>1. n # 0 => n \in 1..Len(calls)
  BY QueueIs DEF EndWrite, TypeOK
<1>2. taken # None /\ taken' = None /\ file' = taken
  BY DEF EndWrite
<1> HIDE DEF n
<1>3. ASSUME late \subseteq late' PROVE OwnedIn(file)'
  BY <1>2, <1>3 DEF OwnersInv, OwnedIn
<1>4. OwnedIn(Memory) /\ \A m \in 1..Len(calls) : Forgetting(m) => \A g \in grants : g.owner = calls[m].arg => g.id \in late
  BY DEF OwnersInv
<1>5. CASE n = 0
  <2>1. UNCHANGED <<memory, flows, fresh, calls, history>>
    BY <1>5 DEF EndWrite, n
  <2>2. late' = late /\ calls' = calls /\ grants' = grants /\ Memory' = Memory
    BY <2>1 DEF memory, history, Memory
  <2>3. QED
    BY <1>2, <1>3, <1>4, <2>2 DEF OwnersInv, OwnedIn, Forgetting
<1>6. CASE n # 0
  <2>0. n \in 1..Len(calls) /\ calls[n].arg \in Nat /\ calls[n].using \in Nat
    BY <1>1, <1>6, CallsAre
  <2>1. CASE Reports(n)
    <3>1. /\ Len(calls') = Len(calls) /\ calls'[n].at = "done"
          /\ \A m \in 1..Len(calls) : m # n => calls'[m] = calls[m]
      BY <2>0, <2>1, CallGoesOn DEF Reports, Stages
    <3>2. late' = late /\ grants' = grants /\ Memory' = Memory
      BY <2>1 DEF Reports, memory, Memory
    <3>3. \A m \in 1..Len(calls') : Forgetting(m)' => Forgetting(m) /\ calls'[m].arg = calls[m].arg
      BY <3>1 DEF Forgetting
    <3>4. OwnedIn(Memory)'
      BY <1>4, <3>2 DEF OwnedIn
    <3>5. QED
      BY <1>2, <1>3, <1>4, <3>1, <3>2, <3>3, <3>4 DEF OwnersInv
  <2>2. CASE Reissues(n)
    <3>1. /\ Len(calls') = Len(calls) /\ calls'[n].at = "saving"
          /\ \A m \in 1..Len(calls) : m # n => calls'[m] = calls[m]
      BY <2>0, <2>2, CallMakes DEF Reissues, SavesAgain
    <3>2. /\ OwnedIn(Memory)' /\ late \subseteq late'
          /\ \A m \in 1..Len(calls) : Forgetting(m) => \A g \in grants' : g.owner = calls[m].arg => g \in grants \/ g.id \in late'
      BY <2>0, <2>2, IssueOwns DEF Reissues
    <3>3. \A m \in 1..Len(calls') : Forgetting(m)' => Forgetting(m) /\ calls'[m].arg = calls[m].arg
      BY <3>1 DEF Forgetting
    <3>4. \A m \in 1..Len(calls') : Forgetting(m)' => \A g \in grants' : g.owner = calls'[m].arg => g.id \in late'
      BY <3>1, <3>2, <3>3, ForgettingOnly
    <3>5. QED
      BY <1>2, <1>3, <3>2, <3>4 DEF OwnersInv
  <2>3. CASE Removes(n)
    <3>1. /\ Len(calls') = Len(calls) /\ calls'[n].at \in {"saving", "done"}
          /\ \A m \in 1..Len(calls) : m # n => calls'[m] = calls[m]
      BY <2>0, <2>3, CallGoesOn DEF Removes, Stages
    <3>2. late' = late /\ grants' = grants /\ keys' = keys /\ sessions' = sessions /\ clients' = clients \ {calls[n].arg}
      BY <2>3 DEF Removes
    <3>3. \A m \in 1..Len(calls') : Forgetting(m)' => Forgetting(m) /\ calls'[m].arg = calls[m].arg
      BY <3>1 DEF Forgetting
    <3>4. \A g \in grants : g.owner = calls[n].arg => g.id \in late
      BY <1>4, <2>0, <2>3 DEF Removes, Forgetting
    <3>5. OwnedIn(Memory)'
      BY <1>4, <3>2, <3>4, MemoryFields DEF OwnedIn, Memory
    <3>6. QED
      BY <1>2, <1>3, <1>4, <3>1, <3>2, <3>3, <3>5 DEF OwnersInv
  <2>4. CASE Opens(n)
    <3>1. /\ Len(calls') = Len(calls) /\ calls'[n].at = "saving"
          /\ \A m \in 1..Len(calls) : m # n => calls'[m] = calls[m]
      BY <2>0, <2>4, CallMakes DEF Opens, SavesAgain
    <3>2. OwnedIn(Memory)' /\ late \subseteq late' /\ grants' = grants
      BY <2>0, <2>4, SessionOwns DEF Opens
    <3>3. \A m \in 1..Len(calls') : Forgetting(m)' => Forgetting(m) /\ calls'[m].arg = calls[m].arg
      BY <3>1 DEF Forgetting
    <3>4. QED
      BY <1>2, <1>3, <1>4, <3>1, <3>2, <3>3 DEF OwnersInv
  <2>5. CASE Approves(n)
    <3>1. /\ Len(calls') = Len(calls) /\ calls'[n].at \in {"done", "failed"}
          /\ \A m \in 1..Len(calls) : m # n => calls'[m] = calls[m]
      BY <2>0, <2>5, CallGoesOn DEF Approves, Stages
    <3>2. late' = late /\ grants' = grants /\ Memory' = Memory
      BY <2>5 DEF Approves, memory, Memory, history
    <3>3. \A m \in 1..Len(calls') : Forgetting(m)' => Forgetting(m) /\ calls'[m].arg = calls[m].arg
      BY <3>1 DEF Forgetting
    <3>4. OwnedIn(Memory)'
      BY <1>4, <3>2 DEF OwnedIn
    <3>5. QED
      BY <1>2, <1>3, <1>4, <3>1, <3>2, <3>3, <3>4 DEF OwnersInv
  <2>6. QED
    BY <1>6, <2>1, <2>2, <2>3, <2>4, <2>5 DEF EndWrite, n
<1>7. QED
  BY <1>5, <1>6

(* Steps after which memory is owned as before, and no more is forgotten. *)
LEMMA OwnersKept ==
    ASSUME TypeOK, OwnersInv, late' = late, file' = file, taken' = taken \/ taken' = None,
           clients \subseteq clients', keys' = keys, grants' \subseteq grants, sessions' \subseteq sessions,
           \A n \in 1..Len(calls') : Forgetting(n)' => n \in 1..Len(calls) /\ Forgetting(n) /\ calls'[n].arg = calls[n].arg
    PROVE  OwnersInv'
<1>1. OwnedIn(Memory)'
  <2>1. (\A g \in grants : g.owner \in clients \/ g.id \in late) /\ (\A s \in sessions : s.owner \in keys \/ s.id \in late)
    BY MemoryFields DEF OwnersInv, OwnedIn
  <2>2. (\A g \in grants' : g.owner \in clients' \/ g.id \in late') /\ (\A s \in sessions' : s.owner \in keys' \/ s.id \in late')
    BY <2>1
  <2>3. QED
    BY <2>2 DEF OwnedIn, Memory
<1>2. OwnedIn(file)' /\ (taken' # None => OwnedIn(taken)')
  BY StoreStaysOwned
<1>3. \A n \in 1..Len(calls') : Forgetting(n)' => \A g \in grants' : g.owner = calls'[n].arg => g.id \in late'
  BY ForgettingOnly
<1>4. QED
  BY <1>1, <1>2, <1>3 DEF OwnersInv

(* A grant belongs to a registered client and a session to a registered    *)
(* passkey, but for those made while their owner was being removed.        *)
THEOREM NothingOutlivesOwners == Spec => []NothingOutlivesItsOwner
<1>1. Init => OwnersInv
  <2> SUFFICES ASSUME Init PROVE OwnersInv
    OBVIOUS
  <2>1. (\A g \in grants : g.owner \in clients) /\ (\A s \in sessions : s.owner \in keys)
    BY DEF Init
  <2>2. OwnedIn(Memory)
    BY <2>1, MemoryFields DEF OwnedIn
  <2>3. file = Memory /\ taken = None /\ Len(calls) = 0
    BY DEF Init
  <2>4. QED
    BY <2>2, <2>3 DEF OwnersInv
<1>2. TypeOK /\ OwnersInv /\ [Next]_vars => OwnersInv'
  <2> SUFFICES ASSUME TypeOK, OwnersInv, [Next]_vars PROVE OwnersInv'
    OBVIOUS
  <2> USE DEF flows, store, history
  <2>0. fresh \in Nat /\ fresh + 1 \in Nat /\ Len(calls) \in Nat /\ DOMAIN calls = 1..Len(calls)
    BY CallsAre DEF TypeOK
  <2>a. \A o, n : Without(grants, n) \subseteq grants /\ Without(sessions, n) \subseteq sessions
    BY WithoutIsLess
  <2>b. ASSUME NEW op \in Ops \ {"forget"}, NEW arg \in Nat, NEW using \in Nat, NEW mk \in Nat, NEW gone \in SUBSET Nat,
               NEW at \in Stages, Begun(op, arg, using, mk, gone, at)
        PROVE  \A n \in 1..Len(calls') : Forgetting(n)' => n \in 1..Len(calls) /\ Forgetting(n) /\ calls'[n].arg = calls[n].arg
    <3>1. /\ Len(calls') = Len(calls) + 1 /\ calls'[Len(calls) + 1].op = op
          /\ \A n \in 1..Len(calls) : calls'[n] = calls[n]
      BY <2>b, CallBegins
    <3>2. QED
      BY <2>0, <3>1 DEF Forgetting
  <2>1. ASSUME Register PROVE OwnersInv'
    <3>1. \A n \in 1..Len(calls') : Forgetting(n)' => n \in 1..Len(calls) /\ Forgetting(n) /\ calls'[n].arg = calls[n].arg
      BY <2>0, <2>1, <2>b DEF Register, Ops, Stages
    <3>2. /\ clients' = (clients \ OldestOf(MaxClients, clients)) \cup {fresh + 1}
          /\ grants' = Without(grants, UNION {Of(grants, c) : c \in OldestOf(MaxClients, clients)})
          /\ UNCHANGED <<keys, sessions, file, taken, late>>
      BY <2>1 DEF Register
    <3>3. \A g \in grants' : g \in grants /\ g.owner \notin OldestOf(MaxClients, clients)
      <4> SUFFICES ASSUME NEW g \in grants', g.owner \in OldestOf(MaxClients, clients) PROVE FALSE
        BY <3>2 DEF Without
      <4>1. g \in grants /\ g.id \in Of(grants, g.owner)
        BY <3>2 DEF Without, Of, Held
      <4>2. g.id \in UNION {Of(grants, c) : c \in OldestOf(MaxClients, clients)}
        BY <4>1
      <4>3. QED
        BY <3>2, <4>2 DEF Without
    <3>4. (\A g \in grants : g.owner \in clients \/ g.id \in late) /\ (\A s \in sessions : s.owner \in keys \/ s.id \in late)
      BY MemoryFields DEF OwnersInv, OwnedIn
    <3>5. (\A g \in grants' : g.owner \in clients' \/ g.id \in late') /\ (\A s \in sessions' : s.owner \in keys' \/ s.id \in late')
      BY <3>2, <3>3, <3>4
    <3>6. OwnedIn(Memory)'
      BY <3>5 DEF OwnedIn, Memory
    <3>7. OwnedIn(file)' /\ (taken' # None => OwnedIn(taken)')
      BY <3>2, StoreStaysOwned
    <3>8. \A n \in 1..Len(calls') : Forgetting(n)' => \A g \in grants' : g.owner = calls'[n].arg => g.id \in late'
      BY <3>1, <3>2, <3>3, ForgettingOnly
    <3>9. QED
      BY <3>6, <3>7, <3>8 DEF OwnersInv
  <2>2. ASSUME NEW c \in clients, Authorize(c) PROVE OwnersInv'
    BY <2>2, OwnersKept DEF Authorize, memory, Forgetting
  <2>3. ASSUME NEW c \in clients, Forget(c) PROVE OwnersInv'
    <3> DEFINE gone == Of(grants, c)
    <3>0. c \in Nat /\ gone \in SUBSET Nat
      BY NumbersOf DEF TypeOK
    <3>1. /\ clients' = IF gone = {} THEN clients \ {c} ELSE clients
          /\ grants' = Without(grants, gone)
          /\ UNCHANGED <<keys, sessions, file, taken, late>>
      BY <2>3 DEF Forget
    <3>2. \A g \in grants' : g \in grants /\ g.owner # c
      BY <3>1 DEF Without, Of, Held
    <3>3. (\A g \in grants : g.owner \in clients \/ g.id \in late) /\ (\A s \in sessions : s.owner \in keys \/ s.id \in late)
      BY MemoryFields DEF OwnersInv, OwnedIn
    <3>4. (\A g \in grants' : g.owner \in clients' \/ g.id \in late') /\ (\A s \in sessions' : s.owner \in keys' \/ s.id \in late')
      BY <3>1, <3>2, <3>3
    <3>5. OwnedIn(Memory)'
      BY <3>4 DEF OwnedIn, Memory
    <3>6. /\ Len(calls') = Len(calls) + 1 /\ calls'[Len(calls) + 1].arg = c
          /\ \A n \in 1..Len(calls) : calls'[n] = calls[n]
      <4>1. PICK at \in Stages : Begun("forget", c, 0, 0, Of(grants, c), at)
        BY <2>3 DEF Forget, Stages
      <4>2. "forget" \in Ops
        BY DEF Ops
      <4>3. QED
        BY <3>0, <4>1, <4>2, CallBegins
    <3>7. \A n \in 1..Len(calls) : Forgetting(n)' => \A g \in grants' : g.owner = calls'[n].arg => g.id \in late'
      BY <3>1, <3>2, <3>6 DEF OwnersInv, Forgetting
    <3>8. \A n \in 1..Len(calls') : Forgetting(n)' => \A g \in grants' : g.owner = calls'[n].arg => g.id \in late'
      <4> SUFFICES ASSUME NEW n \in 1..Len(calls'), n \notin 1..Len(calls), NEW g \in grants', g.owner = calls'[n].arg PROVE FALSE
        BY <3>7
      <4>1. n = Len(calls) + 1
        BY <2>0, <3>6
      <4>2. QED
        BY <3>2, <3>6, <4>1
    <3>9. OwnedIn(file)' /\ (taken' # None => OwnedIn(taken)')
      BY <3>1, StoreStaysOwned
    <3>10. QED
      BY <3>5, <3>8, <3>9 DEF OwnersInv
  <2>4. ASSUME NEW c \in pending, Approve(c) PROVE OwnersInv'
    BY <2>4, OwnersKept DEF Approve, memory, Forgetting
  <2>5. ASSUME NEW c \in codes, Exchange(c) PROVE OwnersInv'
    <3>0. c \in Nat
      BY DEF TypeOK
    <3>1. \A n \in 1..Len(calls') : Forgetting(n)' => n \in 1..Len(calls) /\ Forgetting(n) /\ calls'[n].arg = calls[n].arg
      BY <2>0, <2>5, <2>b, <3>0 DEF Exchange, Ops, Stages
    <3>2. /\ OwnedIn(Memory)' /\ late \subseteq late'
          /\ \A n \in 1..Len(calls) : Forgetting(n) => \A g \in grants' : g.owner = calls[n].arg => g \in grants \/ g.id \in late'
      BY <2>5, <3>0, IssueOwns DEF Exchange
    <3>3. \A n \in 1..Len(calls') : Forgetting(n)' => \A g \in grants' : g.owner = calls'[n].arg => g.id \in late'
      BY <3>1, <3>2, ForgettingOnly
    <3>4. OwnedIn(file)' /\ (taken' # None => OwnedIn(taken)')
      BY <2>5, <3>2, StoreStaysOwned DEF Exchange
    <3>5. QED
      BY <3>2, <3>3, <3>4 DEF OwnersInv
  <2>6. ASSUME NEW g \in Held(grants), Refresh(g) PROVE OwnersInv'
    <3>0. g \in Nat /\ {g} \in SUBSET Nat
      BY NumbersOf
    <3>1. (CHOOSE x \in grants : x.id = g).owner \in Nat
      <4>1. \E x \in grants : x.id = g
        BY DEF Held
      <4>2. QED
        BY <4>1 DEF TypeOK, Owned
    <3>2. \A n \in 1..Len(calls') : Forgetting(n)' => n \in 1..Len(calls) /\ Forgetting(n) /\ calls'[n].arg = calls[n].arg
      BY <2>0, <2>6, <2>b, <3>0, <3>1 DEF Refresh, Ops, Stages
    <3>3. QED
      BY <2>6, <2>a, <3>2, OwnersKept DEF Refresh
  <2>7. ASSUME NEW g \in Held(grants), Revoke(g) PROVE OwnersInv'
    <3>0. g \in Nat /\ {g} \in SUBSET Nat
      BY NumbersOf
    <3>1. \A n \in 1..Len(calls') : Forgetting(n)' => n \in 1..Len(calls) /\ Forgetting(n) /\ calls'[n].arg = calls[n].arg
      BY <2>0, <2>7, <2>b, <3>0 DEF Revoke, Ops, Stages
    <3>2. QED
      BY <2>7, <2>a, <3>1, OwnersKept DEF Revoke
  <2>8. ASSUME NEW k \in keys, DropKey(k) PROVE OwnersInv'
    <3>0. k \in Nat /\ Of(sessions, k) \in SUBSET Nat
      BY NumbersOf DEF TypeOK
    <3>1. \A n \in 1..Len(calls') : Forgetting(n)' => n \in 1..Len(calls) /\ Forgetting(n) /\ calls'[n].arg = calls[n].arg
      BY <2>0, <2>8, <2>b, <3>0 DEF DropKey, Ops, Stages
    <3>2. keys' = keys \ {k} /\ sessions' = Without(sessions, Of(sessions, k)) /\ UNCHANGED <<clients, grants, file, taken, late>>
      BY <2>8 DEF DropKey
    <3>3. \A s \in sessions' : s \in sessions /\ s.owner # k
      BY <3>2 DEF Without, Of, Held
    <3>4. (\A g \in grants : g.owner \in clients \/ g.id \in late) /\ (\A s \in sessions : s.owner \in keys \/ s.id \in late)
      BY MemoryFields DEF OwnersInv, OwnedIn
    <3>5. (\A g \in grants' : g.owner \in clients' \/ g.id \in late') /\ (\A s \in sessions' : s.owner \in keys' \/ s.id \in late')
      BY <3>2, <3>3, <3>4
    <3>6. OwnedIn(Memory)'
      BY <3>5 DEF OwnedIn, Memory
    <3>7. OwnedIn(file)' /\ (taken' # None => OwnedIn(taken)')
      BY <3>2, StoreStaysOwned
    <3>8. \A n \in 1..Len(calls') : Forgetting(n)' => \A g \in grants' : g.owner = calls'[n].arg => g.id \in late'
      BY <3>1, <3>2, ForgettingOnly
    <3>9. QED
      BY <3>6, <3>7, <3>8 DEF OwnersInv
  <2>9. ASSUME NEW s \in Held(sessions), Logout(s) PROVE OwnersInv'
    <3>0. s \in Nat /\ {s} \in SUBSET Nat
      BY NumbersOf
    <3>1. \A n \in 1..Len(calls') : Forgetting(n)' => n \in 1..Len(calls) /\ Forgetting(n) /\ calls'[n].arg = calls[n].arg
      BY <2>0, <2>9, <2>b, <3>0 DEF Logout, Ops, Stages
    <3>2. QED
      BY <2>9, <2>a, <3>1, OwnersKept DEF Logout
  <2>10. ASSUME NEW purpose \in {"login", "register"}, Offer(purpose) PROVE OwnersInv'
    BY <2>10, OwnersKept DEF Offer, memory, Forgetting
  <2>11. ASSUME NEW arg \in Nat, NEW x \in challenges, NEW op \in {"login", "approve", "addKey"},
                Begun(op, arg, x.id, 0, {}, "verifying"), UNCHANGED <<memory, flows, fresh, store, history>>
         PROVE OwnersInv'
    <3>0. x.id \in Nat /\ 0 \in Nat /\ {} \in SUBSET Nat /\ op \in Ops \ {"forget"} /\ "verifying" \in Stages
      BY DEF TypeOK, Ops, Stages
    <3>1. \A n \in 1..Len(calls') : Forgetting(n)' => n \in 1..Len(calls) /\ Forgetting(n) /\ calls'[n].arg = calls[n].arg
      BY <2>11, <2>b, <3>0
    <3>2. QED
      BY <2>11, <3>1, OwnersKept DEF memory
  <2>12. ASSUME NEW n \in 1..Len(calls), Verified(n) PROVE OwnersInv'
    <3>1. /\ Len(calls') = Len(calls) /\ calls'[n].at \in {"noting", "failed", "saving"}
          /\ \A m \in 1..Len(calls) : m # n => calls'[m] = calls[m]
      <4>1. CASE Ends(n, "noting") \/ Ends(n, "failed")
        BY <4>1, CallGoesOn DEF Stages
      <4>2. CASE calls' = [calls EXCEPT ![n].at = "saving", ![n].made = fresh + 1]
        BY <4>2, CallMakes
      <4>3. QED
        BY <2>12, <4>1, <4>2 DEF Verified, Ends
    <3>2. \A m \in 1..Len(calls') : Forgetting(m)' => m \in 1..Len(calls) /\ Forgetting(m) /\ calls'[m].arg = calls[m].arg
      BY <3>1 DEF Forgetting
    <3>3. keys \subseteq keys' /\ UNCHANGED <<clients, grants, sessions, file, taken, late>>
      BY <2>12 DEF Verified
    <3>4. (\A g \in grants : g.owner \in clients \/ g.id \in late) /\ (\A s \in sessions : s.owner \in keys \/ s.id \in late)
      BY MemoryFields DEF OwnersInv, OwnedIn
    <3>5. OwnedIn(Memory)'
      BY <3>3, <3>4 DEF OwnedIn, Memory
    <3>6. QED
      BY <3>2, <3>3, <3>5, StoreStaysOwned, ForgettingOnly DEF OwnersInv
  <2>13. ASSUME Expire PROVE OwnersInv'
    BY <2>13, OwnersKept DEF Expire, memory, Forgetting
  <2>14. ASSUME BeginWrite PROVE OwnersInv'
    BY <2>14 DEF BeginWrite, Take, memory, OwnersInv, OwnedIn, Forgetting, Memory
  <2>15. ASSUME EndWrite PROVE OwnersInv'
    BY <2>15, EndWriteOwns
  <2>16. ASSUME WriteFails PROVE OwnersInv'
    <3>1. Head(writes) # 0 => Head(writes) \in 1..Len(calls)
      BY <2>16, QueueIs DEF WriteFails, TypeOK
    <3>2. \A n \in 1..Len(calls') : Forgetting(n)' => n \in 1..Len(calls) /\ Forgetting(n) /\ calls'[n].arg = calls[n].arg
      <4>1. CASE Head(writes) = 0
        BY <2>16, <4>1 DEF WriteFails, Forgetting
      <4>2. CASE Head(writes) # 0
        <5>1. /\ Len(calls') = Len(calls) /\ calls'[Head(writes)].at = "failed"
              /\ \A m \in 1..Len(calls) : m # Head(writes) => calls'[m] = calls[m]
          BY <2>16, <3>1, <4>2, CallGoesOn DEF WriteFails, Stages
        <5>2. QED
          BY <5>1 DEF Forgetting
      <4>3. QED
        BY <4>1, <4>2
    <3>3. QED
      BY <2>16, <3>2, OwnersKept DEF WriteFails, memory
  <2>17. ASSUME Restart PROVE OwnersInv'
    <3>1. Len(calls') = Len(calls) /\ \A n \in 1..Len(calls) : calls'[n].at \in {"done", "failed", "lost"}
      BY <2>17, CallsAreLost
    <3>2. \A n \in 1..Len(calls') : ~Forgetting(n)'
      BY <3>1 DEF Forgetting
    <3>3. clients' = file.clients /\ grants' = file.grants /\ keys' = file.keys /\ sessions' = file.sessions
          /\ file' = file /\ late' = late /\ taken' = None
      BY <2>17 DEF Restart
    <3>4. OwnedIn(Memory)' /\ OwnedIn(file)'
      BY <3>3 DEF OwnersInv, OwnedIn, Memory
    <3>5. QED
      BY <3>2, <3>3, <3>4 DEF OwnersInv
  <2>18. CASE UNCHANGED vars
    BY <2>18, OwnersKept DEF vars, memory, Forgetting
  <2>19. ASSUME NEW x \in challenges, \/ AddKey(x.id) \/ \E k \in keys : Login(k, x.id)
                                      \/ \E c \in pending : ApproveByPasskey(c, x.id)
         PROVE  OwnersInv'
    BY <2>11, <2>19 DEF AddKey, Login, ApproveByPasskey, TypeOK
  <2>20. QED
    BY <2>0, <2>1, <2>2, <2>3, <2>4, <2>5, <2>6, <2>7, <2>8, <2>9, <2>10, <2>12, <2>13, <2>14, <2>15, <2>16,
       <2>17, <2>18, <2>19 DEF Next
<1>3. OwnersInv => NothingOutlivesItsOwner
  BY MemoryFields DEF OwnersInv, OwnedIn, NothingOutlivesItsOwner, Registered
<1>4. QED
  BY <1>1, <1>2, <1>3, CredentialsTypeCorrect, PTL DEF Spec

-----------------------------------------------------------------------------
(* Numbers. *)

CallsFresh == \A n \in 1..Len(calls) : calls[n].made \in 0..fresh /\ calls[n].gone \subseteq 0..fresh /\ calls[n].using \in 0..fresh

LEMMA IdsOfMemory == Ids(Memory) = Held(grants) \cup Held(sessions)
  BY MemoryFields DEF Ids

(* A step gives out the next number, or none. *)
LEMMA FreshKept ==
    ASSUME TypeOK, FreshInv, fresh' \in Nat, fresh <= fresh', file' = file, taken' = taken \/ taken' = None,
           clients' \subseteq clients \cup {fresh'}, keys' \subseteq keys \cup {fresh'},
           Held(grants)' \subseteq Held(grants) \cup {fresh'}, Held(sessions)' \subseteq Held(sessions) \cup {fresh'},
           Held(challenges)' \subseteq Held(challenges) \cup {fresh'}, CallsFresh',
           \A i \in 1..(MaxFresh + MaxCalls) : heirs'[i] # {} => heirs[i] # {} \/ i <= fresh
    PROVE  FreshInv'
<1>1. 0..fresh \subseteq 0..fresh' /\ fresh' \in 0..fresh' /\ fresh \in Nat
  BY DEF TypeOK
<1>2. FreshIn(Memory)'
  <2>1. clients \subseteq 0..fresh /\ keys \subseteq 0..fresh /\ Held(grants) \subseteq 0..fresh /\ Held(sessions) \subseteq 0..fresh
    BY IdsOfMemory, MemoryFields DEF FreshInv, FreshIn
  <2>2. clients' \subseteq 0..fresh' /\ keys' \subseteq 0..fresh' /\ Held(grants)' \subseteq 0..fresh' /\ Held(sessions)' \subseteq 0..fresh'
    BY <1>1, <2>1
  <2>3. QED
    BY <2>2 DEF FreshIn, Ids, Memory, Held
<1>3. FreshIn(file)' /\ (taken' # None => FreshIn(taken)')
  BY <1>1 DEF FreshInv, FreshIn, Ids, Held
<1>4. Held(challenges)' \subseteq 0..fresh'
  BY <1>1 DEF FreshInv
<1>5. \A i \in 1..(MaxFresh + MaxCalls) : heirs'[i] # {} => i <= fresh'
  <2>1. MaxFresh + MaxCalls \in Nat
    BY LimitsAssumption
  <2>2. QED
    BY <1>1, <2>1 DEF FreshInv
<1>6. QED
  BY <1>2, <1>3, <1>4, <1>5 DEF FreshInv, CallsFresh

LEMMA CallsFreshBegun ==
    ASSUME TypeOK, FreshInv, fresh' \in Nat, fresh <= fresh', NEW op \in Ops, NEW arg \in Nat, NEW using \in 0..fresh, NEW mk \in 0..fresh',
           NEW gone \in SUBSET (0..fresh), NEW at \in Stages, Begun(op, arg, using, mk, gone, at)
    PROVE  CallsFresh'
<1>1. 0..fresh \subseteq 0..fresh' /\ fresh \in Nat /\ 0..fresh \subseteq Nat /\ 0..fresh' \subseteq Nat
  BY DEF TypeOK
<1>2. using \in Nat /\ mk \in Nat /\ gone \in SUBSET Nat
  BY <1>1
<1>3. /\ Len(calls') = Len(calls) + 1 /\ \A n \in 1..Len(calls) : calls'[n] = calls[n]
      /\ calls'[Len(calls) + 1].using = using /\ calls'[Len(calls) + 1].made = mk /\ calls'[Len(calls) + 1].gone = gone
  BY <1>2, CallBegins
<1>4. \A n \in 1..Len(calls) : calls'[n].made \in 0..fresh' /\ calls'[n].gone \subseteq 0..fresh' /\ calls'[n].using \in 0..fresh'
  BY <1>1, <1>3 DEF FreshInv
<1>5. Len(calls) \in Nat
  BY CallsAre
<1>6. ASSUME NEW n \in 1..Len(calls') PROVE n \in 1..Len(calls) \/ n = Len(calls) + 1
  BY <1>3, <1>5
<1>7. QED
  BY <1>1, <1>3, <1>4, <1>6 DEF CallsFresh

LEMMA CallsFreshOn ==
    ASSUME TypeOK, FreshInv, fresh' \in Nat, fresh <= fresh', Len(calls') = Len(calls),
           \A n \in 1..Len(calls) : /\ calls'[n].made = calls[n].made \/ calls'[n].made = fresh'
                                    /\ calls'[n].gone = calls[n].gone /\ calls'[n].using = calls[n].using
    PROVE  CallsFresh'
<1>1. 0..fresh \subseteq 0..fresh' /\ fresh' \in 0..fresh'
  BY DEF TypeOK
<1>2. QED
  BY <1>1 DEF FreshInv, CallsFresh

(* A grant or a session that is made takes the next number; the oldest make room. *)
LEMMA IssueIds ==
    ASSUME TypeOK, NEW c \in Nat, NEW old \in Nat, Issue(c, old)
    PROVE  /\ fresh' = fresh + 1 /\ Held(grants)' \subseteq Held(grants) \cup {fresh'} /\ fresh' \in Held(grants)'
           /\ \E spare \in SUBSET Held(grants) :
                 Held(grants)' = (Held(grants) \ spare) \cup {fresh'} /\ promised' = promised \ spare
           /\ heirs' = IF old = 0 THEN heirs ELSE [heirs EXCEPT ![old] = @ \cup {fresh'}]
<1> DEFINE spare == AllBut(MaxGrants - 1, Of(grants, c))
           new == [id |-> fresh + 1, owner |-> c]
<1>1. /\ grants' = Without(grants, spare) \cup {new} /\ fresh' = fresh + 1 /\ new.id = fresh + 1
      /\ promised' = promised \ spare /\ heirs' = IF old = 0 THEN heirs ELSE [heirs EXCEPT ![old] = @ \cup {fresh + 1}]
  BY DEF Issue, Forgets, Makes
<1>2. spare \subseteq Held(grants)
  BY NumbersOf, OldestAreThere
<1> HIDE DEF spare, new
<1>3. Held(grants)' = (Held(grants) \ spare) \cup {fresh'}
  BY <1>1 DEF Held, Without
<1>4. QED
  BY <1>1, <1>2, <1>3

LEMMA SessionIds ==
    ASSUME TypeOK, NEW k \in Nat, NEW challenge \in Nat, OpenSession(k, challenge)
    PROVE  /\ fresh' = fresh + 1 /\ Held(sessions)' \subseteq Held(sessions) \cup {fresh'} /\ fresh' \in Held(sessions)'
           /\ \E spare \in SUBSET Held(sessions) :
                 Held(sessions)' = (Held(sessions) \ spare) \cup {fresh'} /\ promised' = promised \ spare
           /\ heirs' = IF challenge = 0 THEN heirs ELSE [heirs EXCEPT ![challenge] = @ \cup {fresh'}]
<1> DEFINE spare == OldestOf(MaxSessions, Held(sessions))
           new == [id |-> fresh + 1, owner |-> k]
<1>1. /\ sessions' = Without(sessions, spare) \cup {new} /\ fresh' = fresh + 1 /\ new.id = fresh + 1
      /\ promised' = promised \ spare /\ heirs' = IF challenge = 0 THEN heirs ELSE [heirs EXCEPT ![challenge] = @ \cup {fresh + 1}]
  BY DEF OpenSession, Forgets, Makes
<1>2. spare \subseteq Held(sessions)
  BY OldestAreThere
<1> HIDE DEF spare, new
<1>3. Held(sessions)' = (Held(sessions) \ spare) \cup {fresh'}
  BY <1>1 DEF Held, Without
<1>4. QED
  BY <1>1, <1>2, <1>3

LEMMA HeldWithout == ASSUME NEW set, NEW gone PROVE Held(Without(set, gone)) = Held(set) \ gone
  BY DEF Held, Without

(* Only what was given out is made with. *)
LEMMA HeirsFresh ==
    ASSUME TypeOK, NEW using \in 0..fresh, NEW new, heirs' = IF using = 0 THEN heirs ELSE [heirs EXCEPT ![using] = @ \cup {new}]
    PROVE  \A i \in 1..(MaxFresh + MaxCalls) : heirs'[i] # {} => heirs[i] # {} \/ i <= fresh
<1> SUFFICES ASSUME NEW i \in 1..(MaxFresh + MaxCalls), heirs'[i] # heirs[i] PROVE i <= fresh
  OBVIOUS
<1>1. i = using
  BY DEF TypeOK
<1>2. fresh \in Nat
  BY DEF TypeOK
<1>3. QED
  BY <1>1, <1>2

LEMMA EndWriteFresh ==
    ASSUME TypeOK, FreshInv, EndWrite
    PROVE  FreshInv'
<1> DEFINE n == Head(writes)
<1>1. n # 0 => n \in 1..Len(calls)
  BY QueueIs DEF EndWrite, TypeOK
<1>2. taken # None /\ taken' = None /\ file' = taken
  BY DEF EndWrite
<1>3. fresh \in Nat /\ fresh <= fresh + 1 /\ fresh <= fresh
  BY DEF TypeOK
<1> HIDE DEF n
(* The file that was written is as good as the one before. *)
<1>4. ASSUME fresh' \in Nat, fresh <= fresh',
             clients' \subseteq clients \cup {fresh'}, keys' \subseteq keys \cup {fresh'},
             Held(grants)' \subseteq Held(grants) \cup {fresh'}, Held(sessions)' \subseteq Held(sessions) \cup {fresh'},
             Held(challenges)' \subseteq Held(challenges) \cup {fresh'}, CallsFresh',
             \A i \in 1..(MaxFresh + MaxCalls) : heirs'[i] # {} => heirs[i] # {} \/ i <= fresh
      PROVE  FreshInv'
  <2>1. 0..fresh \subseteq 0..fresh' /\ fresh' \in 0..fresh'
    BY <1>3, <1>4
  <2>2. clients \subseteq 0..fresh /\ keys \subseteq 0..fresh /\ Held(grants) \subseteq 0..fresh /\ Held(sessions) \subseteq 0..fresh
    BY IdsOfMemory, MemoryFields DEF FreshInv, FreshIn
  <2>3. clients' \subseteq 0..fresh' /\ keys' \subseteq 0..fresh' /\ Held(grants)' \subseteq 0..fresh' /\ Held(sessions)' \subseteq 0..fresh'
    BY <1>4, <2>1, <2>2
  <2>4. FreshIn(Memory)'
    BY <2>3 DEF FreshIn, Ids, Memory, Held
  <2>5. FreshIn(file)'
    BY <1>2, <2>1 DEF FreshInv, FreshIn, Ids, Held
  <2>6. Held(challenges)' \subseteq 0..fresh'
    BY <1>4, <2>1 DEF FreshInv
  <2>7. \A i \in 1..(MaxFresh + MaxCalls) : heirs'[i] # {} => i <= fresh'
    <3>1. MaxFresh + MaxCalls \in Nat
      BY LimitsAssumption
    <3>2. QED
      BY <1>3, <1>4, <3>1 DEF FreshInv
  <2>8. QED
    BY <1>2, <1>4, <2>4, <2>5, <2>6, <2>7 DEF FreshInv, CallsFresh
<1>5. CASE n = 0
  <2>1. UNCHANGED <<memory, flows, fresh, calls, history>>
    BY <1>5 DEF EndWrite, n
  <2>2. CallsFresh'
    BY <2>1, <1>3, CallsFreshOn
  <2>3. QED
    BY <1>3, <1>4, <2>1, <2>2 DEF memory, flows, history, Held
<1>6. CASE n # 0
  <2>0. n \in 1..Len(calls) /\ calls[n].arg \in Nat /\ calls[n].using \in Nat /\ calls[n].using \in 0..fresh
    BY <1>1, <1>6, CallsAre DEF FreshInv
  <2>1. CASE Reports(n)
    <3>1. UNCHANGED <<memory, flows, fresh, heirs, late>>
      BY <2>1 DEF Reports
    <3>2. CallsFresh'
      BY <1>3, <2>0, <2>1, <3>1, CallGoesOn, CallsFreshOn DEF Reports, Stages
    <3>3. QED
      BY <1>3, <1>4, <3>1, <3>2 DEF memory, flows, Held
  <2>2. CASE Reissues(n)
    <3>1. /\ fresh' = fresh + 1 /\ Held(grants)' \subseteq Held(grants) \cup {fresh'}
          /\ heirs' = IF calls[n].using = 0 THEN heirs ELSE [heirs EXCEPT ![calls[n].using] = @ \cup {fresh'}]
      BY <2>0, <2>2, IssueIds DEF Reissues
    <3>2. \A i \in 1..(MaxFresh + MaxCalls) : heirs'[i] # {} => heirs[i] # {} \/ i <= fresh
      BY <2>0, <3>1, HeirsFresh
    <3>3. /\ Len(calls') = Len(calls)
          /\ \A m \in 1..Len(calls) : m # n => calls'[m] = calls[m]
          /\ calls'[n].made = fresh' /\ calls'[n].gone = calls[n].gone /\ calls'[n].using = calls[n].using
      BY <2>0, <2>2, <3>1, CallMakes DEF Reissues, SavesAgain
    <3>4. CallsFresh'
      BY <1>3, <3>1, <3>3, CallsFreshOn
    <3>5. UNCHANGED <<clients, keys, sessions, flows, ended>>
      BY <2>2 DEF Reissues
    <3>6. QED
      BY <1>3, <1>4, <3>1, <3>2, <3>4, <3>5 DEF flows, Held
  <2>3. CASE Removes(n)
    <3>1. UNCHANGED <<grants, keys, sessions, flows, fresh, promised, heirs, late>> /\ clients' \subseteq clients
      BY <2>3 DEF Removes
    <3>2. CallsFresh'
      BY <1>3, <2>0, <2>3, <3>1, CallGoesOn, CallsFreshOn DEF Removes, Stages
    <3>3. QED
      BY <1>3, <1>4, <3>1, <3>2 DEF flows, Held
  <2>4. CASE Opens(n)
    <3>1. /\ fresh' = fresh + 1 /\ Held(sessions)' \subseteq Held(sessions) \cup {fresh'}
          /\ heirs' = IF calls[n].using = 0 THEN heirs ELSE [heirs EXCEPT ![calls[n].using] = @ \cup {fresh'}]
      BY <2>0, <2>4, SessionIds DEF Opens
    <3>2. \A i \in 1..(MaxFresh + MaxCalls) : heirs'[i] # {} => heirs[i] # {} \/ i <= fresh
      BY <2>0, <3>1, HeirsFresh
    <3>3. /\ Len(calls') = Len(calls)
          /\ \A m \in 1..Len(calls) : m # n => calls'[m] = calls[m]
          /\ calls'[n].made = fresh' /\ calls'[n].gone = calls[n].gone /\ calls'[n].using = calls[n].using
      BY <2>0, <2>4, <3>1, CallMakes DEF Opens, SavesAgain
    <3>4. CallsFresh'
      BY <1>3, <3>1, <3>3, CallsFreshOn
    <3>5. UNCHANGED <<clients, grants, keys, flows, ended>>
      BY <2>4 DEF Opens
    <3>6. QED
      BY <1>3, <1>4, <3>1, <3>2, <3>4, <3>5 DEF flows, Held
  <2>5. CASE Approves(n)
    <3>1. UNCHANGED <<memory, challenges, fresh, history>>
      BY <2>5 DEF Approves
    <3>2. CallsFresh'
      BY <1>3, <2>0, <2>5, <3>1, CallGoesOn, CallsFreshOn DEF Approves, Stages
    <3>3. QED
      BY <1>3, <1>4, <3>1, <3>2 DEF memory, history, Held
  <2>6. QED
    BY <1>6, <2>1, <2>2, <2>3, <2>4, <2>5 DEF EndWrite, n
<1>7. QED
  BY <1>5, <1>6

(* No number is given out twice: all in use are of those given out. *)
LEMMA NumbersAreFresh == Spec => []FreshInv
<1>1. Init => FreshInv
  <2> SUFFICES ASSUME Init PROVE FreshInv
    OBVIOUS
  <2>1. Held(grants) = {2} /\ Held(sessions) = {4} /\ Held(challenges) = {} /\ fresh = 4 /\ clients = {1} /\ keys = {3}
    BY DEF Init, Held
  <2>2. FreshIn(Memory)
    BY <2>1, IdsOfMemory, MemoryFields DEF FreshIn
  <2>3. file = Memory /\ taken = None /\ Len(calls) = 0 /\ \A i \in 1..(MaxFresh + MaxCalls) : heirs[i] = {}
    BY DEF Init
  <2>4. QED
    BY <2>1, <2>2, <2>3 DEF FreshInv
<1>2. TypeOK /\ FreshInv /\ [Next]_vars => FreshInv'
  <2> SUFFICES ASSUME TypeOK, FreshInv, [Next]_vars PROVE FreshInv'
    OBVIOUS
  <2> USE DEF flows, store, history
  <2>0. /\ fresh \in Nat /\ fresh + 1 \in Nat /\ fresh <= fresh /\ fresh <= fresh + 1
        /\ 0 \in 0..fresh /\ 0 \in 0..(fresh + 1) /\ fresh + 1 \in 0..(fresh + 1) /\ {} \in SUBSET (0..fresh) /\ DOMAIN calls = 1..Len(calls)
    BY CallsAre DEF TypeOK
  <2>c. Held(grants) \subseteq 0..fresh /\ Held(sessions) \subseteq 0..fresh /\ keys \subseteq Nat /\ clients \subseteq Nat
    BY IdsOfMemory DEF FreshInv, FreshIn, TypeOK
  <2>1. ASSUME Register PROVE FreshInv'
    <3>1. CallsFresh'
      BY <2>0, <2>1, CallsFreshBegun DEF Register, Ops, Stages
    <3>2. /\ fresh' = fresh + 1 /\ clients' \subseteq clients \cup {fresh'} /\ Held(grants)' \subseteq Held(grants)
          /\ UNCHANGED <<keys, sessions, challenges, file, taken, heirs>>
      BY <2>1 DEF Register, Held, Without
    <3>3. QED
      BY <2>0, <3>1, <3>2, FreshKept DEF Held
  <2>2. ASSUME NEW c \in clients, Authorize(c) PROVE FreshInv'
    <3>1. UNCHANGED <<memory, challenges, fresh, calls, file, taken, heirs>>
      BY <2>2 DEF Authorize
    <3>2. CallsFresh'
      BY <2>0, <3>1, CallsFreshOn
    <3>3. QED
      BY <2>0, <3>1, <3>2, FreshKept DEF memory, Held
  <2>3. ASSUME NEW c \in clients, Forget(c) PROVE FreshInv'
    <3>0. c \in Nat /\ Of(grants, c) \in SUBSET (0..fresh)
      BY <2>c, NumbersOf
    <3>1. /\ clients' \subseteq clients /\ Held(grants)' \subseteq Held(grants)
          /\ UNCHANGED <<keys, sessions, challenges, fresh, file, taken, heirs>>
      BY <2>3 DEF Forget, Held, Without
    <3>2. CallsFresh'
      BY <2>0, <2>3, <3>0, <3>1, CallsFreshBegun DEF Forget, Ops, Stages
    <3>3. QED
      BY <2>0, <3>1, <3>2, FreshKept DEF Held
  <2>4. ASSUME NEW c \in pending, Approve(c) PROVE FreshInv'
    <3>1. UNCHANGED <<memory, challenges, fresh, calls, file, taken, heirs>>
      BY <2>4 DEF Approve
    <3>2. CallsFresh'
      BY <2>0, <3>1, CallsFreshOn
    <3>3. QED
      BY <2>0, <3>1, <3>2, FreshKept DEF memory, Held
  <2>5. ASSUME NEW c \in codes, Exchange(c) PROVE FreshInv'
    <3>0. c \in Nat /\ 0 \in Nat
      BY DEF TypeOK
    <3>1. fresh' = fresh + 1 /\ Held(grants)' \subseteq Held(grants) \cup {fresh'} /\ heirs' = heirs
      BY <2>5, <3>0, IssueIds DEF Exchange
    <3>2. CallsFresh'
      BY <2>0, <2>5, <3>0, <3>1, CallsFreshBegun DEF Exchange, Ops, Stages
    <3>3. QED
      BY <2>0, <2>5, <3>1, <3>2, FreshKept DEF Held, Exchange
  <2>6. ASSUME NEW g \in Held(grants), Refresh(g) PROVE FreshInv'
    <3>0. g \in 0..fresh /\ {g} \in SUBSET (0..fresh)
      BY <2>c
    <3>1. (CHOOSE x \in grants : x.id = g).owner \in Nat
      <4>1. \E x \in grants : x.id = g
        BY DEF Held
      <4>2. QED
        BY <4>1 DEF TypeOK, Owned
    <3>2. Held(grants)' \subseteq Held(grants) /\ UNCHANGED <<clients, keys, sessions, challenges, fresh, file, taken, heirs>>
      BY <2>6 DEF Refresh, Held, Without
    <3>3. CallsFresh'
      BY <2>0, <2>6, <3>0, <3>1, <3>2, CallsFreshBegun DEF Refresh, Ops, Stages
    <3>4. QED
      BY <2>0, <3>2, <3>3, FreshKept DEF Held
  <2>7. ASSUME NEW g \in Held(grants), Revoke(g) PROVE FreshInv'
    <3>0. g \in Nat /\ {g} \in SUBSET (0..fresh)
      BY <2>c, NumbersOf
    <3>1. Held(grants)' \subseteq Held(grants) /\ UNCHANGED <<clients, keys, sessions, challenges, fresh, file, taken, heirs>>
      BY <2>7 DEF Revoke, Held, Without
    <3>2. CallsFresh'
      BY <2>0, <2>7, <3>0, <3>1, CallsFreshBegun DEF Revoke, Ops, Stages
    <3>3. QED
      BY <2>0, <3>1, <3>2, FreshKept DEF Held
  <2>8. ASSUME NEW k \in keys, DropKey(k) PROVE FreshInv'
    <3>0. k \in Nat /\ Of(sessions, k) \in SUBSET (0..fresh)
      BY <2>c, NumbersOf
    <3>1. keys' \subseteq keys /\ Held(sessions)' \subseteq Held(sessions) /\ UNCHANGED <<clients, grants, challenges, fresh, file, taken, heirs>>
      BY <2>8 DEF DropKey, Held, Without
    <3>2. CallsFresh'
      BY <2>0, <2>8, <3>0, <3>1, CallsFreshBegun DEF DropKey, Ops, Stages
    <3>3. QED
      BY <2>0, <3>1, <3>2, FreshKept DEF Held
  <2>9. ASSUME NEW s \in Held(sessions), Logout(s) PROVE FreshInv'
    <3>0. s \in Nat /\ {s} \in SUBSET (0..fresh)
      BY <2>c, NumbersOf
    <3>1. Held(sessions)' \subseteq Held(sessions) /\ UNCHANGED <<clients, grants, keys, challenges, fresh, file, taken, heirs>>
      BY <2>9 DEF Logout, Held, Without
    <3>2. CallsFresh'
      BY <2>0, <2>9, <3>0, <3>1, CallsFreshBegun DEF Logout, Ops, Stages
    <3>3. QED
      BY <2>0, <3>1, <3>2, FreshKept DEF Held
  <2>10. ASSUME NEW purpose \in {"login", "register"}, Offer(purpose) PROVE FreshInv'
    <3>1. /\ fresh' = fresh + 1 /\ Held(challenges)' \subseteq Held(challenges) \cup {fresh'}
          /\ UNCHANGED <<memory, calls, file, taken, heirs>>
      <4> DEFINE new == [id |-> fresh + 1, purpose |-> purpose]
      <4>1. /\ challenges' = Without(challenges, OldestOf(MaxChallenges, Held(challenges))) \cup {new}
            /\ fresh' = fresh + 1 /\ new.id = fresh + 1
        BY <2>10 DEF Offer
      <4>2. UNCHANGED <<memory, calls, file, taken, heirs>>
        BY <2>10 DEF Offer
      <4> HIDE DEF new
      <4>3. Held(challenges)' \subseteq Held(challenges) \cup {fresh'}
        BY <4>1 DEF Held, Without
      <4>4. QED
        BY <4>1, <4>2, <4>3
    <3>2. CallsFresh'
      BY <2>0, <3>1, CallsFreshOn
    <3>3. QED
      BY <2>0, <3>1, <3>2, FreshKept DEF memory, Held
  <2>11. ASSUME NEW arg \in Nat, NEW x \in challenges, NEW op \in {"login", "approve", "addKey"},
                Begun(op, arg, x.id, 0, {}, "verifying"), UNCHANGED <<memory, flows, fresh, store, history>>
         PROVE FreshInv'
    <3>0. x.id \in 0..fresh /\ op \in Ops /\ "verifying" \in Stages
      BY DEF FreshInv, Held, Ops, Stages
    <3>1. CallsFresh'
      BY <2>0, <2>11, <3>0, CallsFreshBegun
    <3>2. QED
      BY <2>0, <2>11, <3>1, FreshKept DEF memory, Held
  <2>12. ASSUME NEW n \in 1..Len(calls), Verified(n) PROVE FreshInv'
    <3>0. calls[n].using \in 0..fresh
      BY DEF FreshInv
    <3>1. /\ Held(challenges)' \subseteq Held(challenges) /\ UNCHANGED <<clients, grants, sessions, file, taken>>
      BY <2>12 DEF Verified, Spend, Held, Without
    <3>2. CASE calls' = [calls EXCEPT ![n].at = "saving", ![n].made = fresh + 1] /\ fresh' = fresh + 1 /\ Makes(calls[n].using)
               /\ keys' = keys \cup {fresh + 1}
      <4>1. /\ Len(calls') = Len(calls)
            /\ \A m \in 1..Len(calls) : m # n => calls'[m] = calls[m]
            /\ calls'[n].made = fresh' /\ calls'[n].gone = calls[n].gone /\ calls'[n].using = calls[n].using
        BY <3>2, CallMakes
      <4>2. CallsFresh'
        BY <2>0, <3>2, <4>1, CallsFreshOn
      <4>3. \A i \in 1..(MaxFresh + MaxCalls) : heirs'[i] # {} => heirs[i] # {} \/ i <= fresh
        BY <3>0, <3>2, HeirsFresh DEF Makes
      <4>4. QED
        BY <2>0, <3>1, <3>2, <4>2, <4>3, FreshKept DEF Held
    <3>3. CASE (Ends(n, "noting") \/ Ends(n, "failed")) /\ UNCHANGED <<keys, fresh, heirs>>
      <4>1. CallsFresh'
        BY <2>0, <3>3, CallGoesOn, CallsFreshOn DEF Stages
      <4>2. QED
        BY <2>0, <3>1, <3>3, <4>1, FreshKept DEF Held
    <3>4. QED
      BY <2>12, <3>2, <3>3 DEF Verified, Ends
  <2>13. ASSUME Expire PROVE FreshInv'
    <3>1. Held(challenges)' \subseteq Held(challenges) /\ UNCHANGED <<memory, fresh, calls, file, taken, heirs>>
      BY <2>13 DEF Expire, Held, Without
    <3>2. CallsFresh'
      BY <2>0, <3>1, CallsFreshOn
    <3>3. QED
      BY <2>0, <3>1, <3>2, FreshKept DEF memory, Held
  <2>14. ASSUME BeginWrite PROVE FreshInv'
    <3>1. taken' = Memory /\ UNCHANGED <<memory, flows, fresh, calls, file, history>>
      BY <2>14 DEF BeginWrite, Take
    <3>2. QED
      BY <3>1 DEF FreshInv, FreshIn, Ids, Held, memory, Memory
  <2>15. ASSUME EndWrite PROVE FreshInv'
    BY <2>15, EndWriteFresh
  <2>16. ASSUME WriteFails PROVE FreshInv'
    <3>1. Head(writes) # 0 => Head(writes) \in 1..Len(calls)
      BY <2>16, QueueIs DEF WriteFails, TypeOK
    <3>2. taken' = None /\ UNCHANGED <<memory, challenges, fresh, file, heirs>>
      BY <2>16 DEF WriteFails
    <3>3. CallsFresh'
      <4>1. CASE Head(writes) = 0
        BY <2>0, <2>16, <3>2, <4>1, CallsFreshOn DEF WriteFails
      <4>2. CASE Head(writes) # 0
        BY <2>0, <2>16, <3>1, <3>2, <4>2, CallGoesOn, CallsFreshOn DEF WriteFails, Stages
      <4>3. QED
        BY <4>1, <4>2
    <3>4. QED
      BY <2>0, <3>2, <3>3, FreshKept DEF memory, Held
  <2>17. ASSUME Restart PROVE FreshInv'
    <3>1. fresh' = fresh /\ heirs' = heirs /\ file' = file /\ taken' = None /\ challenges' = {}
          /\ clients' = file.clients /\ grants' = file.grants /\ keys' = file.keys /\ sessions' = file.sessions
      BY <2>17 DEF Restart
    <3>2. CallsFresh'
      BY <2>0, <2>17, <3>1, CallsAreLost, CallsFreshOn
    <3>3. FreshIn(file) /\ FreshIn(Memory)'
      BY <3>1 DEF FreshInv, FreshIn, Ids, Held, Memory
    <3>4. QED
      BY <3>1, <3>2, <3>3 DEF FreshInv, FreshIn, CallsFresh, Held, Ids
  <2>18. CASE UNCHANGED vars
    <3>1. UNCHANGED <<memory, challenges, fresh, calls, file, taken, heirs>>
      BY <2>18 DEF vars
    <3>2. CallsFresh'
      BY <2>0, <3>1, CallsFreshOn
    <3>3. QED
      BY <2>0, <3>1, <3>2, FreshKept DEF memory, Held
  <2>19. ASSUME NEW x \in challenges, \/ AddKey(x.id) \/ \E k \in keys : Login(k, x.id)
                                      \/ \E c \in pending : ApproveByPasskey(c, x.id)
         PROVE  FreshInv'
    BY <2>11, <2>19 DEF AddKey, Login, ApproveByPasskey, TypeOK
  <2>20. QED
    BY <2>0, <2>1, <2>2, <2>3, <2>4, <2>5, <2>6, <2>7, <2>8, <2>9, <2>10, <2>12, <2>13, <2>14, <2>15, <2>16,
       <2>17, <2>18, <2>19 DEF Next
<1>3. QED
  BY <1>1, <1>2, CredentialsTypeCorrect, PTL DEF Spec

-----------------------------------------------------------------------------
(* Promises. *)

(* A step that writes nothing to the file keeps the promises: what is no    *)
(* longer held is no longer promised.                                       *)
LEMMA PromisesKept ==
    ASSUME TypeOK, FreshInv, PromisesInv, fresh' \in Nat, fresh <= fresh', file' = file,
           taken' = None \/ (taken' = taken /\ Head(writes') = Head(writes)),
           \/ Held(grants)' \subseteq Held(grants) \cup {fresh + 1} /\ Held(sessions)' \subseteq Held(sessions)
           \/ Held(grants)' \subseteq Held(grants) /\ Held(sessions)' \subseteq Held(sessions) \cup {fresh + 1},
           promised' \subseteq promised \cap (Held(grants)' \cup Held(sessions)'), ended' = ended,
           Len(calls') \in Nat, Len(calls) <= Len(calls'),
           \A n \in 1..Len(calls) :
              /\ Over(n) => Over(n)'
              /\ calls'[n].gone = calls[n].gone
              /\ calls'[n].made = calls[n].made \/ calls'[n].made \notin Held(grants)' \cup Held(sessions)',
           \A n \in 1..Len(calls') : n \in 1..Len(calls) \/ calls'[n].gone \cap (Held(grants)' \cup Held(sessions)') = {}
    PROVE  PromisesInv'
<1>1. fresh \in Nat /\ fresh + 1 \notin 0..fresh /\ 0..fresh \subseteq 0..fresh'
  BY DEF TypeOK
<1>2. /\ Held(grants) \subseteq 0..fresh /\ Held(sessions) \subseteq 0..fresh
      /\ Held(grants) \cap Held(sessions) = {} /\ ended \cap (Held(grants) \cup Held(sessions)) = {} /\ ended \subseteq 0..fresh
  BY IdsOfMemory, MemoryFields DEF FreshInv, FreshIn, PromisesInv, KeptIn
<1>3. Ids(Memory)' = Held(grants)' \cup Held(sessions)'
  BY DEF Ids, Memory, Held
<1>4. KeptIn(Memory)'
  <2>1. Held(grants)' \cap Held(sessions)' = {} /\ ended' \cap (Held(grants)' \cup Held(sessions)') = {}
    BY <1>1, <1>2
  <2>2. Held(Memory.grants)' = Held(grants)' /\ Held(Memory.sessions)' = Held(sessions)'
    BY DEF Memory, Held
  <2>3. QED
    BY <1>3, <2>1, <2>2 DEF KeptIn
<1>5. ASSUME NEW d, KeptIn(d), d' = d PROVE KeptIn(d)'
  BY <1>5 DEF KeptIn, Ids, Held
<1>6. KeptIn(file)' /\ (taken' # None => KeptIn(taken)')
  BY DEF PromisesInv, KeptIn, Ids, Held
<1>7. ended' \subseteq 0..fresh'
  BY <1>1, <1>2
<1>8. ASSUME NEW n \in 1..Len(calls) PROVE calls[n].gone \subseteq 0..fresh /\ calls[n].made \in 0..fresh
  BY DEF FreshInv
<1>9. ASSUME NEW n \in 1..Len(calls'), ~Over(n)' PROVE calls'[n].gone \cap Ids(Memory)' = {}
  <2>1. CASE n \in 1..Len(calls)
    <3>1. calls[n].gone \cap (Held(grants) \cup Held(sessions)) = {}
      BY <1>9, <2>1, IdsOfMemory DEF PromisesInv
    <3>2. QED
      BY <1>1, <1>3, <1>8, <2>1, <3>1
  <2>2. CASE n \notin 1..Len(calls)
    BY <1>3, <2>2
  <2>3. QED
    BY <2>1, <2>2
<1>10. ASSUME Writer' # 0, ~Over(Writer)'
       PROVE  /\ calls'[Writer'].gone \cap Ids(taken)' = {}
              /\ calls'[Writer'].made \in Ids(Memory)' => calls'[Writer'].made \in Ids(taken)'
  <2>1. taken' = taken /\ taken # None /\ Writer' = Writer /\ Writer = Head(writes)
    BY <1>10 DEF Writer
  <2>2. Writer \in 1..Len(calls)
    BY <1>10, <2>1, QueueIs DEF TypeOK
  <2>3. ~Over(Writer)
    BY <1>10, <2>1, <2>2 DEF Over
  <2>4. /\ calls[Writer].gone \cap Ids(taken) = {}
        /\ calls[Writer].made \in Held(grants) \cup Held(sessions) => calls[Writer].made \in Ids(taken)
    BY <1>10, <2>1, <2>3, IdsOfMemory DEF PromisesInv
  <2>5. Ids(taken)' = Ids(taken)
    BY <2>1 DEF Ids, Held
  <2>6. calls[Writer].made # fresh + 1
    BY <1>1, <1>8, <2>2
  <2>7. QED
    BY <1>3, <2>1, <2>2, <2>4, <2>5, <2>6
<1>11. QED
  BY <1>4, <1>6, <1>7, <1>9, <1>10 DEF PromisesInv

(* The answer to a write: what was written is the file. *)
LEMMA PromisesWritten ==
    ASSUME TypeOK, FreshInv, PromisesInv, fresh' \in Nat, fresh <= fresh', taken # None, file' = taken, taken' = None,
           \/ Held(grants)' \subseteq Held(grants) \cup {fresh + 1} /\ Held(sessions)' \subseteq Held(sessions)
           \/ Held(grants)' \subseteq Held(grants) /\ Held(sessions)' \subseteq Held(sessions) \cup {fresh + 1},
           promised' \subseteq Ids(taken) \cap (Held(grants)' \cup Held(sessions)'),
           ended' \subseteq 0..fresh,
           ended' \cap (Held(grants) \cup Held(sessions)) = {}, ended' \cap Ids(taken) = {},
           Len(calls') = Len(calls),
           \A n \in 1..Len(calls) : (Over(n) => Over(n)') /\ calls'[n].gone = calls[n].gone
    PROVE  PromisesInv'
<1>1. fresh \in Nat /\ fresh + 1 \notin 0..fresh /\ 0..fresh \subseteq 0..fresh'
  BY DEF TypeOK
<1>2. /\ Held(grants) \subseteq 0..fresh /\ Held(sessions) \subseteq 0..fresh
      /\ Held(grants) \cap Held(sessions) = {}
  BY IdsOfMemory, MemoryFields DEF FreshInv, FreshIn, PromisesInv, KeptIn
<1>3. Ids(Memory)' = Held(grants)' \cup Held(sessions)'
  BY DEF Ids, Memory, Held
<1>4. KeptIn(Memory)'
  <2>1. Held(grants)' \cap Held(sessions)' = {} /\ ended' \cap (Held(grants)' \cup Held(sessions)') = {}
    BY <1>1, <1>2
  <2>2. Held(Memory.grants)' = Held(grants)' /\ Held(Memory.sessions)' = Held(sessions)'
    BY DEF Memory, Held
  <2>3. QED
    BY <1>3, <2>1, <2>2 DEF KeptIn
<1>5. KeptIn(file)'
  <2>1. Held(taken.grants) \cap Held(taken.sessions) = {}
    BY DEF PromisesInv, KeptIn
  <2>2. Ids(file)' = Ids(taken) /\ Held(file.grants)' = Held(taken.grants) /\ Held(file.sessions)' = Held(taken.sessions)
    BY DEF Ids, Held
  <2>3. QED
    BY <2>1, <2>2 DEF KeptIn
<1>6. ended' \subseteq 0..fresh'
  BY <1>1
<1>7. ASSUME NEW n \in 1..Len(calls'), ~Over(n)' PROVE calls'[n].gone \cap Ids(Memory)' = {}
  <2>1. calls[n].gone \cap (Held(grants) \cup Held(sessions)) = {}
    BY <1>7, IdsOfMemory DEF PromisesInv
  <2>2. calls[n].gone \subseteq 0..fresh
    BY DEF FreshInv
  <2>3. QED
    BY <1>1, <1>3, <2>1, <2>2
<1>8. Writer' = 0
  BY DEF Writer
<1>9. QED
  BY <1>4, <1>5, <1>6, <1>7, <1>8 DEF PromisesInv

LEMMA EndWritePromises ==
    ASSUME TypeOK, FreshInv, PromisesInv, EndWrite
    PROVE  PromisesInv'
<1> DEFINE n == Head(writes)
<1>1. n # 0 => n \in 1..Len(calls)
  BY QueueIs DEF EndWrite, TypeOK
<1>2. taken # None /\ taken' = None /\ file' = taken
  BY DEF EndWrite
<1>3. fresh \in Nat /\ fresh + 1 \in Nat /\ fresh <= fresh + 1 /\ fresh <= fresh
  BY DEF TypeOK
<1>4. Writer = n
  BY <1>2 DEF Writer
<1> HIDE DEF n
<1>5. /\ promised \subseteq Ids(taken) \cap (Held(grants) \cup Held(sessions)) /\ ended \subseteq 0..fresh
      /\ ended \cap (Held(grants) \cup Held(sessions)) = {} /\ ended \cap Ids(taken) = {}
  BY <1>2, IdsOfMemory DEF PromisesInv, KeptIn
<1>6. CASE n = 0
  <2>1. UNCHANGED <<memory, flows, fresh, calls, history>>
    BY <1>6 DEF EndWrite, n
  <2>2. Held(grants)' = Held(grants) /\ Held(sessions)' = Held(sessions) /\ UNCHANGED <<fresh, calls, promised, ended>>
    BY <2>1 DEF memory, history, Held
  <2>3. QED
    BY <1>2, <1>3, <1>5, <2>2, PromisesWritten DEF Over
<1>7. CASE n # 0
  <2>0. /\ n \in 1..Len(calls) /\ calls[n].arg \in Nat /\ calls[n].using \in Nat
        /\ calls[n].gone \subseteq 0..fresh
    BY <1>1, <1>7, CallsAre DEF FreshInv
  <2>a. ~Over(n) => /\ calls[n].gone \cap (Held(grants) \cup Held(sessions)) = {} /\ calls[n].gone \cap Ids(taken) = {}
                    /\ calls[n].made \in Held(grants) \cup Held(sessions) => calls[n].made \in Ids(taken)
    BY <1>4, <1>7, <2>0, IdsOfMemory DEF PromisesInv
  <2>1. CASE Reports(n)
    <3>1. Len(calls') = Len(calls) /\ \A m \in 1..Len(calls) : (Over(m) => Over(m)') /\ calls'[m].gone = calls[m].gone
      BY <2>0, <2>1, CallGoesOn DEF Reports, Stages, Over
    <3>2. Held(grants)' = Held(grants) /\ Held(sessions)' = Held(sessions) /\ fresh' = fresh
      BY <2>1 DEF Reports, memory, Held
    <3>3. ~Over(n)
      BY <2>1 DEF Reports, Over
    <3>4. /\ promised' = promised \cup ({calls[n].made} \cap (Held(grants) \cup Held(sessions)))
          /\ ended' = ended \cup calls[n].gone
      BY <2>1 DEF Reports
    <3>5. promised' \subseteq Ids(taken) \cap (Held(grants) \cup Held(sessions))
      BY <1>5, <2>a, <3>3, <3>4
    <3>6. ended' \subseteq 0..fresh /\ ended' \cap (Held(grants) \cup Held(sessions)) = {} /\ ended' \cap Ids(taken) = {}
      BY <1>5, <2>0, <2>a, <3>3, <3>4
    <3>7. QED
      BY <1>2, <1>3, <3>1, <3>2, <3>5, <3>6, PromisesWritten
  <2>2. CASE Reissues(n)
    <3>1. PICK spare \in SUBSET Held(grants) :
             /\ fresh' = fresh + 1
             /\ Held(grants)' = (Held(grants) \ spare) \cup {fresh'} /\ promised' = promised \ spare
      BY <2>0, <2>2, IssueIds DEF Reissues
    <3>2. Held(sessions)' = Held(sessions) /\ ended' = ended
      BY <2>2 DEF Reissues, Held
    <3>3. Len(calls') = Len(calls) /\ \A m \in 1..Len(calls) : (Over(m) => Over(m)') /\ calls'[m].gone = calls[m].gone
      <4>1. ~Over(n)
        BY <2>2 DEF Reissues, Over
      <4>2. QED
        BY <2>0, <2>2, <4>1, CallMakes DEF Reissues, SavesAgain, Over
    <3>4. promised' \subseteq Ids(taken) \cap (Held(grants)' \cup Held(sessions)')
      BY <1>5, <3>1, <3>2
    <3>5. QED
      BY <1>2, <1>3, <1>5, <3>1, <3>2, <3>3, <3>4, PromisesWritten
  <2>3. CASE Removes(n)
    <3>1. Len(calls') = Len(calls) /\ \A m \in 1..Len(calls) : (Over(m) => Over(m)') /\ calls'[m].gone = calls[m].gone
      <4>1. ~Over(n)
        BY <2>3 DEF Removes, Over
      <4>2. QED
        BY <2>0, <2>3, <4>1, CallGoesOn DEF Removes, Stages, Over
    <3>2. Held(grants)' = Held(grants) /\ Held(sessions)' = Held(sessions) /\ fresh' = fresh /\ promised' = promised
      BY <2>3 DEF Removes, Held
    <3>3. ~Over(n) /\ (ended' = ended \/ ended' = ended \cup calls[n].gone)
      BY <2>3 DEF Removes, Over
    <3>4. ended' \subseteq 0..fresh /\ ended' \cap (Held(grants) \cup Held(sessions)) = {} /\ ended' \cap Ids(taken) = {}
      BY <1>5, <2>0, <2>a, <3>3
    <3>5. QED
      BY <1>2, <1>3, <1>5, <3>1, <3>2, <3>4, PromisesWritten
  <2>4. CASE Opens(n)
    <3>1. PICK spare \in SUBSET Held(sessions) :
             /\ fresh' = fresh + 1
             /\ Held(sessions)' = (Held(sessions) \ spare) \cup {fresh'} /\ promised' = promised \ spare
      BY <2>0, <2>4, SessionIds DEF Opens
    <3>2. Held(grants)' = Held(grants) /\ ended' = ended
      BY <2>4 DEF Opens, Held
    <3>3. Len(calls') = Len(calls) /\ \A m \in 1..Len(calls) : (Over(m) => Over(m)') /\ calls'[m].gone = calls[m].gone
      <4>1. ~Over(n)
        BY <2>4 DEF Opens, Over
      <4>2. QED
        BY <2>0, <2>4, <4>1, CallMakes DEF Opens, SavesAgain, Over
    <3>4. promised' \subseteq Ids(taken) \cap (Held(grants)' \cup Held(sessions)')
      BY <1>5, <3>1, <3>2
    <3>5. QED
      BY <1>2, <1>3, <1>5, <3>1, <3>2, <3>3, <3>4, PromisesWritten
  <2>5. CASE Approves(n)
    <3>1. Len(calls') = Len(calls) /\ \A m \in 1..Len(calls) : (Over(m) => Over(m)') /\ calls'[m].gone = calls[m].gone
      BY <2>0, <2>5, CallGoesOn DEF Approves, Stages, Over
    <3>2. Held(grants)' = Held(grants) /\ Held(sessions)' = Held(sessions) /\ fresh' = fresh /\ promised' = promised /\ ended' = ended
      BY <2>5 DEF Approves, memory, history, Held
    <3>3. QED
      BY <1>2, <1>3, <1>5, <3>1, <3>2, PromisesWritten
  <2>6. QED
    BY <1>7, <2>1, <2>2, <2>3, <2>4, <2>5 DEF EndWrite, n
<1>8. QED
  BY <1>6, <1>7

(* What a call that begins leaves as it was: the others, and the write that *)
(* is under way.                                                            *)
LEMMA OthersGoOn ==
    ASSUME TypeOK, NEW op \in Ops, NEW arg \in Nat, NEW using \in Nat, NEW mk \in Nat, NEW gone \in SUBSET Nat,
           NEW at \in Stages, Begun(op, arg, using, mk, gone, at)
    PROVE  /\ Len(calls') = Len(calls) + 1 /\ Len(calls') \in Nat /\ Len(calls) <= Len(calls')
           /\ \A n \in 1..Len(calls) : (Over(n) => Over(n)') /\ calls'[n].gone = calls[n].gone /\ calls'[n].made = calls[n].made
           /\ \A n \in 1..Len(calls') : n \in 1..Len(calls) \/ calls'[n].gone \subseteq gone
<1>1. Len(calls) \in Nat
  BY CallsAre
<1>2. /\ Len(calls') = Len(calls) + 1 /\ calls'[Len(calls) + 1].gone = gone
      /\ \A n \in 1..Len(calls) : calls'[n] = calls[n]
  BY CallBegins
<1>3. Len(calls') \in Nat /\ Len(calls) <= Len(calls') /\ \A n \in 1..Len(calls') : n \in 1..Len(calls) \/ n = Len(calls) + 1
  BY <1>1, <1>2
<1>4. \A n \in 1..Len(calls) : Over(n) => Over(n)'
  BY <1>2 DEF Over
<1>5. QED
  BY <1>2, <1>3, <1>4

LEMMA NothingEndsYet ==
    ASSUME TypeOK, NEW op \in Ops, NEW arg \in Nat, NEW using \in Nat, NEW mk \in Nat, NEW at \in Stages, Begun(op, arg, using, mk, {}, at)
    PROVE  /\ Len(calls') = Len(calls) + 1 /\ Len(calls') \in Nat /\ Len(calls) <= Len(calls')
           /\ \A n \in 1..Len(calls) : (Over(n) => Over(n)') /\ calls'[n].gone = calls[n].gone /\ calls'[n].made = calls[n].made
           /\ \A n \in 1..Len(calls') : n \in 1..Len(calls) \/ calls'[n].gone = {}
<1> DEFINE none == {}
<1>1. none \in SUBSET Nat /\ Begun(op, arg, using, mk, none, at)
  OBVIOUS
<1> HIDE DEF none
<1>2. /\ Len(calls') = Len(calls) + 1 /\ Len(calls') \in Nat /\ Len(calls) <= Len(calls')
      /\ \A n \in 1..Len(calls) : (Over(n) => Over(n)') /\ calls'[n].gone = calls[n].gone /\ calls'[n].made = calls[n].made
      /\ \A n \in 1..Len(calls') : n \in 1..Len(calls) \/ calls'[n].gone \subseteq none
  BY <1>1, OthersGoOn
<1>3. QED
  BY <1>2 DEF none

LEMMA WriteGoesOn ==
    ASSUME TypeOK, Len(calls') = Len(calls) + 1, Save(Len(calls) + 1), taken' = taken
    PROVE  taken' = None \/ (taken' = taken /\ Head(writes') = Head(writes))
  BY SaveQueued DEF TypeOK

(* Whenever the server stops, its file has every grant and session that     *)
(* somebody was told of and that was not ended since, and none of those     *)
(* that were reported ended once that was saved.                            *)
THEOREM RestartsKeepPromises == Spec => []RestartKeepsPromises
<1>1. Init => PromisesInv
  <2> SUFFICES ASSUME Init PROVE PromisesInv
    OBVIOUS
  <2>1. Held(grants) = {2} /\ Held(sessions) = {4} /\ promised = {2, 4} /\ ended = {}
    BY DEF Init, Held
  <2>2. KeptIn(Memory)
    BY <2>1, IdsOfMemory, MemoryFields DEF KeptIn
  <2>3. file = Memory /\ taken = None /\ Len(calls) = 0
    BY DEF Init
  <2>4. QED
    BY <2>1, <2>2, <2>3 DEF PromisesInv, Writer
<1>2. TypeOK /\ FreshInv /\ PromisesInv /\ [Next]_vars => PromisesInv'
  <2> SUFFICES ASSUME TypeOK, FreshInv, PromisesInv, [Next]_vars PROVE PromisesInv'
    OBVIOUS
  <2> USE DEF flows, store, history
  <2>0. /\ fresh \in Nat /\ fresh + 1 \in Nat /\ fresh <= fresh /\ fresh <= fresh + 1 /\ Me = Len(calls) + 1 /\ 0 \in Nat /\ {} \in SUBSET Nat
        /\ DOMAIN calls = 1..Len(calls) /\ Len(calls) \in Nat /\ Len(calls) <= Len(calls)
    BY CallsAre DEF TypeOK, Me
  <2>c. /\ Held(grants) \subseteq Nat /\ Held(sessions) \subseteq Nat /\ keys \subseteq Nat /\ clients \subseteq Nat
        /\ promised \subseteq Held(grants) \cup Held(sessions) /\ Held(grants) \cap Held(sessions) = {}
    BY NumbersOf, IdsOfMemory, MemoryFields DEF TypeOK, PromisesInv, KeptIn
  <2>d. (* Nothing happens to what is held, to the promises and to the calls. *)
        ASSUME UNCHANGED <<memory, fresh, calls, file, promised, ended>>, taken' = taken, writes' = writes PROVE PromisesInv'
    <3>1. Held(grants)' = Held(grants) /\ Held(sessions)' = Held(sessions) /\ \A n \in 1..Len(calls) : Over(n) <=> Over(n)'
      BY <2>d DEF memory, Held, Over
    <3>2. QED
      BY <2>0, <2>c, <2>d, <3>1, PromisesKept
  <2>1. ASSUME Register PROVE PromisesInv'
    <3> DEFINE gone == UNION {Of(grants, c) : c \in OldestOf(MaxClients, clients)}
    <3>1. Begun("register", fresh + 1, 0, 0, {}, "saving")
      BY <2>1 DEF Register
    <3>2. /\ grants' = Without(grants, gone) /\ promised' = promised \ gone
          /\ fresh' = fresh + 1 /\ UNCHANGED <<keys, sessions, file, taken, ended>>
      BY <2>1 DEF Register, Forgets
    <3>3. taken # None => Head(writes') = Head(writes)
      <4>1. writes \in Seq(0..Len(calls)) /\ (taken # None => writes # <<>>)
        BY DEF TypeOK
      <4>2. writes' = writes \o <<Me>> \/ writes' = writes \o <<0, Me>>
        BY <2>1 DEF Register
      <4>3. writes # <<>> => Head(writes \o <<Me>>) = Head(writes) /\ Head(writes \o <<0, Me>>) = Head(writes)
        BY <2>0, <4>1
      <4>4. QED
        BY <4>1, <4>2, <4>3
    <3> HIDE DEF gone
    <3>4. Held(grants)' = Held(grants) \ gone /\ Held(sessions)' = Held(sessions)
      BY <3>2, HeldWithout DEF Held
    <3>6. gone \subseteq Held(grants)
      BY NumbersOf DEF gone
    <3>5. promised' \subseteq promised \cap (Held(grants)' \cup Held(sessions)')
      BY <2>c, <3>2, <3>4
    <3>7. /\ Len(calls') \in Nat /\ Len(calls) <= Len(calls')
          /\ \A n \in 1..Len(calls) : (Over(n) => Over(n)') /\ calls'[n].gone = calls[n].gone /\ calls'[n].made = calls[n].made
          /\ \A n \in 1..Len(calls') : n \in 1..Len(calls) \/ calls'[n].gone = {}
      BY <2>0, <3>1, NothingEndsYet DEF Ops, Stages
    <3>8. QED
      BY <2>0, <3>2, <3>3, <3>4, <3>5, <3>7, PromisesKept
  <2>2. ASSUME NEW c \in clients, Authorize(c) PROVE PromisesInv'
    BY <2>2, <2>d DEF Authorize
  <2>3. ASSUME NEW c \in clients, Forget(c) PROVE PromisesInv'
    <3> DEFINE gone == Of(grants, c)
    <3>0. c \in Nat /\ gone \in SUBSET Nat /\ gone \subseteq Held(grants)
      BY <2>c, NumbersOf
    <3>1. /\ grants' = Without(grants, gone) /\ promised' = promised \ gone
          /\ fresh' = fresh /\ UNCHANGED <<keys, sessions, file, taken, ended>>
          /\ Save(Len(calls) + 1)
          /\ Begun("forget", c, 0, 0, gone, IF gone = {} THEN "saving" ELSE "ending")
      BY <2>0, <2>3 DEF Forget, Forgets
    <3> HIDE DEF gone
    <3>2. Held(grants)' = Held(grants) \ gone /\ Held(sessions)' = Held(sessions)
      BY <3>1, HeldWithout DEF Held
    <3>3. promised' \subseteq promised \cap (Held(grants)' \cup Held(sessions)')
      BY <2>c, <3>1, <3>2
    <3>4. /\ Len(calls') \in Nat /\ Len(calls) <= Len(calls') /\ Len(calls') = Len(calls) + 1
          /\ \A n \in 1..Len(calls) : (Over(n) => Over(n)') /\ calls'[n].gone = calls[n].gone /\ calls'[n].made = calls[n].made
          /\ \A n \in 1..Len(calls') : n \in 1..Len(calls) \/ calls'[n].gone \subseteq gone
      BY <2>0, <3>0, <3>1, OthersGoOn DEF Ops, Stages
    <3>5. gone \cap (Held(grants)' \cup Held(sessions)') = {}
      BY <2>c, <3>0, <3>2
    <3>6. taken' = None \/ (taken' = taken /\ Head(writes') = Head(writes))
      BY <3>1, <3>4, WriteGoesOn
    <3>7. QED
      BY <2>0, <3>1, <3>2, <3>3, <3>4, <3>5, <3>6, PromisesKept
  <2>4. ASSUME NEW c \in pending, Approve(c) PROVE PromisesInv'
    BY <2>4, <2>d DEF Approve
  <2>5. ASSUME NEW c \in codes, Exchange(c) PROVE PromisesInv'
    <3>0. c \in Nat
      BY DEF TypeOK
    <3>1. PICK spare \in SUBSET Held(grants) :
             /\ fresh' = fresh + 1
             /\ Held(grants)' = (Held(grants) \ spare) \cup {fresh'} /\ promised' = promised \ spare
      BY <2>0, <2>5, <3>0, IssueIds DEF Exchange
    <3>2. Held(sessions)' = Held(sessions) /\ UNCHANGED <<file, taken, ended>> /\ Save(Len(calls) + 1)
          /\ Begun("exchange", c, 0, fresh + 1, {}, "saving")
      BY <2>0, <2>5 DEF Exchange, Held
    <3>3. promised' \subseteq promised \cap (Held(grants)' \cup Held(sessions)')
      BY <2>c, <3>1, <3>2
    <3>4. /\ Len(calls') \in Nat /\ Len(calls) <= Len(calls') /\ Len(calls') = Len(calls) + 1
          /\ \A n \in 1..Len(calls) : (Over(n) => Over(n)') /\ calls'[n].gone = calls[n].gone /\ calls'[n].made = calls[n].made
          /\ \A n \in 1..Len(calls') : n \in 1..Len(calls) \/ calls'[n].gone = {}
      BY <2>0, <3>0, <3>2, NothingEndsYet DEF Ops, Stages
    <3>6. taken' = None \/ (taken' = taken /\ Head(writes') = Head(writes))
      BY <3>2, <3>4, WriteGoesOn
    <3>7. QED
      BY <2>0, <3>1, <3>2, <3>3, <3>4, <3>6, PromisesKept
  <2>6. ASSUME NEW g \in Held(grants), Refresh(g) PROVE PromisesInv'
    <3>0. g \in Nat /\ {g} \in SUBSET Nat /\ g \in Held(grants)
      BY <2>c
    <3>a. (CHOOSE x \in grants : x.id = g).owner \in Nat
      <4>1. \E x \in grants : x.id = g
        BY DEF Held
      <4>2. QED
        BY <4>1 DEF TypeOK, Owned
    <3>1. /\ grants' = Without(grants, {g}) /\ promised' = promised \ {g}
          /\ fresh' = fresh /\ UNCHANGED <<sessions, file, taken, ended>>
          /\ Save(Len(calls) + 1)
      BY <2>0, <2>6 DEF Refresh, Forgets
    <3>2. Held(grants)' = Held(grants) \ {g} /\ Held(sessions)' = Held(sessions)
      BY <3>1, HeldWithout DEF Held
    <3>3. promised' \subseteq promised \cap (Held(grants)' \cup Held(sessions)')
      BY <2>c, <3>1, <3>2
    <3>4. /\ Len(calls') \in Nat /\ Len(calls) <= Len(calls') /\ Len(calls') = Len(calls) + 1
          /\ \A n \in 1..Len(calls) : (Over(n) => Over(n)') /\ calls'[n].gone = calls[n].gone /\ calls'[n].made = calls[n].made
          /\ \A n \in 1..Len(calls') : n \in 1..Len(calls) \/ calls'[n].gone \subseteq {g}
      BY <2>0, <2>6, <3>0, <3>a, OthersGoOn DEF Refresh, Ops, Stages
    <3>5. {g} \cap (Held(grants)' \cup Held(sessions)') = {}
      BY <2>c, <3>0, <3>2
    <3>6. taken' = None \/ (taken' = taken /\ Head(writes') = Head(writes))
      BY <3>1, <3>4, WriteGoesOn
    <3>7. QED
      BY <2>0, <3>1, <3>2, <3>3, <3>4, <3>5, <3>6, PromisesKept
  <2>7. ASSUME NEW g \in Held(grants), Revoke(g) PROVE PromisesInv'
    <3>0. g \in Nat /\ {g} \in SUBSET Nat /\ g \in Held(grants)
      BY <2>c
    <3>1. /\ grants' = Without(grants, {g}) /\ promised' = promised \ {g}
          /\ fresh' = fresh /\ UNCHANGED <<sessions, file, taken, ended>>
          /\ Save(Len(calls) + 1)
      BY <2>0, <2>7 DEF Revoke, Forgets
    <3>2. Held(grants)' = Held(grants) \ {g} /\ Held(sessions)' = Held(sessions)
      BY <3>1, HeldWithout DEF Held
    <3>3. promised' \subseteq promised \cap (Held(grants)' \cup Held(sessions)')
      BY <2>c, <3>1, <3>2
    <3>4. /\ Len(calls') \in Nat /\ Len(calls) <= Len(calls') /\ Len(calls') = Len(calls) + 1
          /\ \A n \in 1..Len(calls) : (Over(n) => Over(n)') /\ calls'[n].gone = calls[n].gone /\ calls'[n].made = calls[n].made
          /\ \A n \in 1..Len(calls') : n \in 1..Len(calls) \/ calls'[n].gone \subseteq {g}
      BY <2>0, <2>7, <3>0, OthersGoOn DEF Revoke, Ops, Stages
    <3>5. {g} \cap (Held(grants)' \cup Held(sessions)') = {}
      BY <2>c, <3>0, <3>2
    <3>6. taken' = None \/ (taken' = taken /\ Head(writes') = Head(writes))
      BY <3>1, <3>4, WriteGoesOn
    <3>7. QED
      BY <2>0, <3>1, <3>2, <3>3, <3>4, <3>5, <3>6, PromisesKept
  <2>8. ASSUME NEW k \in keys, DropKey(k) PROVE PromisesInv'
    <3>0. k \in Nat /\ Of(sessions, k) \in SUBSET Nat /\ Of(sessions, k) \subseteq Held(sessions)
      BY <2>c, NumbersOf
    <3>1. /\ sessions' = Without(sessions, Of(sessions, k)) /\ promised' = promised \ Of(sessions, k)
          /\ fresh' = fresh /\ UNCHANGED <<grants, file, taken, ended>>
          /\ Save(Len(calls) + 1)
      BY <2>0, <2>8 DEF DropKey, Forgets
    <3>2. Held(sessions)' = Held(sessions) \ Of(sessions, k) /\ Held(grants)' = Held(grants)
      BY <3>1, HeldWithout DEF Held
    <3>3. promised' \subseteq promised \cap (Held(grants)' \cup Held(sessions)')
      BY <2>c, <3>1, <3>2
    <3>4. /\ Len(calls') \in Nat /\ Len(calls) <= Len(calls') /\ Len(calls') = Len(calls) + 1
          /\ \A n \in 1..Len(calls) : (Over(n) => Over(n)') /\ calls'[n].gone = calls[n].gone /\ calls'[n].made = calls[n].made
          /\ \A n \in 1..Len(calls') : n \in 1..Len(calls) \/ calls'[n].gone \subseteq Of(sessions, k)
      BY <2>0, <2>8, <3>0, OthersGoOn DEF DropKey, Ops, Stages
    <3>5. Of(sessions, k) \cap (Held(grants)' \cup Held(sessions)') = {}
      BY <2>c, <3>0, <3>2
    <3>6. taken' = None \/ (taken' = taken /\ Head(writes') = Head(writes))
      BY <3>1, <3>4, WriteGoesOn
    <3>7. QED
      BY <2>0, <3>1, <3>2, <3>3, <3>4, <3>5, <3>6, PromisesKept
  <2>9. ASSUME NEW s \in Held(sessions), Logout(s) PROVE PromisesInv'
    <3>0. s \in Nat /\ {s} \in SUBSET Nat /\ s \in Held(sessions)
      BY <2>c
    <3>1. /\ sessions' = Without(sessions, {s}) /\ promised' = promised \ {s}
          /\ fresh' = fresh /\ UNCHANGED <<grants, file, taken, ended>>
          /\ Save(Len(calls) + 1)
      BY <2>0, <2>9 DEF Logout, Forgets
    <3>2. Held(sessions)' = Held(sessions) \ {s} /\ Held(grants)' = Held(grants)
      BY <3>1, HeldWithout DEF Held
    <3>3. promised' \subseteq promised \cap (Held(grants)' \cup Held(sessions)')
      BY <2>c, <3>1, <3>2
    <3>4. /\ Len(calls') \in Nat /\ Len(calls) <= Len(calls') /\ Len(calls') = Len(calls) + 1
          /\ \A n \in 1..Len(calls) : (Over(n) => Over(n)') /\ calls'[n].gone = calls[n].gone /\ calls'[n].made = calls[n].made
          /\ \A n \in 1..Len(calls') : n \in 1..Len(calls) \/ calls'[n].gone \subseteq {s}
      BY <2>0, <2>9, <3>0, OthersGoOn DEF Logout, Ops, Stages
    <3>5. {s} \cap (Held(grants)' \cup Held(sessions)') = {}
      BY <2>c, <3>0, <3>2
    <3>6. taken' = None \/ (taken' = taken /\ Head(writes') = Head(writes))
      BY <3>1, <3>4, WriteGoesOn
    <3>7. QED
      BY <2>0, <3>1, <3>2, <3>3, <3>4, <3>5, <3>6, PromisesKept
  <2>10. ASSUME NEW purpose \in {"login", "register"}, Offer(purpose) PROVE PromisesInv'
    <3>1. fresh' = fresh + 1 /\ UNCHANGED <<memory, calls, writes, file, taken, promised, ended>>
      BY <2>10 DEF Offer
    <3>2. Held(grants)' = Held(grants) /\ Held(sessions)' = Held(sessions) /\ \A n \in 1..Len(calls) : Over(n) <=> Over(n)'
      BY <3>1 DEF memory, Held, Over
    <3>3. QED
      BY <2>0, <2>c, <3>1, <3>2, PromisesKept
  <2>11. ASSUME NEW arg \in Nat, NEW x \in challenges, NEW op \in {"login", "approve", "addKey"},
                Begun(op, arg, x.id, 0, {}, "verifying"), UNCHANGED <<memory, flows, fresh, store, history>>
         PROVE PromisesInv'
    <3>0. x.id \in Nat /\ op \in Ops /\ "verifying" \in Stages
      BY DEF TypeOK, Ops, Stages
    <3>1. Held(grants)' = Held(grants) /\ Held(sessions)' = Held(sessions)
      BY <2>11 DEF memory, Held
    <3>2. /\ Len(calls') \in Nat /\ Len(calls) <= Len(calls') /\ Len(calls') = Len(calls) + 1
          /\ \A n \in 1..Len(calls) : (Over(n) => Over(n)') /\ calls'[n].gone = calls[n].gone /\ calls'[n].made = calls[n].made
          /\ \A n \in 1..Len(calls') : n \in 1..Len(calls) \/ calls'[n].gone = {}
      BY <2>0, <2>11, <3>0, NothingEndsYet
    <3>3. QED
      BY <2>0, <2>c, <2>11, <3>1, <3>2, PromisesKept
  <2>12. ASSUME NEW n \in 1..Len(calls), Verified(n) PROVE PromisesInv'
    <3>1. Held(grants)' = Held(grants) /\ Held(sessions)' = Held(sessions) /\ UNCHANGED <<file, taken, promised, ended>>
      BY <2>12 DEF Verified, Held
    <3>2. Held(grants) \cup Held(sessions) \subseteq 0..fresh /\ fresh + 1 \notin 0..fresh
      BY <2>0, IdsOfMemory DEF FreshInv, FreshIn
    <3>3. ~Over(n)
      BY <2>12 DEF Verified, Over
    <3>4. taken' = None \/ (taken' = taken /\ Head(writes') = Head(writes))
      <4>1. writes' = writes \/ writes' = Append(writes, n)
        BY <2>12 DEF Verified, Save
      <4>2. writes \in Seq(0..Len(calls)) /\ (taken # None => writes # <<>>)
        BY DEF TypeOK
      <4>3. writes # <<>> => Head(Append(writes, n)) = Head(writes)
        BY <4>2
      <4>4. QED
        BY <3>1, <4>1, <4>2, <4>3
    <3>5. CASE calls' = [calls EXCEPT ![n].at = "saving", ![n].made = fresh + 1] /\ fresh' = fresh + 1
      <4>1. /\ Len(calls') = Len(calls) /\ \A m \in 1..Len(calls) : m # n => calls'[m] = calls[m]
            /\ calls'[n].made = fresh + 1 /\ calls'[n].gone = calls[n].gone
        BY <3>5, CallMakes
      <4>2. \A m \in 1..Len(calls) : Over(m) => Over(m)'
        BY <3>3, <4>1 DEF Over
      <4>3. QED
        BY <2>0, <2>c, <3>1, <3>2, <3>4, <3>5, <4>1, <4>2, PromisesKept
    <3>6. CASE (Ends(n, "noting") \/ Ends(n, "failed")) /\ fresh' = fresh
      <4>1. /\ Len(calls') = Len(calls) /\ \A m \in 1..Len(calls) : m # n => calls'[m] = calls[m]
            /\ calls'[n].made = calls[n].made /\ calls'[n].gone = calls[n].gone
        BY <3>6, CallGoesOn DEF Stages
      <4>2. \A m \in 1..Len(calls) : Over(m) => Over(m)'
        BY <3>3, <4>1 DEF Over
      <4>3. QED
        BY <2>0, <2>c, <3>1, <3>4, <3>6, <4>1, <4>2, PromisesKept
    <3>7. QED
      BY <2>12, <3>5, <3>6 DEF Verified, Ends
  <2>13. ASSUME Expire PROVE PromisesInv'
    BY <2>13, <2>d DEF Expire
  <2>14. ASSUME BeginWrite PROVE PromisesInv'
    <3>1. taken' = Memory /\ UNCHANGED <<memory, fresh, calls, writes, file, promised, ended>> /\ Memory' = Memory
      BY <2>14 DEF BeginWrite, Take, memory, Memory
    <3>2. Writer' # 0 => Writer' \in 1..Len(calls)
      BY <2>14, <3>1, QueueIs DEF Writer, BeginWrite
    <3>3. \A n \in 1..Len(calls) : Over(n)' <=> Over(n)
      BY <3>1 DEF Over
    <3>4. KeptIn(Memory)' /\ KeptIn(file)' /\ KeptIn(taken)' /\ ended' \subseteq 0..fresh'
      BY <3>1 DEF PromisesInv, KeptIn, Ids, Held
    <3>5. Ids(Memory)' = Ids(Memory) /\ Ids(taken)' = Ids(Memory)
      BY <3>1 DEF Ids, Held
    <3>6. \A n \in 1..Len(calls) : ~Over(n)' => calls'[n].gone \cap Ids(Memory)' = {}
      BY <3>1, <3>3, <3>5 DEF PromisesInv
    <3>7. QED
      BY <3>1, <3>2, <3>4, <3>5, <3>6 DEF PromisesInv
  <2>15. ASSUME EndWrite PROVE PromisesInv'
    BY <2>15, EndWritePromises
  <2>16. ASSUME WriteFails PROVE PromisesInv'
    <3>1. Head(writes) # 0 => Head(writes) \in 1..Len(calls)
      BY <2>16, QueueIs DEF WriteFails, TypeOK
    <3>2. taken' = None /\ UNCHANGED <<memory, fresh, file, promised, ended>>
      BY <2>16 DEF WriteFails
    <3>3. Held(grants)' = Held(grants) /\ Held(sessions)' = Held(sessions)
      BY <3>2 DEF memory, Held
    <3>4. Len(calls') = Len(calls) /\ \A n \in 1..Len(calls) : (Over(n) => Over(n)') /\ calls'[n].gone = calls[n].gone /\ calls'[n].made = calls[n].made
      <4>1. CASE Head(writes) = 0
        BY <2>16, <4>1 DEF WriteFails, Over
      <4>2. CASE Head(writes) # 0
        BY <2>16, <3>1, <4>2, CallGoesOn DEF WriteFails, Stages, Over
      <4>3. QED
        BY <4>1, <4>2
    <3>5. QED
      BY <2>0, <2>c, <3>2, <3>3, <3>4, PromisesKept
  <2>17. ASSUME Restart PROVE PromisesInv'
    <3>1. UNCHANGED <<fresh, file, promised, ended>> /\ taken' = None
          /\ grants' = file.grants /\ sessions' = file.sessions
      BY <2>17 DEF Restart
    <3>2. Ids(Memory)' = Ids(file) /\ Held(Memory.grants)' = Held(file.grants) /\ Held(Memory.sessions)' = Held(file.sessions)
      BY <3>1 DEF Ids, Memory, Held
    <3>3. KeptIn(Memory)' /\ KeptIn(file)' /\ ended' \subseteq 0..fresh'
      BY <3>1, <3>2 DEF PromisesInv, KeptIn, Ids, Held
    <3>4. \A n \in 1..Len(calls') : Over(n)'
      BY <2>17, CallsAreLost DEF Over
    <3>5. QED
      BY <3>1, <3>3, <3>4 DEF PromisesInv, Writer
  <2>18. CASE UNCHANGED vars
    BY <2>18, <2>d DEF vars
  <2>19. ASSUME NEW x \in challenges, \/ AddKey(x.id) \/ \E k \in keys : Login(k, x.id)
                                      \/ \E c \in pending : ApproveByPasskey(c, x.id)
         PROVE  PromisesInv'
    BY <2>11, <2>19 DEF AddKey, Login, ApproveByPasskey, TypeOK
  <2>20. QED
    BY <2>0, <2>1, <2>2, <2>3, <2>4, <2>5, <2>6, <2>7, <2>8, <2>9, <2>10, <2>12, <2>13, <2>14, <2>15, <2>16,
       <2>17, <2>18, <2>19 DEF Next
<1>3. PromisesInv => RestartKeepsPromises
  BY IdsOfMemory DEF PromisesInv, KeptIn, RestartKeepsPromises, Ids
<1>4. QED
  BY <1>1, <1>2, <1>3, CredentialsTypeCorrect, NumbersAreFresh, PTL DEF Spec

-----------------------------------------------------------------------------
(* What a refresh token and a challenge buy. *)

(* No call comes to be about to make something with what it spent. *)
NoMoreSpenders == \A n \in 1..Len(calls') :
    /\ Refreshing(n)' => n \in 1..Len(calls) /\ Refreshing(n) /\ calls'[n].using = calls[n].using
    /\ LoggingIn(n)' => n \in 1..Len(calls) /\ LoggingIn(n) /\ calls'[n].using = calls[n].using

(* The store is written, or goes on, or stops. *)
StoreGoesOn ==
    \/ file' = file /\ (taken' = None \/ (taken' = taken /\ Head(writes') = Head(writes)))
    \/ taken # None /\ file' = taken /\ taken' = None

(* What there is to buy with, but for a new number of one of the kinds. *)
OneNew ==
    \/ \A i : (MayBuy(i)' => MayBuy(i) \/ i = fresh + 1) /\ (Challenged(i)' => Challenged(i))
    \/ \A i : (MayBuy(i)' => MayBuy(i)) /\ (Challenged(i)' => Challenged(i) \/ i = fresh + 1)

LEMMA NewIsUnused ==
    ASSUME TypeOK, FreshInv
    PROVE  ~MayBuy(fresh + 1) /\ ~Challenged(fresh + 1) /\ fresh \in Nat
<1>1. fresh \in Nat /\ fresh + 1 \notin 0..fresh
  BY DEF TypeOK
<1>2. fresh + 1 \notin Held(grants) /\ fresh + 1 \notin Held(file.grants) /\ (taken # None => fresh + 1 \notin Held(taken.grants))
  BY <1>1, IdsOfMemory DEF FreshInv, FreshIn, Ids
<1>3. fresh + 1 \notin Held(challenges) /\ \A n \in 1..Len(calls) : calls[n].using # fresh + 1
  BY <1>1 DEF FreshInv
<1>4. QED
  BY <1>1, <1>2, <1>3 DEF MayBuy, Challenged

(* What was bought stays bought once, while nothing is made. *)
LEMMA NothingBought ==
    ASSUME TypeOK, FreshInv, BoughtOnce, heirs' = heirs, OneNew
    PROVE  BoughtOnce'
<1>1. SpentOnce'
  BY DEF BoughtOnce, SpentOnce
<1>2. ~MayBuy(fresh + 1) /\ ~Challenged(fresh + 1) /\ fresh \in Nat
  BY NewIsUnused
<1>3. ASSUME NEW i \in 1..(MaxFresh + MaxCalls), heirs'[i] # {} PROVE ~MayBuy(i)' /\ ~Challenged(i)'
  <2>1. i <= fresh /\ ~MayBuy(i) /\ ~Challenged(i)
    BY <1>3 DEF BoughtOnce, FreshInv
  <2>2. i # fresh + 1
    <3>1. MaxFresh + MaxCalls \in Nat
      BY LimitsAssumption
    <3>2. QED
      BY <1>2, <2>1, <3>1
  <2>3. QED
    BY <2>1, <2>2 DEF OneNew
<1>4. ASSUME NEW i \in Nat PROVE ~(MayBuy(i)' /\ Challenged(i)')
  BY <1>2 DEF OneNew, BoughtOnce
<1>5. QED
  BY <1>1, <1>3, <1>4 DEF BoughtOnce

(* What is made is made with something that is spent, and was not before. *)
LEMMA OneBought ==
    ASSUME TypeOK, FreshInv, BoughtOnce, OneNew, NEW u \in 0..fresh, MayBuy(u) \/ Challenged(u), ~MayBuy(u)', ~Challenged(u)', NEW mk,
           heirs' = IF u = 0 THEN heirs ELSE [heirs EXCEPT ![u] = @ \cup {mk}]
    PROVE  BoughtOnce'
<1>1. CASE u \in 1..(MaxFresh + MaxCalls) /\ u # 0
  <2>1. heirs[u] = {} /\ DOMAIN heirs = 1..(MaxFresh + MaxCalls)
    BY <1>1 DEF BoughtOnce, TypeOK
  <2>2. heirs' = [heirs EXCEPT ![u] = {mk}]
    BY <1>1, <2>1
  <2>3. heirs'[u] = {mk} /\ \A i \in 1..(MaxFresh + MaxCalls) : i # u => heirs'[i] = heirs[i]
    BY <1>1, <2>1, <2>2
  <2>4. SpentOnce'
    <3>1. DOMAIN heirs' = 1..(MaxFresh + MaxCalls)
      BY <2>1, <2>2
    <3>2. Cardinality({mk}) = 1
      BY FS_Singleton
    <3>3. \A i \in DOMAIN heirs' : Cardinality(heirs'[i]) <= 1
      BY <2>1, <2>3, <3>1, <3>2 DEF BoughtOnce, SpentOnce
    <3>4. QED
      BY <3>3 DEF SpentOnce
  <2>5. ~MayBuy(fresh + 1) /\ ~Challenged(fresh + 1) /\ fresh \in Nat
    BY NewIsUnused
  <2>6. ASSUME NEW i \in 1..(MaxFresh + MaxCalls), heirs'[i] # {} PROVE ~MayBuy(i)' /\ ~Challenged(i)'
    <3>1. CASE i = u
      BY <3>1
    <3>2. CASE i # u
      <4>1. i <= fresh /\ ~MayBuy(i) /\ ~Challenged(i)
        BY <2>3, <2>6, <3>2 DEF BoughtOnce, FreshInv
      <4>2. i # fresh + 1
        <5>1. MaxFresh + MaxCalls \in Nat
          BY LimitsAssumption
        <5>2. QED
          BY <2>5, <4>1, <5>1
      <4>3. QED
        BY <4>1, <4>2 DEF OneNew
    <3>3. QED
      BY <3>1, <3>2
  <2>7. ASSUME NEW i \in Nat PROVE ~(MayBuy(i)' /\ Challenged(i)')
    BY <2>5 DEF OneNew, BoughtOnce
  <2>8. QED
    BY <2>4, <2>6, <2>7 DEF BoughtOnce
<1>2. CASE u \notin 1..(MaxFresh + MaxCalls) \/ u = 0
  <2>1. heirs' = heirs
    BY <1>2 DEF TypeOK
  <2>2. QED
    BY <2>1, NothingBought
<1>3. QED
  BY <1>1, <1>2

LEMMA SpendersStayApart ==
    ASSUME TypeOK, FreshInv, SpendersApart, NoMoreSpenders, StoreGoesOn, 1..Len(calls) \subseteq 1..Len(calls'),
           Held(grants)' \subseteq Held(grants) \cup {fresh + 1}, Held(challenges)' \subseteq Held(challenges) \cup {fresh + 1}
    PROVE  SpendersApart'
<1>1. fresh \in Nat /\ fresh + 1 \notin 0..fresh
  BY DEF TypeOK
<1>2. \A n \in 1..Len(calls) : calls[n].using # fresh + 1
  BY <1>1 DEF FreshInv
<1>3. \A n \in 1..Len(calls') : Refreshing(n)' => calls'[n].using \notin Held(grants)'
  BY <1>2 DEF SpendersApart, NoMoreSpenders
<1>4. \A n \in 1..Len(calls') : LoggingIn(n)' => calls'[n].using \notin Held(challenges)'
  BY <1>2 DEF SpendersApart, NoMoreSpenders
<1>5. \A n, m \in 1..Len(calls') : calls'[n].using = calls'[m].using /\ Refreshing(n)' /\ Refreshing(m)' => n = m
  BY DEF SpendersApart, NoMoreSpenders
<1>6. \A n, m \in 1..Len(calls') : calls'[n].using = calls'[m].using /\ LoggingIn(n)' /\ LoggingIn(m)' => n = m
  BY DEF SpendersApart, NoMoreSpenders
<1>7. Writer' # 0 /\ Refreshing(Writer)' => calls'[Writer'].using \notin Held(taken.grants)'
  <2> SUFFICES ASSUME Writer' # 0, Refreshing(Writer)' PROVE calls'[Writer'].using \notin Held(taken.grants)'
    OBVIOUS
  <2>1. taken' = taken /\ taken # None /\ Writer' = Writer /\ Writer = Head(writes)
    BY DEF Writer, StoreGoesOn
  <2>2. Writer \in 1..Len(calls)
    BY <2>1, QueueIs DEF TypeOK
  <2>3. Refreshing(Writer) /\ calls'[Writer].using = calls[Writer].using
    BY <2>1, <2>2 DEF NoMoreSpenders, Refreshing
  <2>4. calls[Writer].using \notin Held(taken.grants)
    BY <2>1, <2>3 DEF SpendersApart
  <2>5. Held(taken.grants)' = Held(taken.grants)
    BY <2>1 DEF Held
  <2>6. QED
    BY <2>1, <2>3, <2>4, <2>5
<1>8. QED
  BY <1>3, <1>4, <1>5, <1>6, <1>7 DEF SpendersApart

(* There is no more to buy with than what is new. *)
LEMMA NothingMoreToBuyWith ==
    ASSUME TypeOK, NoMoreSpenders, StoreGoesOn
    PROVE  /\ \A i : MayBuy(i)' => MayBuy(i) \/ i \in Held(grants)'
           /\ \A i : Challenged(i)' => Challenged(i) \/ i \in Held(challenges)'
<1>1. ASSUME NEW i, MayBuy(i)' PROVE MayBuy(i) \/ i \in Held(grants)'
  <2>1. CASE i \in Held(file.grants)' \/ (taken' # None /\ i \in Held(taken.grants)')
    BY <2>1 DEF StoreGoesOn, MayBuy, Held
  <2>2. CASE \E n \in 1..Len(calls') : Refreshing(n)' /\ calls'[n].using = i
    BY <2>2 DEF NoMoreSpenders, MayBuy
  <2>3. QED
    BY <1>1, <2>1, <2>2 DEF MayBuy
<1>2. ASSUME NEW i, Challenged(i)' PROVE Challenged(i) \/ i \in Held(challenges)'
  BY <1>2 DEF NoMoreSpenders, Challenged
<1>3. QED
  BY <1>1, <1>2

LEMMA SpentKept ==
    ASSUME TypeOK, FreshInv, SpentInv, NoMoreSpenders, StoreGoesOn, 1..Len(calls) \subseteq 1..Len(calls'), heirs' = heirs,
           \/ Held(grants)' \subseteq Held(grants) \cup {fresh + 1} /\ Held(challenges)' \subseteq Held(challenges)
           \/ Held(grants)' \subseteq Held(grants) /\ Held(challenges)' \subseteq Held(challenges) \cup {fresh + 1}
    PROVE  SpentInv'
<1>1. /\ \A i : MayBuy(i)' => MayBuy(i) \/ i \in Held(grants)'
      /\ \A i : Challenged(i)' => Challenged(i) \/ i \in Held(challenges)'
      /\ \A i \in Held(grants) : MayBuy(i)
      /\ \A i \in Held(challenges) : Challenged(i)
  BY NothingMoreToBuyWith DEF MayBuy, Challenged
<1>2. OneNew
  <2>1. CASE Held(grants)' \subseteq Held(grants) \cup {fresh + 1} /\ Held(challenges)' \subseteq Held(challenges)
    BY <1>1, <2>1 DEF OneNew
  <2>2. CASE Held(grants)' \subseteq Held(grants) /\ Held(challenges)' \subseteq Held(challenges) \cup {fresh + 1}
    BY <1>1, <2>2 DEF OneNew
  <2>3. QED
    BY <2>1, <2>2
<1>3. BoughtOnce' /\ SpendersApart'
  BY <1>2, NothingBought, SpendersStayApart DEF SpentInv
<1>4. QED
  BY <1>3 DEF SpentInv

(* Calls that begin without having spent anything, and that end. *)
LEMMA NoSpenderBegins ==
    ASSUME TypeOK, NEW op \in Ops, NEW arg \in Nat, NEW using \in Nat, NEW mk \in Nat, NEW gone \in SUBSET Nat,
           NEW at \in Stages, Begun(op, arg, using, mk, gone, at), op # "refresh", at # "noting"
    PROVE  NoMoreSpenders /\ 1..Len(calls) \subseteq 1..Len(calls') /\ Len(calls') = Len(calls) + 1
<1>1. Len(calls) \in Nat
  BY CallsAre
<1>2. /\ Len(calls') = Len(calls) + 1 /\ calls'[Len(calls) + 1].op = op /\ calls'[Len(calls) + 1].at = at
      /\ \A n \in 1..Len(calls) : calls'[n] = calls[n]
  BY CallBegins
<1>3. \A n \in 1..Len(calls') : n \in 1..Len(calls) \/ n = Len(calls) + 1
  BY <1>1, <1>2
<1>4. \A n \in 1..Len(calls') : n \in 1..Len(calls) \/ ~(Refreshing(n)' \/ LoggingIn(n)')
  BY <1>2, <1>3 DEF Refreshing, LoggingIn
<1>5. \A n \in 1..Len(calls) : (Refreshing(n)' => Refreshing(n)) /\ (LoggingIn(n)' => LoggingIn(n)) /\ calls'[n].using = calls[n].using
  BY <1>2 DEF Refreshing, LoggingIn
<1>6. NoMoreSpenders
  <2> SUFFICES ASSUME NEW n \in 1..Len(calls'), Refreshing(n)' \/ LoggingIn(n)' PROVE n \in 1..Len(calls)
    BY <1>5 DEF NoMoreSpenders
  <2>1. QED
    BY <1>4
<1>7. 1..Len(calls) \subseteq 1..Len(calls')
  BY <1>1, <1>2
<1>8. QED
  BY <1>2, <1>6, <1>7

LEMMA NoSpenderGoesOn ==
    ASSUME TypeOK, NEW n \in 1..Len(calls), Len(calls') = Len(calls),
           \A m \in 1..Len(calls) : m # n => calls'[m] = calls[m],
           calls'[n].at \notin {"ending", "noting"}
    PROVE  NoMoreSpenders /\ 1..Len(calls) \subseteq 1..Len(calls')
<1>1. \A m \in 1..Len(calls) : m # n => (Refreshing(m)' <=> Refreshing(m)) /\ (LoggingIn(m)' <=> LoggingIn(m)) /\ calls'[m].using = calls[m].using
  BY DEF Refreshing, LoggingIn
<1>2. ~Refreshing(n)' /\ ~LoggingIn(n)'
  BY DEF Refreshing, LoggingIn
<1>3. QED
  BY <1>1, <1>2 DEF NoMoreSpenders

LEMMA CallsUnchanged ==
    ASSUME calls' = calls
    PROVE  NoMoreSpenders /\ 1..Len(calls) \subseteq 1..Len(calls')
  BY DEF NoMoreSpenders, Refreshing, LoggingIn

(* A refresh token and a challenge are spent when they are first presented. *)
LEMMA RefreshSpends ==
    ASSUME TypeOK, FreshInv, SpentInv, NEW g \in Held(grants), Refresh(g)
    PROVE  SpentInv'
<1>0. Len(calls) \in Nat /\ Me = Len(calls) + 1 /\ g \in Nat /\ {g} \in SUBSET Nat /\ 0 \in Nat
  BY CallsAre, NumbersOf DEF Me
<1>1. (CHOOSE x \in grants : x.id = g).owner \in Nat
  <2>1. \E x \in grants : x.id = g
    BY DEF Held
  <2>2. QED
    BY <2>1 DEF TypeOK, Owned
<1>2. /\ Len(calls') = Len(calls) + 1 /\ \A n \in 1..Len(calls) : calls'[n] = calls[n]
      /\ calls'[Len(calls) + 1].op = "refresh" /\ calls'[Len(calls) + 1].at = "ending" /\ calls'[Len(calls) + 1].using = g
  <2>1. PICK c \in Nat : Begun("refresh", c, g, 0, {g}, "ending")
    BY <1>1 DEF Refresh
  <2>2. "refresh" \in Ops /\ "ending" \in Stages
    BY DEF Ops, Stages
  <2>3. QED
    BY <1>0, <2>1, <2>2, CallBegins
<1>3. Held(grants)' = Held(grants) \ {g} /\ Held(challenges)' = Held(challenges)
      /\ UNCHANGED <<file, taken, heirs>> /\ Save(Len(calls) + 1)
  <2>1. grants' = Without(grants, {g}) /\ UNCHANGED <<challenges, file, taken, heirs>> /\ Save(Len(calls) + 1)
    BY <1>0 DEF Refresh, flows
  <2>2. QED
    BY <2>1, HeldWithout DEF Held
<1>4. taken' = None \/ (taken' = taken /\ Head(writes') = Head(writes))
  BY <1>2, <1>3, WriteGoesOn
<1>5. \A n \in 1..Len(calls') : n \in 1..Len(calls) \/ n = Len(calls) + 1
  BY <1>0, <1>2
<1>6. \A n \in 1..Len(calls) : (Refreshing(n)' <=> Refreshing(n)) /\ (LoggingIn(n)' <=> LoggingIn(n)) /\ calls'[n].using = calls[n].using
  BY <1>2 DEF Refreshing, LoggingIn
<1>7. \A n \in 1..Len(calls') : n \in 1..Len(calls) \/ (calls'[n].using = g /\ ~LoggingIn(n)')
  BY <1>2, <1>5 DEF LoggingIn
<1>8. BoughtOnce'
  <2>1. ASSUME NEW i, MayBuy(i)' PROVE MayBuy(i)
    <3>1. CASE i \in Held(grants)' \/ i \in Held(file.grants)' \/ (taken' # None /\ i \in Held(taken.grants)')
      BY <1>3, <3>1 DEF MayBuy, Held
    <3>2. CASE \E n \in 1..Len(calls') : Refreshing(n)' /\ calls'[n].using = i
      BY <1>6, <1>7, <3>2 DEF MayBuy
    <3>3. QED
      BY <2>1, <3>1, <3>2 DEF MayBuy
  <2>2. ASSUME NEW i, Challenged(i)' PROVE Challenged(i)
    BY <1>3, <1>6, <1>7, <2>2 DEF Challenged
  <2>3. OneNew
    BY <2>1, <2>2 DEF OneNew
  <2>4. QED
    BY <1>3, <2>3, NothingBought DEF SpentInv
<1>9. SpendersApart'
  <2>0. SpendersApart
    BY DEF SpentInv
  <2>1. \A n \in 1..Len(calls') : Refreshing(n)' => calls'[n].using \notin Held(grants)'
    BY <1>3, <1>6, <1>7, <2>0 DEF SpendersApart
  <2>2. \A n \in 1..Len(calls') : LoggingIn(n)' => calls'[n].using \notin Held(challenges)'
    BY <1>3, <1>6, <1>7, <2>0 DEF SpendersApart
  <2>3. \A n \in 1..Len(calls) : Refreshing(n) => calls[n].using # g
    BY <2>0 DEF SpendersApart
  <2>4. ASSUME NEW n \in 1..Len(calls'), NEW m \in 1..Len(calls'), calls'[n].using = calls'[m].using, Refreshing(n)', Refreshing(m)' PROVE n = m
    <3>1. CASE n \in 1..Len(calls) /\ m \in 1..Len(calls)
      BY <1>6, <2>0, <2>4, <3>1 DEF SpendersApart
    <3>2. CASE n \notin 1..Len(calls)
      BY <1>5, <1>6, <1>7, <2>3, <2>4, <3>2
    <3>3. CASE m \notin 1..Len(calls)
      BY <1>5, <1>6, <1>7, <2>3, <2>4, <3>3
    <3>4. QED
      BY <3>1, <3>2, <3>3
  <2>5. \A n, m \in 1..Len(calls') : calls'[n].using = calls'[m].using /\ LoggingIn(n)' /\ LoggingIn(m)' => n = m
    BY <1>6, <1>7, <2>0 DEF SpendersApart
  <2>6. Writer' # 0 /\ Refreshing(Writer)' => calls'[Writer'].using \notin Held(taken.grants)'
    <3> SUFFICES ASSUME Writer' # 0, Refreshing(Writer)' PROVE calls'[Writer'].using \notin Held(taken.grants)'
      OBVIOUS
    <3>1. taken' = taken /\ taken # None /\ Writer' = Writer /\ Writer = Head(writes)
      BY <1>4 DEF Writer
    <3>2. Writer \in 1..Len(calls)
      BY <3>1, QueueIs DEF TypeOK
    <3>3. Refreshing(Writer)
      BY <1>2, <3>1, <3>2 DEF Refreshing
    <3>4. calls[Writer].using \notin Held(taken.grants)
      BY <2>0, <3>1, <3>3 DEF SpendersApart
    <3>5. Held(taken.grants)' = Held(taken.grants)
      BY <3>1 DEF Held
    <3>6. QED
      BY <1>6, <3>1, <3>2, <3>4, <3>5
  <2>7. QED
    BY <2>1, <2>2, <2>4, <2>5, <2>6 DEF SpendersApart
<1>10. QED
  BY <1>8, <1>9 DEF SpentInv

LEMMA VerifiedSpends ==
    ASSUME TypeOK, FreshInv, SpentInv, NEW n \in 1..Len(calls), Verified(n)
    PROVE  SpentInv'
<1>u. PICK u : u = calls[n].using
  OBVIOUS
<1>0. u \in 0..fresh /\ fresh \in Nat /\ 1..Len(calls) \subseteq 1..Len(calls)
  BY <1>u DEF FreshInv, TypeOK
<1>1. Held(challenges)' = Held(challenges) \ {u} /\ Held(grants)' = Held(grants) /\ UNCHANGED <<grants, file, taken>>
  <2>1. challenges' = Without(challenges, {u}) /\ UNCHANGED <<grants, file, taken>>
    BY <1>u DEF Verified, Spend
  <2>2. QED
    BY <2>1, HeldWithout DEF Held
<1>2. StoreGoesOn
  <2>1. writes' = writes \/ writes' = Append(writes, n)
    BY DEF Verified, Save
  <2>2. writes \in Seq(0..Len(calls)) /\ (taken # None => writes # <<>>)
    BY DEF TypeOK
  <2>3. writes # <<>> => Head(Append(writes, n)) = Head(writes)
    BY <2>2
  <2>4. QED
    BY <1>1, <2>1, <2>2, <2>3 DEF StoreGoesOn
<1>3. (\E x \in challenges : x.id = u) => u \in Held(challenges)
  BY DEF Held
<1>4. CASE Ends(n, "failed") /\ heirs' = heirs
  <2>1. /\ Len(calls') = Len(calls) /\ \A m \in 1..Len(calls) : m # n => calls'[m] = calls[m]
        /\ calls'[n].at = "failed"
    BY <1>4, CallGoesOn DEF Stages
  <2>2. NoMoreSpenders /\ 1..Len(calls) \subseteq 1..Len(calls')
    BY <2>1, NoSpenderGoesOn
  <2>3. QED
    BY <1>1, <1>2, <1>4, <2>2, SpentKept
<1>5. CASE /\ u \in Held(challenges) /\ fresh' = fresh + 1 /\ Makes(u)
           /\ calls' = [calls EXCEPT ![n].at = "saving", ![n].made = fresh + 1]
  <2>1. /\ Len(calls') = Len(calls) /\ \A m \in 1..Len(calls) : m # n => calls'[m] = calls[m]
        /\ calls'[n].at = "saving"
    BY <1>5, CallMakes
  <2>2. NoMoreSpenders /\ 1..Len(calls) \subseteq 1..Len(calls')
    BY <2>1, NoSpenderGoesOn
  <2>3. SpendersApart'
    BY <1>1, <1>2, <2>2, SpendersStayApart DEF SpentInv
  <2>4. Challenged(u) /\ \A i \in Held(grants) : MayBuy(i)
    BY <1>5 DEF Challenged, MayBuy
  <2>a. \A i \in Held(challenges) : Challenged(i)
    BY DEF Challenged
  <2>5. OneNew
    BY <1>1, <1>2, <2>2, <2>4, <2>a, NothingMoreToBuyWith DEF OneNew
  <2>6. ~MayBuy(u)'
    <3>1. ~MayBuy(u)
      BY <1>0, <2>4 DEF SpentInv, BoughtOnce
    <3>2. QED
      BY <1>1, <1>2, <2>2, <2>4, <3>1, NothingMoreToBuyWith
  <2>7. ~Challenged(u)'
    <3>1. \A m \in 1..Len(calls) : LoggingIn(m) => calls[m].using # u
      BY <1>5 DEF SpentInv, SpendersApart
    <3>2. QED
      BY <1>1, <2>2, <3>1 DEF Challenged, NoMoreSpenders
  <2>8. BoughtOnce'
    BY <1>0, <1>5, <2>4, <2>5, <2>6, <2>7, OneBought DEF Makes, SpentInv
  <2>9. QED
    BY <2>3, <2>8 DEF SpentInv
<1>6. CASE u \in Held(challenges) /\ Ends(n, "noting") /\ heirs' = heirs
  <2>1. /\ Len(calls') = Len(calls) /\ \A m \in 1..Len(calls) : m # n => calls'[m] = calls[m]
        /\ calls'[n].at = "noting" /\ calls'[n].using = u
    BY <1>6, <1>u, CallGoesOn DEF Stages
  <2>2. \A m \in 1..Len(calls) : m # n => (Refreshing(m)' <=> Refreshing(m)) /\ (LoggingIn(m)' <=> LoggingIn(m)) /\ calls'[m].using = calls[m].using
    BY <2>1 DEF Refreshing, LoggingIn
  <2>3. ~Refreshing(n)'
    BY <2>1 DEF Refreshing
  <2>4. \A m \in 1..Len(calls) : LoggingIn(m) => calls[m].using # u
    BY <1>6 DEF SpentInv, SpendersApart
  <2>5. OneNew
    <3>1. ASSUME NEW i, MayBuy(i)' PROVE MayBuy(i)
      <4>1. CASE i \in Held(grants)' \/ i \in Held(file.grants)' \/ (taken' # None /\ i \in Held(taken.grants)')
        BY <1>1, <4>1 DEF MayBuy, Held
      <4>2. CASE \E m \in 1..Len(calls') : Refreshing(m)' /\ calls'[m].using = i
        BY <2>1, <2>2, <2>3, <4>2 DEF MayBuy
      <4>3. QED
        BY <3>1, <4>1, <4>2 DEF MayBuy
    <3>2. ASSUME NEW i, Challenged(i)' PROVE Challenged(i)
      BY <1>1, <1>6, <2>1, <2>2, <3>2 DEF Challenged
    <3>3. QED
      BY <3>1, <3>2 DEF OneNew
  <2>6. BoughtOnce'
    BY <1>6, <2>5, NothingBought DEF SpentInv
  <2>7. SpendersApart'
    <3>0. SpendersApart
      BY DEF SpentInv
    <3>1. \A m \in 1..Len(calls') : Refreshing(m)' => calls'[m].using \notin Held(grants)'
      BY <1>1, <2>1, <2>2, <2>3, <3>0 DEF SpendersApart
    <3>2. \A m \in 1..Len(calls') : LoggingIn(m)' => calls'[m].using \notin Held(challenges)'
      BY <1>1, <2>1, <2>2, <3>0 DEF SpendersApart
    <3>3. \A k, m \in 1..Len(calls') : calls'[k].using = calls'[m].using /\ Refreshing(k)' /\ Refreshing(m)' => k = m
      BY <2>1, <2>2, <2>3, <3>0 DEF SpendersApart
    <3>4. \A k, m \in 1..Len(calls') : calls'[k].using = calls'[m].using /\ LoggingIn(k)' /\ LoggingIn(m)' => k = m
      BY <2>1, <2>2, <2>4, <3>0 DEF SpendersApart
    <3>5. Writer' # 0 /\ Refreshing(Writer)' => calls'[Writer'].using \notin Held(taken.grants)'
      <4> SUFFICES ASSUME Writer' # 0, Refreshing(Writer)' PROVE calls'[Writer'].using \notin Held(taken.grants)'
        OBVIOUS
      <4>1. taken # None /\ Writer = Head(writes) /\ Writer' = Writer /\ taken' = taken
        BY <1>1, <1>2 DEF Writer, StoreGoesOn
      <4>2. Writer \in 1..Len(calls)
        BY <4>1, QueueIs DEF TypeOK
      <4>3. Writer # n
        BY <2>1, <4>1 DEF Refreshing
      <4>4. Refreshing(Writer) /\ calls'[Writer].using = calls[Writer].using
        BY <2>1, <4>1, <4>2, <4>3 DEF Refreshing
      <4>5. Held(taken.grants)' = Held(taken.grants)
        BY <4>1 DEF Held
      <4>6. QED
        BY <3>0, <4>1, <4>4, <4>5 DEF SpendersApart
    <3>6. QED
      BY <3>1, <3>2, <3>3, <3>4, <3>5 DEF SpendersApart
  <2>8. QED
    BY <2>6, <2>7 DEF SpentInv
<1>7. QED
  <2>1. [id |-> u, purpose |-> Purpose(n)] \in challenges => u \in Held(challenges)
    <3> DEFINE x == [id |-> u, purpose |-> Purpose(n)]
    <3>1. x.id = u
      OBVIOUS
    <3> HIDE DEF x
    <3>2. x \in challenges => u \in Held(challenges)
      BY <1>3, <3>1
    <3>3. QED
      BY <3>2 DEF x
  <2>2. QED
    BY <1>u, <1>4, <1>5, <1>6, <2>1 DEF Verified, Ends

LEMMA EndWriteSpends ==
    ASSUME TypeOK, FreshInv, SpentInv, EndWrite
    PROVE  SpentInv'
<1> DEFINE n == Head(writes)
<1>1. n # 0 => n \in 1..Len(calls)
  BY QueueIs DEF EndWrite, TypeOK
<1>2. taken # None /\ taken' = None /\ file' = taken /\ StoreGoesOn /\ Writer = n
  BY DEF EndWrite, StoreGoesOn, Writer
<1> HIDE DEF n
<1>3. CASE n = 0
  <2>1. UNCHANGED <<memory, flows, fresh, calls, history>>
    BY <1>3 DEF EndWrite, n
  <2>2. Held(grants)' = Held(grants) /\ Held(challenges)' = Held(challenges) /\ calls' = calls /\ heirs' = heirs
    BY <2>1 DEF memory, flows, history, Held
  <2>3. QED
    BY <1>2, <2>2, CallsUnchanged, SpentKept
<1>4. CASE n # 0
  <2>n. PICK k : k = n
    OBVIOUS
  <2>u. PICK u : u = calls[k].using
    OBVIOUS
  <2>0. /\ k \in 1..Len(calls) /\ calls[k].arg \in Nat /\ calls[k].using \in Nat /\ u \in 0..fresh /\ u \in Nat
    BY <1>1, <1>4, <2>n, <2>u, CallsAre DEF FreshInv
  <2>a. ASSUME Ends(k, "done") \/ Ends(k, "failed") \/ Ends(k, "saving")
        PROVE  NoMoreSpenders /\ 1..Len(calls) \subseteq 1..Len(calls')
    <3>1. /\ Len(calls') = Len(calls) /\ \A m \in 1..Len(calls) : m # k => calls'[m] = calls[m]
          /\ calls'[k].at \notin {"ending", "noting"}
      BY <2>0, <2>a, CallGoesOn DEF Stages
    <3>2. QED
      BY <2>0, <3>1, NoSpenderGoesOn
  <2>b. ASSUME SavesAgain(k)
        PROVE  /\ NoMoreSpenders /\ 1..Len(calls) \subseteq 1..Len(calls')
               /\ ~Refreshing(k)' /\ ~LoggingIn(k)'
    <3>1. /\ Len(calls') = Len(calls) /\ \A m \in 1..Len(calls) : m # k => calls'[m] = calls[m]
          /\ calls'[k].at = "saving"
      BY <2>0, <2>b, CallMakes DEF SavesAgain
    <3>2. QED
      BY <2>0, <3>1, NoSpenderGoesOn DEF Refreshing, LoggingIn
  <2>c. (\A i \in Held(grants) : MayBuy(i)) /\ (\A i \in Held(challenges) : Challenged(i))
    BY DEF MayBuy, Challenged
  <2>1. CASE Reports(k)
    <3>1. Held(grants)' = Held(grants) /\ Held(challenges)' = Held(challenges) /\ heirs' = heirs
      BY <2>1 DEF Reports, memory, flows, Held
    <3>2. NoMoreSpenders /\ 1..Len(calls) \subseteq 1..Len(calls')
      BY <2>1, <2>a DEF Reports
    <3>3. QED
      BY <1>2, <3>1, <3>2, SpentKept
  <2>2. CASE Reissues(k)
    <3>1. fresh' = fresh + 1 /\ Held(grants)' \subseteq Held(grants) \cup {fresh + 1}
          /\ heirs' = IF u = 0 THEN heirs ELSE [heirs EXCEPT ![u] = @ \cup {fresh + 1}]
      BY <2>0, <2>2, <2>u, IssueIds DEF Reissues
    <3>2. Held(challenges)' = Held(challenges)
      BY <2>2 DEF Reissues, flows, Held
    <3>3. NoMoreSpenders /\ 1..Len(calls) \subseteq 1..Len(calls') /\ ~Refreshing(k)'
      BY <2>2, <2>b DEF Reissues
    <3>4. OneNew
      BY <1>2, <2>c, <3>1, <3>2, <3>3, NothingMoreToBuyWith DEF OneNew
    <3>5. Refreshing(k) /\ MayBuy(u) /\ ~Challenged(u)
      BY <2>0, <2>2, <2>u DEF Reissues, Refreshing, MayBuy, SpentInv, BoughtOnce
    <3>6. u \notin Held(grants)' /\ u \notin Held(taken.grants)
      <4>1. u # fresh + 1
        BY <2>0 DEF TypeOK
      <4>2. QED
        BY <1>2, <1>4, <2>0, <2>n, <2>u, <3>1, <3>5, <4>1 DEF SpentInv, SpendersApart
    <3>7. ~MayBuy(u)'
      <4>1. u \notin Held(file.grants)'
        BY <1>2, <3>6 DEF Held
      <4>2. \A m \in 1..Len(calls) : Refreshing(m) /\ calls[m].using = u => m = k
        BY <2>0, <2>u, <3>5 DEF SpentInv, SpendersApart
      <4>3. QED
        BY <1>2, <3>3, <3>6, <4>1, <4>2 DEF MayBuy, NoMoreSpenders
    <3>8. ~Challenged(u)'
      BY <1>2, <2>c, <3>2, <3>3, <3>5, NothingMoreToBuyWith
    <3>9. BoughtOnce' /\ SpendersApart'
      BY <1>2, <2>0, <3>1, <3>2, <3>3, <3>4, <3>5, <3>7, <3>8, OneBought, SpendersStayApart DEF SpentInv
    <3>10. QED
      BY <3>9 DEF SpentInv
  <2>3. CASE Removes(k)
    <3>1. Held(grants)' = Held(grants) /\ Held(challenges)' = Held(challenges) /\ heirs' = heirs
      BY <2>3 DEF Removes, flows, Held
    <3>2. NoMoreSpenders /\ 1..Len(calls) \subseteq 1..Len(calls')
      BY <2>3, <2>a DEF Removes
    <3>3. QED
      BY <1>2, <3>1, <3>2, SpentKept
  <2>4. CASE Opens(k)
    <3>1. fresh' = fresh + 1
          /\ heirs' = IF u = 0 THEN heirs ELSE [heirs EXCEPT ![u] = @ \cup {fresh + 1}]
      BY <2>0, <2>4, <2>u, SessionIds DEF Opens
    <3>2. Held(challenges)' = Held(challenges) /\ Held(grants)' = Held(grants)
      BY <2>4 DEF Opens, flows, Held
    <3>3. NoMoreSpenders /\ 1..Len(calls) \subseteq 1..Len(calls') /\ ~LoggingIn(k)'
      BY <2>4, <2>b DEF Opens
    <3>4. OneNew
      BY <1>2, <2>c, <3>2, <3>3, NothingMoreToBuyWith DEF OneNew
    <3>5. LoggingIn(k) /\ Challenged(u) /\ ~MayBuy(u)
      BY <2>0, <2>4, <2>u DEF Opens, LoggingIn, Challenged, SpentInv, BoughtOnce
    <3>6. u \notin Held(challenges)'
      BY <2>0, <2>u, <3>2, <3>5 DEF SpentInv, SpendersApart
    <3>7. ~Challenged(u)'
      <4>1. \A m \in 1..Len(calls) : LoggingIn(m) /\ calls[m].using = u => m = k
        BY <2>0, <2>u, <3>5 DEF SpentInv, SpendersApart
      <4>2. QED
        BY <3>3, <3>6, <4>1 DEF Challenged, NoMoreSpenders
    <3>8. ~MayBuy(u)'
      BY <1>2, <2>c, <3>2, <3>3, <3>5, NothingMoreToBuyWith
    <3>9. BoughtOnce' /\ SpendersApart'
      BY <1>2, <2>0, <3>1, <3>2, <3>3, <3>4, <3>5, <3>7, <3>8, OneBought, SpendersStayApart DEF SpentInv
    <3>10. QED
      BY <3>9 DEF SpentInv
  <2>5. CASE Approves(k)
    <3>1. Held(grants)' = Held(grants) /\ Held(challenges)' = Held(challenges) /\ heirs' = heirs
      BY <2>5 DEF Approves, memory, history, Held
    <3>2. NoMoreSpenders /\ 1..Len(calls) \subseteq 1..Len(calls')
      BY <2>5, <2>a DEF Approves
    <3>3. QED
      BY <1>2, <3>1, <3>2, SpentKept
  <2>6. QED
    BY <1>4, <2>n, <2>1, <2>2, <2>3, <2>4, <2>5 DEF EndWrite, n
<1>5. QED
  BY <1>3, <1>4

(* A refresh token and a challenge each buy one thing at most, whatever is  *)
(* saved, fails or is lost in between.                                      *)
THEOREM SpentAtMostOnce == Spec => []SpentOnce
<1>1. Init => SpentInv
  <2> SUFFICES ASSUME Init PROVE SpentInv
    OBVIOUS
  <2>1. Len(calls) = 0 /\ challenges = {} /\ taken = None
    BY DEF Init
  <2>2. DOMAIN heirs = 1..(MaxFresh + MaxCalls) /\ \A i \in 1..(MaxFresh + MaxCalls) : heirs[i] = {}
    BY DEF Init
  <2>3. SpentOnce
    BY <2>2, FS_EmptySet DEF SpentOnce
  <2>4. \A i : ~Challenged(i)
    BY <2>1 DEF Challenged, Held
  <2>5. QED
    BY <2>1, <2>2, <2>3, <2>4 DEF SpentInv, BoughtOnce, SpendersApart, Writer
<1>2. TypeOK /\ FreshInv /\ SpentInv /\ [Next]_vars => SpentInv'
  <2> SUFFICES ASSUME TypeOK, FreshInv, SpentInv, [Next]_vars PROVE SpentInv'
    OBVIOUS
  <2> USE DEF flows, store, history
  <2>0. /\ fresh \in Nat /\ fresh + 1 \in Nat /\ Me = Len(calls) + 1 /\ 0 \in Nat /\ {} \in SUBSET Nat
        /\ DOMAIN calls = 1..Len(calls) /\ Len(calls) \in Nat
    BY CallsAre DEF TypeOK, Me
  <2>c. Held(grants) \subseteq Nat /\ Held(sessions) \subseteq Nat /\ keys \subseteq Nat /\ clients \subseteq Nat /\ pending \subseteq Nat
    BY NumbersOf DEF TypeOK
  <2>d. (* Nothing happens to the grants, to the calls and to the store. *)
        ASSUME UNCHANGED <<grants, calls, file, taken, writes, heirs>>, Held(challenges)' \subseteq Held(challenges) \cup {fresh + 1}
        PROVE  SpentInv'
    <3>1. Held(grants)' = Held(grants) /\ StoreGoesOn
      BY <2>d DEF Held, StoreGoesOn
    <3>2. QED
      BY <2>d, <3>1, CallsUnchanged, SpentKept
  <2>1. ASSUME Register PROVE SpentInv'
    <3>1. Begun("register", fresh + 1, 0, 0, {}, "saving")
      BY <2>1 DEF Register
    <3>2. Held(grants)' \subseteq Held(grants) /\ Held(challenges)' = Held(challenges) /\ UNCHANGED <<file, taken, heirs>>
      BY <2>1 DEF Register, Held, Without
    <3>3. taken # None => Head(writes') = Head(writes)
      <4>1. writes \in Seq(0..Len(calls)) /\ (taken # None => writes # <<>>)
        BY DEF TypeOK
      <4>2. writes' = writes \o <<Me>> \/ writes' = writes \o <<0, Me>>
        BY <2>1 DEF Register
      <4>3. writes # <<>> => Head(writes \o <<Me>>) = Head(writes) /\ Head(writes \o <<0, Me>>) = Head(writes)
        BY <2>0, <4>1
      <4>4. QED
        BY <4>1, <4>2, <4>3
    <3>4. NoMoreSpenders /\ 1..Len(calls) \subseteq 1..Len(calls')
      BY <2>0, <3>1, NoSpenderBegins DEF Ops, Stages
    <3>5. QED
      BY <3>2, <3>3, <3>4, SpentKept DEF StoreGoesOn
  <2>2. ASSUME NEW c \in clients, Authorize(c) PROVE SpentInv'
    BY <2>2, <2>d DEF Authorize, memory
  <2>3. ASSUME NEW c \in clients, Forget(c) PROVE SpentInv'
    <3> DEFINE gone == Of(grants, c)
               at == IF gone = {} THEN "saving" ELSE "ending"
    <3>0. c \in Nat /\ gone \in SUBSET Nat /\ at \in Stages /\ at # "noting"
      BY <2>c, NumbersOf DEF Stages
    <3>1. Begun("forget", c, 0, 0, gone, at) /\ Save(Len(calls) + 1)
      BY <2>0, <2>3 DEF Forget
    <3> HIDE DEF gone, at
    <3>2. Held(grants)' \subseteq Held(grants) /\ Held(challenges)' = Held(challenges) /\ UNCHANGED <<file, taken, heirs>>
      BY <2>3 DEF Forget, Held, Without
    <3>3. NoMoreSpenders /\ 1..Len(calls) \subseteq 1..Len(calls') /\ Len(calls') = Len(calls) + 1
      BY <2>0, <3>0, <3>1, NoSpenderBegins DEF Ops
    <3>4. QED
      BY <3>1, <3>2, <3>3, WriteGoesOn, SpentKept DEF StoreGoesOn
  <2>4. ASSUME NEW c \in pending, Approve(c) PROVE SpentInv'
    BY <2>4, <2>d DEF Approve, memory
  <2>5. ASSUME NEW c \in codes, Exchange(c) PROVE SpentInv'
    <3>0. c \in Nat
      BY DEF TypeOK
    <3>1. Held(grants)' \subseteq Held(grants) \cup {fresh + 1} /\ heirs' = heirs
      BY <2>0, <2>5, <3>0, IssueIds DEF Exchange
    <3>2. Held(challenges)' = Held(challenges) /\ UNCHANGED <<file, taken>> /\ Save(Len(calls) + 1)
          /\ Begun("exchange", c, 0, fresh + 1, {}, "saving")
      BY <2>0, <2>5 DEF Exchange, Held
    <3>3. NoMoreSpenders /\ 1..Len(calls) \subseteq 1..Len(calls') /\ Len(calls') = Len(calls) + 1
      BY <2>0, <3>0, <3>2, NoSpenderBegins DEF Ops, Stages
    <3>4. QED
      BY <3>1, <3>2, <3>3, WriteGoesOn, SpentKept DEF StoreGoesOn
  <2>6. ASSUME NEW g \in Held(grants), Refresh(g) PROVE SpentInv'
    BY <2>6, RefreshSpends
  <2>7. ASSUME NEW g \in Held(grants), Revoke(g) PROVE SpentInv'
    <3>0. g \in Nat /\ {g} \in SUBSET Nat
      BY <2>c, NumbersOf
    <3>1. /\ Held(grants)' \subseteq Held(grants) /\ Held(challenges)' = Held(challenges)
          /\ UNCHANGED <<file, taken, heirs>>
          /\ Save(Len(calls) + 1)
      BY <2>0, <2>7 DEF Revoke, Held, Without
    <3>2. NoMoreSpenders /\ 1..Len(calls) \subseteq 1..Len(calls') /\ Len(calls') = Len(calls) + 1
      BY <2>0, <2>7, <3>0, NoSpenderBegins DEF Revoke, Ops, Stages
    <3>3. QED
      BY <3>1, <3>2, WriteGoesOn, SpentKept DEF StoreGoesOn
  <2>8. ASSUME NEW k \in keys, DropKey(k) PROVE SpentInv'
    <3>0. k \in Nat /\ Of(sessions, k) \in SUBSET Nat
      BY <2>c, NumbersOf
    <3>1. /\ Held(grants)' \subseteq Held(grants) /\ Held(challenges)' = Held(challenges)
          /\ UNCHANGED <<file, taken, heirs>>
          /\ Save(Len(calls) + 1)
      BY <2>0, <2>8 DEF DropKey, Held, Without
    <3>2. NoMoreSpenders /\ 1..Len(calls) \subseteq 1..Len(calls') /\ Len(calls') = Len(calls) + 1
      BY <2>0, <2>8, <3>0, NoSpenderBegins DEF DropKey, Ops, Stages
    <3>3. QED
      BY <3>1, <3>2, WriteGoesOn, SpentKept DEF StoreGoesOn
  <2>9. ASSUME NEW s \in Held(sessions), Logout(s) PROVE SpentInv'
    <3>0. s \in Nat /\ {s} \in SUBSET Nat
      BY <2>c, NumbersOf
    <3>1. /\ Held(grants)' \subseteq Held(grants) /\ Held(challenges)' = Held(challenges)
          /\ UNCHANGED <<file, taken, heirs>>
          /\ Save(Len(calls) + 1)
      BY <2>0, <2>9 DEF Logout, Held, Without
    <3>2. NoMoreSpenders /\ 1..Len(calls) \subseteq 1..Len(calls') /\ Len(calls') = Len(calls) + 1
      BY <2>0, <2>9, <3>0, NoSpenderBegins DEF Logout, Ops, Stages
    <3>3. QED
      BY <3>1, <3>2, WriteGoesOn, SpentKept DEF StoreGoesOn
  <2>10. ASSUME NEW purpose \in {"login", "register"}, Offer(purpose) PROVE SpentInv'
    <3> DEFINE new == [id |-> fresh + 1, purpose |-> purpose]
    <3>1. /\ challenges' = Without(challenges, OldestOf(MaxChallenges, Held(challenges))) \cup {new}
          /\ new.id = fresh + 1
      BY <2>10 DEF Offer
    <3>2. UNCHANGED <<grants, calls, file, taken, writes, heirs>>
      BY <2>10 DEF Offer, memory
    <3> HIDE DEF new
    <3>3. Held(challenges)' \subseteq Held(challenges) \cup {fresh + 1}
      BY <3>1 DEF Held, Without
    <3>4. QED
      BY <2>d, <3>2, <3>3
  <2>11. ASSUME NEW arg \in Nat, NEW x \in challenges, NEW op \in {"login", "approve", "addKey"},
                Begun(op, arg, x.id, 0, {}, "verifying"), UNCHANGED <<memory, flows, fresh, store, history>>
         PROVE SpentInv'
    <3>0. x.id \in Nat /\ op \in Ops /\ "verifying" \in Stages /\ op # "refresh"
      BY DEF TypeOK, Ops, Stages
    <3>1. Held(grants)' = Held(grants) /\ Held(challenges)' = Held(challenges) /\ StoreGoesOn /\ heirs' = heirs
      BY <2>11 DEF memory, Held, StoreGoesOn
    <3>2. NoMoreSpenders /\ 1..Len(calls) \subseteq 1..Len(calls')
      BY <2>0, <2>11, <3>0, NoSpenderBegins
    <3>3. QED
      BY <3>1, <3>2, SpentKept
  <2>12. ASSUME NEW n \in 1..Len(calls), Verified(n) PROVE SpentInv'
    BY <2>12, VerifiedSpends
  <2>13. ASSUME Expire PROVE SpentInv'
    <3>1. Held(challenges)' \subseteq Held(challenges) /\ UNCHANGED <<grants, calls, file, taken, writes, heirs>>
      BY <2>13 DEF Expire, Held, Without, memory
    <3>2. QED
      BY <2>d, <3>1
  <2>14. ASSUME BeginWrite PROVE SpentInv'
    <3>1. taken' = Memory /\ UNCHANGED <<memory, flows, calls, writes, file, history>>
      BY <2>14 DEF BeginWrite, Take
    <3>2. Writer' # 0 => Writer' \in 1..Len(calls)
      BY <2>14, <3>1, QueueIs DEF Writer, BeginWrite
    <3>3. /\ Held(grants)' = Held(grants) /\ Held(challenges)' = Held(challenges) /\ Held(file.grants)' = Held(file.grants)
          /\ Held(taken.grants)' = Held(grants)
      BY <3>1, MemoryFields DEF memory, Held
    <3>4. \A n \in 1..Len(calls) : (Refreshing(n)' <=> Refreshing(n)) /\ (LoggingIn(n)' <=> LoggingIn(n))
      BY <3>1 DEF Refreshing, LoggingIn
    <3>5. OneNew
      BY <3>1, <3>3, <3>4 DEF OneNew, MayBuy, Challenged
    <3>6. BoughtOnce'
      BY <3>1, <3>5, NothingBought DEF SpentInv
    <3>7. SpendersApart'
      BY <3>1, <3>2, <3>3, <3>4 DEF SpentInv, SpendersApart
    <3>8. QED
      BY <3>6, <3>7 DEF SpentInv
  <2>15. ASSUME EndWrite PROVE SpentInv'
    BY <2>15, EndWriteSpends
  <2>16. ASSUME WriteFails PROVE SpentInv'
    <3>1. Head(writes) # 0 => Head(writes) \in 1..Len(calls)
      BY <2>16, QueueIs DEF WriteFails, TypeOK
    <3>2. taken' = None /\ UNCHANGED <<memory, file, challenges, heirs>> /\ StoreGoesOn
      BY <2>16 DEF WriteFails, StoreGoesOn
    <3>3. Held(grants)' = Held(grants) /\ Held(challenges)' = Held(challenges)
      BY <3>2 DEF memory, Held
    <3>4. NoMoreSpenders /\ 1..Len(calls) \subseteq 1..Len(calls')
      <4>1. CASE Head(writes) = 0
        BY <2>16, <4>1, CallsUnchanged DEF WriteFails
      <4>2. CASE Head(writes) # 0
        <5>n. PICK n : n = Head(writes)
          OBVIOUS
        <5>1. /\ n \in 1..Len(calls) /\ Len(calls') = Len(calls) /\ \A m \in 1..Len(calls) : m # n => calls'[m] = calls[m]
              /\ calls'[n].at = "failed"
          BY <2>16, <3>1, <4>2, <5>n, CallGoesOn DEF WriteFails, Stages
        <5>2. QED
          BY <5>1, NoSpenderGoesOn
      <4>3. QED
        BY <4>1, <4>2
    <3>5. QED
      BY <3>2, <3>3, <3>4, SpentKept
  <2>17. ASSUME Restart PROVE SpentInv'
    <3>1. UNCHANGED <<file, heirs>> /\ taken' = None /\ challenges' = {} /\ grants' = file.grants
      BY <2>17 DEF Restart
    <3>2. Held(grants)' = Held(file.grants) /\ Held(challenges)' = {} /\ Held(file.grants)' = Held(file.grants)
      BY <3>1 DEF Held
    <3>3. \A n \in 1..Len(calls') : ~Refreshing(n)' /\ ~LoggingIn(n)'
      BY <2>17, CallsAreLost DEF Refreshing, LoggingIn
    <3>4. (\A i : MayBuy(i)' => MayBuy(i)) /\ (\A i : ~Challenged(i)')
      BY <3>1, <3>2, <3>3 DEF MayBuy, Challenged
    <3>5. BoughtOnce'
      BY <3>1, <3>4, NothingBought DEF SpentInv, OneNew
    <3>6. SpendersApart'
      BY <3>1, <3>3 DEF SpendersApart, Writer
    <3>7. QED
      BY <3>5, <3>6 DEF SpentInv
  <2>18. CASE UNCHANGED vars
    BY <2>18, <2>d DEF vars, memory, Held
  <2>19. ASSUME NEW x \in challenges, \/ AddKey(x.id) \/ \E k \in keys : Login(k, x.id)
                                      \/ \E c \in pending : ApproveByPasskey(c, x.id)
         PROVE  SpentInv'
    BY <2>c, <2>0, <2>11, <2>19 DEF AddKey, Login, ApproveByPasskey
  <2>20. QED
    BY <2>0, <2>1, <2>2, <2>3, <2>4, <2>5, <2>6, <2>7, <2>8, <2>9, <2>10, <2>12, <2>13, <2>14, <2>15, <2>16,
       <2>17, <2>18, <2>19 DEF Next
<1>3. SpentInv => SpentOnce
  BY DEF SpentInv, BoughtOnce
<1>4. QED
  BY <1>1, <1>2, <1>3, CredentialsTypeCorrect, NumbersAreFresh, PTL DEF Spec

-----------------------------------------------------------------------------
(* The gateway. *)

(* What is being saved are the last of the changes asked for; the last of   *)
(* all is what the store holds, and while nothing failed, what is written   *)
(* for it.                                                                  *)
QueueAt(k) ==
    /\ \A n \in 1..Len(puts) : puts[n].at = "saving" <=> n >= k
    /\ taking # Absent => k <= Len(puts)
    /\ failures = 0 /\ k = Len(puts) + 1 => choice = saved
    /\ failures = 0 /\ k <= Len(puts) => held = puts[Len(puts)].asked
    /\ failures = 0 /\ k = Len(puts) /\ taking # Absent => taking = held
QueueInv == \E k \in 1..(Len(puts) + 1) : QueueAt(k)

(* Every session shows the choice in force, but for those that missed it.   *)
FollowInv ==
    /\ stdio # Absent => stdio = Shown
    /\ \A s \in entering : s \in missed \/ made[s] = Shown
    /\ \A i \in 1..Len(table) : table[i] \in missed \/ made[table[i]] = Shown

PutStates == {"saving", "done", "failed"}

LEMMA PutGoesOn ==
    ASSUME GatewayTypeOK, NEW n \in 1..Len(puts), NEW at \in PutStates, puts' = [puts EXCEPT ![n].at = at]
    PROVE  /\ puts' \in Seq([asked : Offers, at : PutStates]) /\ Len(puts') = Len(puts)
           /\ \A m \in 1..Len(puts) : m # n => puts'[m] = puts[m]
           /\ puts'[n].asked = puts[n].asked /\ puts'[n].at = at /\ puts[n].asked \in Offers
<1> DEFINE p == [puts[n] EXCEPT !.at = at]
           S == [asked : Offers, at : PutStates]
<1>1. puts \in Seq(S) /\ puts[n] \in S
  <2>1. puts \in Seq(S)
    BY DEF GatewayTypeOK, PutStates
  <2> HIDE DEF S
  <2>2. QED
    BY <2>1, ElementOfSeq
<1>2. p \in S /\ p.asked = puts[n].asked /\ p.at = at /\ puts[n].asked \in Offers
  BY <1>1
<1>3. puts' = [puts EXCEPT ![n] = p]
  BY <1>1
<1> HIDE DEF p, S
<1>4. puts' \in Seq(S) /\ Len(puts') = Len(puts) /\ (\A m \in 1..Len(puts) : m # n => puts'[m] = puts[m]) /\ puts'[n] = p
  BY <1>1, <1>2, <1>3, ExceptSeq
<1>5. QED
  BY <1>2, <1>4 DEF S

(* The change that is answered next is the oldest that is not answered. *)
LEMMA FirstIsOldest ==
    ASSUME GatewayTypeOK, NEW k \in 1..Len(puts), \A n \in 1..Len(puts) : puts[n].at = "saving" <=> n >= k
    PROVE  FirstSaving = k
<1>1. DOMAIN puts = 1..Len(puts) /\ Len(puts) \in Nat
  BY LenProperties DEF GatewayTypeOK
<1>2. \A n : n \in Saving <=> n \in 1..Len(puts) /\ n >= k
  BY <1>1 DEF Saving
<1>3. k \in Saving /\ \A m \in Saving : k <= m
  BY <1>1, <1>2
<1>4. ASSUME NEW x \in Saving, \A m \in Saving : x <= m PROVE x = k
  BY <1>1, <1>2, <1>3, <1>4
<1>5. QED
  BY <1>3, <1>4 DEF FirstSaving

(* What a session shows is what the last word on each tool says. *)
LEMMA ShownIsWanted == Shown = {t \in Tools : LastWord(choice, t)}
<1>1. ASSUME NEW t PROVE Enabled(choice, t) <=> LastWord(choice, t)
  <2>1. CASE t \in choice.disable
    BY <2>1 DEF Enabled, LastWord
  <2>2. CASE t \notin choice.disable /\ t \in choice.enable
    BY <2>2 DEF Enabled, LastWord
  <2>3. CASE t \notin choice.disable /\ t \notin choice.enable /\ Names(choice.disable, t)
    BY <2>3 DEF Enabled, LastWord
  <2>4. CASE t \notin choice.disable /\ t \notin choice.enable /\ ~Names(choice.disable, t) /\ Names(choice.enable, t)
    BY <2>4 DEF Enabled, LastWord
  <2>5. CASE t \notin choice.disable /\ t \notin choice.enable /\ ~Names(choice.disable, t) /\ ~Names(choice.enable, t)
    <3>1. CASE choice.profile \notin Profiles \/ choice.profile \in ReadOnlyProfiles
      BY <2>5, <3>1 DEF Enabled, LastWord
    <3>2. CASE choice.profile \in Profiles /\ choice.profile \notin ReadOnlyProfiles
      BY <2>5, <3>2 DEF Enabled, LastWord
    <3>3. QED
      BY <3>1, <3>2
  <2>6. QED
    BY <2>1, <2>2, <2>3, <2>4, <2>5
<1>2. QED
  BY <1>1 DEF Shown, Hidden

(* A session is taken out of the table; the others stay in their order. *)
LEMMA RemovedAt ==
    ASSUME NEW S, NEW s \in Seq(S), NEW i \in 1..Len(s)
    PROVE  /\ RemoveAt(s, i) \in Seq(S) /\ Len(RemoveAt(s, i)) = Len(s) - 1
           /\ \A j \in 1..(Len(s) - 1) : RemoveAt(s, i)[j] = IF j < i THEN s[j] ELSE s[j + 1]
<1> DEFINE a == SubSeq(s, 1, i - 1)
           b == SubSeq(s, i + 1, Len(s))
<1>1. Len(s) \in Nat
  OBVIOUS
<1>2. a \in Seq(S) /\ Len(a) = i - 1 /\ \A j \in 1..(i - 1) : a[j] = s[j]
  BY <1>1
<1>3. b \in Seq(S) /\ Len(b) = Len(s) - i /\ \A j \in 1..(Len(s) - i) : b[j] = s[i + j]
  BY <1>1
<1>4. RemoveAt(s, i) = a \o b
  BY DEF RemoveAt
<1> HIDE DEF a, b
<1>5. /\ a \o b \in Seq(S) /\ Len(a \o b) = Len(a) + Len(b)
      /\ \A j \in 1..(Len(a) + Len(b)) : (a \o b)[j] = IF j <= Len(a) THEN a[j] ELSE b[j - Len(a)]
  BY <1>2, <1>3, ConcatProperties, Zenon
<1>6. Len(a) + Len(b) = Len(s) - 1
  BY <1>1, <1>2, <1>3
<1>7. ASSUME NEW j \in 1..(Len(s) - 1) PROVE (a \o b)[j] = IF j < i THEN s[j] ELSE s[j + 1]
  <2>1. CASE j < i
    <3>1. j \in 1..(i - 1) /\ j <= Len(a)
      BY <1>1, <1>2, <2>1
    <3>2. QED
      BY <1>2, <1>5, <1>6, <2>1, <3>1
  <2>2. CASE ~(j < i)
    <3>1. j - Len(a) \in 1..(Len(s) - i) /\ ~(j <= Len(a)) /\ i + (j - Len(a)) = j + 1
      BY <1>1, <1>2, <2>2
    <3>2. (a \o b)[j] = b[j - Len(a)]
      BY <1>5, <1>6, <3>1
    <3>3. QED
      BY <1>3, <2>2, <3>1, <3>2
  <2>3. QED
    BY <2>1, <2>2
<1>8. QED
  BY <1>4, <1>5, <1>6, <1>7

Sessions == 1..Len(made)
Distinct(s) == \A i \in 1..Len(s) : \A j \in 1..Len(s) : s[i] = s[j] => i = j

LEMMA TableIs ==
    ASSUME GatewayTypeOK
    PROVE  /\ table \in Seq(Sessions) /\ Len(table) \in Nat /\ DOMAIN table = 1..Len(table) /\ Distinct(table)
           /\ Len(made) \in Nat /\ DOMAIN made = 1..Len(made) /\ MaxServed \in Nat /\ MaxServed > 0
           /\ \A i \in 1..Len(table) : table[i] \in Sessions /\ table[i] \notin entering
<1>1. table \in Seq(Sessions) /\ made \in Seq(SUBSET Tools)
  BY DEF GatewayTypeOK, Sessions
<1>2. \A i \in 1..Len(table) : table[i] \in Sessions /\ table[i] \notin entering
  BY <1>1, ElementOfSeq DEF GatewayTypeOK
<1>3. Distinct(table)
  BY DEF GatewayTypeOK, Distinct
<1>4. MaxServed \in Nat /\ MaxServed > 0
  BY CatalogueAssumption
<1>5. QED
  BY <1>1, <1>2, <1>3, <1>4, LenProperties

(* A session that comes last is none of those there were. *)
LEMMA ComesLast ==
    ASSUME NEW S, NEW t \in Seq(S), Distinct(t), NEW s \in S, \A i \in 1..Len(t) : t[i] # s
    PROVE  /\ Append(t, s) \in Seq(S) /\ Len(Append(t, s)) = Len(t) + 1 /\ Distinct(Append(t, s))
           /\ \A i \in 1..(Len(t) + 1) : Append(t, s)[i] = s \/ \E j \in 1..Len(t) : Append(t, s)[i] = t[j]
<1> DEFINE a == Append(t, s)
<1>1. Len(t) \in Nat
  OBVIOUS
<1>2. a \in Seq(S) /\ Len(a) = Len(t) + 1 /\ (\A i \in 1..Len(t) : a[i] = t[i]) /\ a[Len(t) + 1] = s
  BY <1>1
<1> HIDE DEF a
<1>3. \A i \in 1..Len(a) : i \in 1..Len(t) \/ i = Len(t) + 1
  BY <1>1, <1>2
<1>4. Distinct(a)
  BY <1>2, <1>3 DEF Distinct
<1>5. QED
  BY <1>2, <1>3, <1>4 DEF a

LEMMA TakenFromTable ==
    ASSUME GatewayTypeOK, NEW i \in 1..Len(table)
    PROVE  LET t == RemoveAt(table, i)
           IN /\ t \in Seq(Sessions) /\ Len(t) = Len(table) - 1 /\ Distinct(t)
              /\ \A j \in 1..Len(t) : t[j] # table[i] /\ \E m \in 1..Len(table) : t[j] = table[m]
<1> DEFINE t == RemoveAt(table, i)
<1>1. table \in Seq(Sessions) /\ Len(table) \in Nat /\ Distinct(table)
  BY TableIs
<1>2. /\ t \in Seq(Sessions) /\ Len(t) = Len(table) - 1
      /\ \A j \in 1..Len(t) : t[j] = IF j < i THEN table[j] ELSE table[j + 1]
  BY <1>1, RemovedAt
<1> HIDE DEF t
<1>3. \A j \in 1..Len(t) : \E m \in 1..Len(table) : m = (IF j < i THEN j ELSE j + 1) /\ t[j] = table[m] /\ m # i
  BY <1>1, <1>2
<1>4. \A j \in 1..Len(t) : t[j] # table[i] /\ \E m \in 1..Len(table) : t[j] = table[m]
  BY <1>3, <1>1 DEF Distinct
<1>5. Distinct(t)
  <2> SUFFICES ASSUME NEW a \in 1..Len(t), NEW b \in 1..Len(t), t[a] = t[b] PROVE a = b
    BY DEF Distinct
  <2>1. PICK m \in 1..Len(table) : m = (IF a < i THEN a ELSE a + 1) /\ t[a] = table[m]
    BY <1>3
  <2>2. PICK k \in 1..Len(table) : k = (IF b < i THEN b ELSE b + 1) /\ t[b] = table[k]
    BY <1>3
  <2>3. m = k
    BY <1>1, <2>1, <2>2 DEF Distinct
  <2>4. QED
    BY <1>1, <1>2, <2>1, <2>2, <2>3
<1>6. QED
  BY <1>2, <1>4, <1>5 DEF t

(* The sessions that were not seen for longest leave from the front. *)
LEMMA LeftOfTable ==
    ASSUME GatewayTypeOK, NEW k \in 0..Len(table)
    PROVE  LET t == SubSeq(table, k + 1, Len(table))
           IN /\ t \in Seq(Sessions) /\ Len(t) = Len(table) - k /\ Distinct(t)
              /\ \A j \in 1..Len(t) : \E m \in 1..Len(table) : t[j] = table[m]
<1> DEFINE t == SubSeq(table, k + 1, Len(table))
<1>1. table \in Seq(Sessions) /\ Len(table) \in Nat /\ Distinct(table)
  BY TableIs
<1>2. t \in Seq(Sessions) /\ Len(t) = Len(table) - k /\ \A j \in 1..(Len(table) - k) : t[j] = table[k + j]
  BY <1>1
<1> HIDE DEF t
<1>3. \A j \in 1..Len(t) : k + j \in 1..Len(table) /\ t[j] = table[k + j]
  BY <1>1, <1>2
<1>4. Distinct(t)
  <2> SUFFICES ASSUME NEW a \in 1..Len(t), NEW b \in 1..Len(t), t[a] = t[b] PROVE a = b
    BY DEF Distinct
  <2>1. k + a = k + b
    BY <1>1, <1>3 DEF Distinct
  <2>2. QED
    BY <1>1, <1>2, <2>1
<1>5. QED
  BY <1>2, <1>3, <1>4 DEF t

LEMMA TableKept ==
    ASSUME GatewayTypeOK, NEW s \in entering, Admit(s)
    PROVE  /\ table' \in Seq(Sessions) /\ Len(table') <= MaxServed /\ idle' \in 0..Len(table') /\ Distinct(table')
           /\ \A j \in 1..Len(table') : table'[j] = s \/ \E m \in 1..Len(table) : table'[j] = table[m]
<1>1. /\ table \in Seq(Sessions) /\ Len(table) \in Nat /\ Distinct(table) /\ MaxServed \in Nat /\ MaxServed > 0
      /\ s \in Sessions /\ (\A i \in 1..Len(table) : table[i] # s) /\ idle \in 0..Len(table) /\ Len(table) <= MaxServed
  BY TableIs DEF GatewayTypeOK, Sessions
<1>2. CASE Len(table) < MaxServed
  <2>1. table' = Append(table, s) /\ idle' = idle
    BY <1>2 DEF Admit
  <2>t. PICK t : t = table
    OBVIOUS
  <2>2. /\ Append(t, s) \in Seq(Sessions) /\ Len(Append(t, s)) = Len(t) + 1 /\ Distinct(Append(t, s))
        /\ \A i \in 1..(Len(t) + 1) : Append(t, s)[i] = s \/ \E j \in 1..Len(t) : Append(t, s)[i] = t[j]
    <3>1. t \in Seq(Sessions) /\ Distinct(t) /\ \A i \in 1..Len(t) : t[i] # s
      BY <1>1, <2>t
    <3>2. QED
      BY <1>1, <3>1, ComesLast
  <2>3. QED
    BY <1>1, <1>2, <2>1, <2>2, <2>t
<1>3. CASE ~(Len(table) < MaxServed)
  <2>0. Len(table) = MaxServed /\ 1 \in 0..Len(table) /\ table # <<>>
    BY <1>1, <1>3
  <2>1. table' = Append(Tail(table), s) /\ idle' = IF idle = 0 THEN 0 ELSE idle - 1
    BY <1>3 DEF Admit
  <2>t. PICK t : t = Tail(table)
    OBVIOUS
  <2>2. t = SubSeq(table, 1 + 1, Len(table))
    BY <1>1, <2>0, <2>t, TailIsSubSeq
  <2>3. /\ t \in Seq(Sessions) /\ Len(t) = Len(table) - 1 /\ Distinct(t)
        /\ \A j \in 1..Len(t) : \E m \in 1..Len(table) : t[j] = table[m]
    BY <2>0, <2>2, LeftOfTable
  <2>4. /\ Append(t, s) \in Seq(Sessions) /\ Len(Append(t, s)) = Len(t) + 1 /\ Distinct(Append(t, s))
        /\ \A i \in 1..(Len(t) + 1) : Append(t, s)[i] = s \/ \E j \in 1..Len(t) : Append(t, s)[i] = t[j]
    <3>1. \A j \in 1..Len(t) : t[j] # s
      BY <1>1, <2>3
    <3>2. QED
      BY <1>1, <2>3, <3>1, ComesLast
  <2>5. idle' \in 0..Len(table)
    BY <1>1, <2>1
  <2>6. Len(t) + 1 = Len(table) /\ table' = Append(t, s)
    BY <1>1, <2>1, <2>3, <2>t
  <2>7. \A j \in 1..Len(table') : table'[j] = s \/ \E m \in 1..Len(table) : table'[j] = table[m]
    BY <2>3, <2>4, <2>6
  <2>8. QED
    BY <1>1, <2>4, <2>5, <2>6, <2>7
<1>4. QED
  BY <1>2, <1>3

(* The types in their three parts. *)
ProcessOK ==
    /\ on \subseteq {"stdio", "http"} /\ start \in {"plugins", "stdio", "http", "up", "refused"}
    /\ stop \in {"no", "stdio", "hub", "sessions", "plugins", "stopped", "exited"}
    /\ plugins \in BOOLEAN /\ http \in {"none", "open", "closed"} /\ attached \in BOOLEAN
    /\ stdio = Absent \/ stdio \subseteq Tools
ServedOK ==
    /\ made \in Seq(SUBSET Tools) /\ entering \subseteq Sessions
    /\ table \in Seq(Sessions) /\ Len(table) <= MaxServed /\ idle \in 0..Len(table)
    /\ Distinct(table) /\ \A i \in 1..Len(table) : table[i] \notin entering
    /\ missed \subseteq Nat
ConfigurationOK ==
    /\ choice \in Offers /\ held \in Offers /\ saved \in Offers /\ taking \in Offers \cup {Absent}
    /\ puts \in Seq([asked : Offers, at : PutStates])
    /\ failures \in Nat

LEMMA TypesInParts == GatewayTypeOK <=> ProcessOK /\ ServedOK /\ ConfigurationOK
<1>1. GatewayTypeOK => ProcessOK
  BY DEF GatewayTypeOK, ProcessOK
<1>2. GatewayTypeOK => ServedOK
  BY DEF GatewayTypeOK, ServedOK, Sessions, Distinct
<1>3. GatewayTypeOK => ConfigurationOK
  BY DEF GatewayTypeOK, ConfigurationOK, PutStates
<1>4. ProcessOK /\ ServedOK /\ ConfigurationOK => GatewayTypeOK
  BY DEF GatewayTypeOK, ProcessOK, ServedOK, ConfigurationOK, Sessions, Distinct, PutStates
<1>5. QED
  BY <1>1, <1>2, <1>3, <1>4

ChoiceSteps == WriteTaken \/ SaveFails \/ WriteDone
RunSteps ==
    \/ StartPlugins \/ StartStdio \/ Listen \/ Signal \/ Disconnect
    \/ StopStdio \/ StopHttp \/ StopPlugins \/ Exit

LEMMA RunTypes ==
    ASSUME ProcessOK, RunSteps
    PROVE  ProcessOK' /\ UNCHANGED <<served, choice, configuration, missed>>
<1>1. Shown \subseteq Tools
  BY DEF Shown
<1>2. UNCHANGED <<served, choice, configuration, missed>>
  BY DEF RunSteps, StartPlugins, StartStdio, Listen, Signal, Disconnect, StopStdio, StopHttp, StopPlugins, Exit
<1>3. CASE StartPlugins
  BY <1>3 DEF StartPlugins, ProcessOK
<1>4. CASE StartStdio
  BY <1>1, <1>4 DEF StartStdio, ProcessOK
<1>5. CASE Listen
  BY <1>5 DEF Listen, Listening, ListenFails, ProcessOK
<1>6. CASE Signal
  BY <1>6 DEF Signal, StopOnce, ProcessOK
<1>7. CASE Disconnect
  BY <1>7 DEF Disconnect, StopOnce, ProcessOK
<1>8. CASE StopStdio
  BY <1>8 DEF StopStdio, ProcessOK
<1>9. CASE StopHttp
  BY <1>9 DEF StopHttp, ProcessOK
<1>10. CASE StopPlugins
  BY <1>10 DEF StopPlugins, ProcessOK
<1>11. CASE Exit
  BY <1>11 DEF Exit, ProcessOK
<1>12. QED
  BY <1>2, <1>3, <1>4, <1>5, <1>6, <1>7, <1>8, <1>9, <1>10, <1>11 DEF RunSteps

(* What the table of sessions holds after a step of a session. *)
SessionSteps ==
    \/ Initialize \/ HalfAnHour \/ Sweep
    \/ \E s \in entering : Admit(s)
    \/ \E i \in DOMAIN table : Use(i) \/ Close(i)

LEMMA SessionTypesKept ==
    ASSUME GatewayTypeOK, SessionSteps
    PROVE  /\ ServedOK' /\ UNCHANGED <<process, choice, configuration, missed>>
           /\ made' = made \/ made' = Append(made, Shown)
           /\ \A s \in entering' : s \in entering \/ (made' = Append(made, Shown) /\ s = Len(made) + 1)
           /\ \A i \in 1..Len(table') : table'[i] \in entering \/ \E j \in 1..Len(table) : table'[i] = table[j]
<1>0. ServedOK
  BY TypesInParts
<1>a. /\ table \in Seq(Sessions) /\ Len(table) \in Nat /\ DOMAIN table = 1..Len(table) /\ Distinct(table)
      /\ Len(made) \in Nat /\ MaxServed \in Nat
      /\ idle \in 0..Len(table) /\ \A i \in 1..Len(table) : table[i] \in Sessions /\ table[i] \notin entering
  BY <1>0, TableIs DEF ServedOK
<1>1. CASE Initialize
  <2>1. /\ made' = Append(made, Shown) /\ entering' = entering \cup {Len(made) + 1}
        /\ UNCHANGED <<process, table, idle, choice, configuration, missed>>
    BY <1>1 DEF Initialize
  <2>2. made' \in Seq(SUBSET Tools) /\ Len(made') = Len(made) + 1
    BY <1>0, <2>1 DEF ServedOK, Shown
  <2>3. Sessions \subseteq Sessions' /\ Len(made) + 1 \in Sessions' /\ Len(made) + 1 \notin Sessions
    BY <1>a, <2>2 DEF Sessions
  <2>4. table' \in Seq(Sessions') /\ Distinct(table')
    BY <1>0, <2>1, <2>3, SeqMonotonic DEF ServedOK
  <2>5. Distinct(table)' /\ table' = table /\ idle' = idle /\ missed' = missed
    BY <2>1, <1>a DEF Distinct
  <2>6. entering' \subseteq Sessions'
    BY <1>0, <2>1, <2>3 DEF ServedOK
  <2>7. \A i \in 1..Len(table) : table[i] \notin entering'
    BY <1>a, <2>1, <2>3
  <2>8. ServedOK'
    BY <1>0, <2>2, <2>4, <2>5, <2>6, <2>7 DEF ServedOK
  <2>9. QED
    BY <2>1, <2>5, <2>8
<1>2. CASE HalfAnHour
  <2>1. UNCHANGED <<process, made, entering, table, choice, configuration, missed>> /\ idle' \in 0..Len(table)
    BY <1>2, <1>a DEF HalfAnHour
  <2>2. ServedOK'
    BY <1>0, <2>1 DEF ServedOK, Distinct, Sessions
  <2>3. QED
    BY <2>1, <2>2
<1>3. CASE Sweep
  <2>1. /\ UNCHANGED <<process, made, entering, choice, configuration, missed>>
        /\ table' = SubSeq(table, idle + 1, Len(table)) /\ idle' = 0
    BY <1>3 DEF Sweep
  <2>k. PICK k \in 0..Len(table) : k = idle
    BY <1>a
  <2>2. /\ table' \in Seq(Sessions) /\ Len(table') = Len(table) - k /\ Distinct(table')
        /\ \A j \in 1..Len(table') : \E m \in 1..Len(table) : table'[j] = table[m]
    BY <2>1, <2>k, LeftOfTable
  <2>3. Sessions' = Sessions /\ Distinct(table)'
    BY <2>1, <2>2 DEF Sessions, Distinct
  <2>l. Len(table) <= MaxServed
    BY <1>0 DEF ServedOK
  <2>4. Len(table') <= MaxServed /\ idle' \in 0..Len(table')
    <3>1. PICK n \in Nat : n = Len(table)
      BY <1>a
    <3>2. PICK m \in Nat : m = MaxServed
      BY <1>a
    <3>3. n - k \in Nat /\ n - k <= m /\ k \in Nat
      BY <2>l, <3>1, <3>2
    <3>4. Len(table') = n - k /\ idle' = 0
      BY <2>1, <2>2, <3>1
    <3>5. QED
      BY <3>2, <3>3, <3>4
  <2>5. \A j \in 1..Len(table') : table'[j] \notin entering'
    BY <1>a, <2>1, <2>2
  <2>6. ServedOK'
    BY <1>0, <2>1, <2>2, <2>3, <2>4, <2>5 DEF ServedOK
  <2>7. QED
    BY <2>1, <2>2, <2>6
<1>4. ASSUME NEW s \in entering, Admit(s)
      PROVE  /\ ServedOK' /\ UNCHANGED <<process, made, choice, configuration, missed>> /\ entering' \subseteq entering
             /\ \A i \in 1..Len(table') : table'[i] \in entering \/ \E j \in 1..Len(table) : table'[i] = table[j]
  <2>1. UNCHANGED <<process, made, choice, configuration, missed>> /\ entering' = entering \ {s}
    BY <1>4 DEF Admit
  <2>2. /\ table' \in Seq(Sessions) /\ Len(table') <= MaxServed /\ idle' \in 0..Len(table') /\ Distinct(table')
        /\ \A j \in 1..Len(table') : table'[j] = s \/ \E m \in 1..Len(table) : table'[j] = table[m]
    BY <1>4, TableKept
  <2>3. Sessions' = Sessions /\ Distinct(table)'
    BY <2>1, <2>2 DEF Sessions, Distinct
  <2>4. \A j \in 1..Len(table') : table'[j] \notin entering'
    BY <1>a, <2>1, <2>2
  <2>5. ServedOK'
    BY <1>0, <2>1, <2>2, <2>3, <2>4 DEF ServedOK
  <2>6. QED
    BY <2>1, <2>2, <2>5
<1>5. ASSUME NEW i \in 1..Len(table), Use(i) \/ Close(i)
      PROVE  /\ ServedOK' /\ UNCHANGED <<process, made, entering, choice, configuration, missed>>
             /\ \A k \in 1..Len(table') : \E j \in 1..Len(table) : table'[k] = table[j]
  <2>1. /\ UNCHANGED <<process, made, entering, choice, configuration, missed>>
        /\ idle' = IF i <= idle THEN idle - 1 ELSE idle
    BY <1>5 DEF Use, Close, TakenOut
  <2>t. PICK t : t = RemoveAt(table, i)
    OBVIOUS
  <2>2. /\ t \in Seq(Sessions) /\ Len(t) = Len(table) - 1 /\ Distinct(t)
        /\ \A j \in 1..Len(t) : t[j] # table[i] /\ \E m \in 1..Len(table) : t[j] = table[m]
    BY <2>t, TakenFromTable
  <2>3. idle' \in 0..(Len(table) - 1)
    BY <1>a, <2>1
  <2>4. /\ table' \in Seq(Sessions) /\ Distinct(table') /\ Len(table') \in {Len(table) - 1, Len(table)}
        /\ \A k \in 1..Len(table') : \E j \in 1..Len(table) : table'[k] = table[j]
    <3>1. CASE table' = t
      BY <2>2, <3>1
    <3>2. CASE table' = Append(t, table[i])
      <4>s. PICK s \in Sessions : s = table[i]
        BY <1>a
      <4>1. \A j \in 1..Len(t) : t[j] # s
        BY <2>2, <4>s
      <4>2. /\ Append(t, s) \in Seq(Sessions) /\ Len(Append(t, s)) = Len(t) + 1 /\ Distinct(Append(t, s))
            /\ \A k \in 1..(Len(t) + 1) : Append(t, s)[k] = s \/ \E j \in 1..Len(t) : Append(t, s)[k] = t[j]
        BY <2>2, <4>1, ComesLast
      <4>3. Len(t) + 1 = Len(table)
        BY <1>a, <2>2
      <4>4. QED
        BY <2>2, <3>2, <4>s, <4>2, <4>3
    <3>3. QED
      BY <1>5, <2>t, <3>1, <3>2 DEF Use, Close
  <2>l. Len(table) <= MaxServed
    BY <1>0 DEF ServedOK
  <2>5. Len(table') <= MaxServed /\ idle' \in 0..Len(table')
    <3>1. PICK n \in Nat : n = Len(table)
      BY <1>a
    <3>2. PICK m \in Nat : m = MaxServed
      BY <1>a
    <3>3. PICK l \in {n - 1, n} : l = Len(table')
      BY <2>4, <3>1
    <3>4. n <= m /\ i \in 1..n /\ idle' \in 0..(n - 1)
      BY <2>l, <2>3, <3>1, <3>2
    <3>5. l <= m /\ idle' \in 0..l
      BY <3>3, <3>4
    <3>6. QED
      BY <3>2, <3>3, <3>5
  <2>6. Sessions' = Sessions /\ Distinct(table)'
    BY <2>1, <2>4 DEF Sessions, Distinct
  <2>7. \A j \in 1..Len(table') : table'[j] \notin entering'
    BY <1>a, <2>1, <2>4
  <2>8. ServedOK'
    BY <1>0, <2>1, <2>4, <2>5, <2>6, <2>7 DEF ServedOK
  <2>9. QED
    BY <2>1, <2>4, <2>8
<1>6. QED
  BY <1>a, <1>1, <1>2, <1>3, <1>4, <1>5 DEF SessionSteps

(* What a change of the choice does to the changes asked for. *)
LEMMA ChangeAsked ==
    ASSUME GatewayTypeOK, QueueInv, NEW c \in Offers, Put(c)
    PROVE  ConfigurationOK' /\ QueueInv' /\ UNCHANGED <<process, served, choice, missed>>
<1> DEFINE S == [asked : Offers, at : PutStates]
           p == [asked |-> c, at |-> "saving"]
<1>1. /\ held' = c /\ puts' = Append(puts, p) /\ UNCHANGED <<process, served, choice, missed, saved, taking, failures>>
  BY DEF Put
<1>2. p \in S /\ p.at = "saving" /\ p.asked = c
  BY DEF PutStates
<1>3. ConfigurationOK /\ puts \in Seq(S)
  BY TypesInParts DEF ConfigurationOK
<1> HIDE DEF p, S
<1>4. /\ puts' \in Seq(S) /\ Len(puts') = Len(puts) + 1 /\ Len(puts) \in Nat
      /\ (\A n \in 1..Len(puts) : puts'[n] = puts[n]) /\ puts'[Len(puts) + 1] = p
  BY <1>1, <1>2, <1>3, AppendProperties, LenProperties
<1>5. ConfigurationOK'
  BY <1>1, <1>3, <1>4 DEF ConfigurationOK, S
<1>6. PICK k \in 1..(Len(puts) + 1) : QueueAt(k)
  BY DEF QueueInv
<1>7. k \in 1..(Len(puts') + 1)
  BY <1>4, <1>6
<1>8. \A n \in 1..Len(puts') : puts'[n].at = "saving" <=> n >= k
  BY <1>2, <1>4, <1>6 DEF QueueAt
<1>9. taking # Absent => k <= Len(puts)
  BY <1>6 DEF QueueAt
<1>10. puts'[Len(puts')].asked = held'
  BY <1>1, <1>2, <1>4
<1>11. k # Len(puts') + 1
  BY <1>4, <1>6
<1>12. QueueAt(k)'
  <2>1. taking' # Absent => k <= Len(puts') /\ k # Len(puts')
    BY <1>1, <1>4, <1>6, <1>9
  <2>2. QED
    BY <1>8, <1>10, <1>11, <2>1 DEF QueueAt
<1>13. QED
  BY <1>1, <1>5, <1>7, <1>12 DEF QueueInv

LEMMA ChoiceIsWritten ==
    ASSUME GatewayTypeOK, QueueInv, WriteTaken \/ SaveFails
    PROVE  ConfigurationOK' /\ QueueInv' /\ UNCHANGED <<process, served, choice, missed>>
<1>1. ConfigurationOK /\ Len(puts) \in Nat /\ DOMAIN puts = 1..Len(puts)
  BY TypesInParts, LenProperties DEF ConfigurationOK
<1>2. PICK k \in 1..(Len(puts) + 1) : QueueAt(k)
  BY DEF QueueInv
<1>3. CASE WriteTaken
  <2>1. /\ Saving # {} /\ taking' = held
        /\ UNCHANGED <<process, served, choice, held, saved, puts, failures, missed>>
    BY <1>3 DEF WriteTaken
  <2>2. ConfigurationOK'
    BY <1>1, <2>1 DEF ConfigurationOK
  <2>3. k <= Len(puts)
    <3>1. PICK n \in 1..Len(puts) : puts[n].at = "saving"
      BY <1>1, <2>1 DEF Saving
    <3>2. n >= k
      BY <1>2, <3>1 DEF QueueAt
    <3>3. QED
      BY <1>1, <1>2, <3>1, <3>2
  <2>4. QueueAt(k)'
    BY <1>2, <2>1, <2>3 DEF QueueAt
  <2>5. QED
    BY <1>2, <2>1, <2>2, <2>4 DEF QueueInv
<1>4. CASE SaveFails
  <2>1. /\ taking # Absent /\ taking' = Absent /\ failures' = failures + 1
        /\ puts' = [puts EXCEPT ![FirstSaving].at = "failed"]
        /\ UNCHANGED <<process, served, choice, held, saved, missed>>
    BY <1>4 DEF SaveFails
  <2>2. k \in 1..Len(puts) /\ \A n \in 1..Len(puts) : puts[n].at = "saving" <=> n >= k
    BY <1>1, <1>2, <2>1 DEF QueueAt
  <2>3. FirstSaving = k
    BY <2>2, FirstIsOldest
  <2>4. puts' = [puts EXCEPT ![k].at = "failed"] /\ "failed" \in PutStates
    BY <2>1, <2>3 DEF PutStates
  <2>5. /\ puts' \in Seq([asked : Offers, at : PutStates]) /\ Len(puts') = Len(puts)
        /\ \A m \in 1..Len(puts) : m # k => puts'[m] = puts[m]
        /\ puts'[k].at = "failed"
    BY <2>2, <2>4, PutGoesOn
  <2>6. ConfigurationOK'
    BY <1>1, <2>1, <2>5 DEF ConfigurationOK
  <2>7. \A n \in 1..Len(puts') : puts'[n].at = "saving" <=> n >= k + 1
    BY <1>1, <2>2, <2>5
  <2>8. failures' # 0
    BY <1>1, <2>1 DEF ConfigurationOK
  <2>9. QueueAt(k + 1)'
    BY <2>1, <2>7, <2>8 DEF QueueAt
  <2>10. k + 1 \in 1..(Len(puts') + 1)
    BY <1>1, <2>2, <2>5
  <2>11. QED
    BY <2>1, <2>6, <2>9, <2>10 DEF QueueInv
<1>5. QED
  BY <1>3, <1>4

(* The file is replaced, and every session is told. *)
LEMMA WriteIsShown ==
    ASSUME GatewayTypeOK, QueueInv, WriteDone
    PROVE  /\ ConfigurationOK' /\ QueueInv'
           /\ TellStdio /\ TellTable /\ missed' = missed \cup entering
           /\ UNCHANGED <<on, start, stop, plugins, http, attached, entering, table, idle>>
<1>1. ConfigurationOK /\ Len(puts) \in Nat /\ DOMAIN puts = 1..Len(puts)
  BY TypesInParts, LenProperties DEF ConfigurationOK
<1>2. PICK k \in 1..(Len(puts) + 1) : QueueAt(k)
  BY DEF QueueInv
<1>3. /\ taking # Absent /\ taking' = Absent /\ saved' = taking
      /\ puts' = [puts EXCEPT ![FirstSaving].at = "done"]
      /\ choice' = puts[FirstSaving].asked /\ held' = held /\ failures' = failures
      /\ TellStdio /\ TellTable /\ missed' = missed \cup entering
      /\ UNCHANGED <<on, start, stop, plugins, http, attached, entering, table, idle>>
  BY DEF WriteDone
<1>4. k \in 1..Len(puts) /\ \A n \in 1..Len(puts) : puts[n].at = "saving" <=> n >= k
  BY <1>1, <1>2, <1>3 DEF QueueAt
<1>5. FirstSaving = k
  BY <1>4, FirstIsOldest
<1>6. puts' = [puts EXCEPT ![k].at = "done"] /\ "done" \in PutStates /\ choice' = puts[k].asked
  BY <1>3, <1>5 DEF PutStates
<1>7. /\ puts' \in Seq([asked : Offers, at : PutStates]) /\ Len(puts') = Len(puts)
      /\ \A m \in 1..Len(puts) : m # k => puts'[m] = puts[m]
      /\ puts'[k].asked = puts[k].asked /\ puts'[k].at = "done" /\ puts[k].asked \in Offers
  BY <1>4, <1>6, PutGoesOn
<1>8. ConfigurationOK'
  BY <1>1, <1>3, <1>6, <1>7 DEF ConfigurationOK
<1>9. \A n \in 1..Len(puts') : puts'[n].at = "saving" <=> n >= k + 1
  BY <1>1, <1>4, <1>7
<1>10. failures' = 0 /\ k + 1 = Len(puts') + 1 => choice' = saved'
  BY <1>1, <1>2, <1>3, <1>4, <1>6, <1>7 DEF QueueAt
<1>11. failures' = 0 /\ k + 1 <= Len(puts') => held' = puts'[Len(puts')].asked
  BY <1>1, <1>2, <1>3, <1>4, <1>7 DEF QueueAt
<1>12. QueueAt(k + 1)'
  BY <1>3, <1>9, <1>10, <1>11 DEF QueueAt
<1>13. k + 1 \in 1..(Len(puts') + 1)
  BY <1>1, <1>4, <1>7
<1>14. QED
  BY <1>3, <1>8, <1>12, <1>13 DEF QueueInv

(* The table is closed with the gateway. *)
LEMMA ClosedTypes ==
    ASSUME GatewayTypeOK, StopSessions
    PROVE  ProcessOK' /\ ServedOK' /\ ConfigurationOK'
<1>1. ProcessOK /\ ServedOK /\ ConfigurationOK /\ Len(made) \in Nat
  BY TypesInParts, LenProperties DEF ServedOK
<1>2. /\ stop' = "plugins" /\ table' = <<>> /\ idle' = 0 /\ missed' = missed \cup entering
      /\ UNCHANGED <<on, start, plugins, http, stdio, attached, made, entering, choice, configuration>>
  BY DEF StopSessions
<1>3. ProcessOK'
  BY <1>1, <1>2 DEF ProcessOK
<1>4. ConfigurationOK'
  BY <1>1, <1>2 DEF ConfigurationOK, configuration
<1>5. table' \in Seq(Sessions') /\ Len(table') = 0
  BY <1>2, EmptySeq
<1>6. missed' \subseteq Nat
  BY <1>1, <1>2 DEF ServedOK, Sessions
<1>7. Len(table') <= MaxServed
  BY <1>5, CatalogueAssumption
<1>8. ServedOK'
  BY <1>1, <1>2, <1>5, <1>6, <1>7 DEF ServedOK, Distinct, Sessions
<1>9. QED
  BY <1>3, <1>4, <1>8

(* Types, and what is being saved, which needs them. *)
GatewayInv == GatewayTypeOK /\ QueueInv

LEMMA GatewayBegins == GatewayInit => GatewayInv
<1> SUFFICES ASSUME GatewayInit PROVE GatewayInv
  OBVIOUS
<1>1. Len(puts) = 0 /\ Len(table) = 0 /\ Len(made) = 0
  BY EmptySeq DEF GatewayInit
<1>2. /\ puts \in Seq([asked : Offers, at : PutStates]) /\ made \in Seq(SUBSET Tools)
      /\ table \in Seq(Sessions)
  BY EmptySeq DEF GatewayInit
<1>3. ProcessOK
  <2>1. plugins \in BOOLEAN /\ attached \in BOOLEAN
    <3>1. plugins = FALSE /\ attached = ("stdio" \in on)
      BY DEF GatewayInit
    <3>2. ("stdio" \in on) \in BOOLEAN
      OBVIOUS
    <3>3. QED
      BY <3>1, <3>2
  <2>2. on \subseteq {"stdio", "http"}
    BY DEF GatewayInit, Transports
  <2>3. start = "plugins" /\ stop = "no" /\ http = "none" /\ stdio = Absent
    BY Zenon DEF GatewayInit
  <2>4. QED
    BY <2>1, <2>2, <2>3 DEF ProcessOK
<1>4. ServedOK
  BY <1>1, <1>2, CatalogueAssumption DEF GatewayInit, ServedOK, Distinct
<1>5. ConfigurationOK
  BY <1>2 DEF GatewayInit, ConfigurationOK
<1>6. QueueAt(1)
  BY <1>1 DEF GatewayInit, QueueAt
<1>7. 1 \in 1..(Len(puts) + 1)
  BY <1>1
<1>8. QED
  BY <1>3, <1>4, <1>5, <1>6, <1>7, TypesInParts DEF GatewayInv, QueueInv

(* The types of what is shown, when every session is told. *)
LEMMA ToldTypes ==
    ASSUME GatewayTypeOK, TellStdio, TellTable, missed' = missed \cup entering,
           UNCHANGED <<on, start, stop, plugins, http, attached, entering, table, idle>>
    PROVE  ProcessOK' /\ ServedOK'
<1>1. ProcessOK /\ ServedOK /\ Len(made) \in Nat /\ DOMAIN made = 1..Len(made)
  BY TypesInParts, LenProperties DEF ServedOK
<1>2. Shown' \subseteq Tools
  BY DEF Shown
<1>3. ProcessOK'
  BY <1>1, <1>2 DEF ProcessOK, TellStdio
<1>4. made' \in Seq(SUBSET Tools) /\ Len(made') = Len(made)
  <2>1. \A s \in 1..Len(made) : made[s] \in SUBSET Tools
    BY <1>1, ElementOfSeq DEF ServedOK
  <2>2. made' = [s \in 1..Len(made) |-> IF s \in Range(table) THEN Shown' ELSE made[s]]
    BY <1>1 DEF TellTable
  <2>3. \A s \in 1..Len(made) : (IF s \in Range(table) THEN Shown' ELSE made[s]) \in SUBSET Tools
    BY <1>2, <2>1
  <2>4. QED
    BY <1>1, <2>2, <2>3, IsASeq, LenProperties
<1>5. missed' \subseteq Nat
  BY <1>1 DEF ServedOK, Sessions
<1>6. ServedOK'
  BY <1>1, <1>4, <1>5 DEF ServedOK, Distinct, Sessions
<1>7. QED
  BY <1>3, <1>6

LEMMA GatewayGoesOn == GatewayInv /\ [GatewayNext]_gatewayVars => GatewayInv'
<1> SUFFICES ASSUME GatewayInv, [GatewayNext]_gatewayVars PROVE GatewayInv'
  OBVIOUS
<1>1. GatewayTypeOK /\ QueueInv /\ ProcessOK /\ ServedOK /\ ConfigurationOK
  BY TypesInParts DEF GatewayInv
<1>2. SUFFICES ProcessOK' /\ ServedOK' /\ ConfigurationOK' /\ QueueInv'
  <2>1. (ProcessOK /\ ServedOK /\ ConfigurationOK => GatewayTypeOK)'
    BY TypesInParts, PTL
  <2>2. QED
    BY <2>1 DEF GatewayInv
<1>3. ASSUME UNCHANGED process PROVE ProcessOK'
  BY <1>1, <1>3 DEF ProcessOK, process
<1>4. ASSUME UNCHANGED <<served, missed>> PROVE ServedOK'
  BY <1>1, <1>4 DEF ServedOK, served, Sessions, Distinct
<1>5. ASSUME UNCHANGED <<choice, configuration>> PROVE ConfigurationOK' /\ QueueInv'
  BY <1>1, <1>5 DEF ConfigurationOK, configuration, QueueInv, QueueAt
<1>6. CASE RunSteps
  BY <1>1, <1>4, <1>5, <1>6, RunTypes
<1>7. CASE SessionSteps
  BY <1>1, <1>3, <1>5, <1>7, SessionTypesKept
<1>8. ASSUME NEW c \in Offers, Put(c) PROVE ProcessOK' /\ ServedOK' /\ ConfigurationOK' /\ QueueInv'
  BY <1>1, <1>3, <1>4, <1>8, ChangeAsked
<1>9. CASE WriteTaken \/ SaveFails
  BY <1>1, <1>3, <1>4, <1>9, ChoiceIsWritten
<1>10. CASE WriteDone
  BY <1>1, <1>10, WriteIsShown, ToldTypes
<1>11. CASE StopSessions
  <2>1. UNCHANGED <<choice, configuration>>
    BY <1>11 DEF StopSessions
  <2>2. QED
    BY <1>1, <1>5, <1>11, <2>1, ClosedTypes
<1>12. CASE UNCHANGED gatewayVars
  BY <1>3, <1>4, <1>5, <1>12 DEF gatewayVars
<1>13. QED
  BY <1>6, <1>7, <1>8, <1>9, <1>10, <1>11, <1>12 DEF GatewayNext, RunSteps, SessionSteps

(* The gateway's variables have their types: the table of sessions never    *)
(* holds more than its limit, none twice, and none that is still being      *)
(* initialized.                                                             *)
THEOREM GatewayTypeCorrect == GatewaySpec => []GatewayTypeOK
<1>1. GatewayInv => GatewayTypeOK
  BY DEF GatewayInv
<1>2. QED
  BY <1>1, GatewayBegins, GatewayGoesOn, PTL DEF GatewaySpec

(* As long as no write of the file fails, what is shown once every change   *)
(* is answered is what was saved, however the changes came while one was    *)
(* being written.                                                           *)
THEOREM ShownSaved == GatewaySpec => []ShownIsSaved
<1>1. GatewayInv => ShownIsSaved
  <2> SUFFICES ASSUME GatewayInv, failures = 0, Saving = {} PROVE choice = saved
    BY DEF ShownIsSaved
  <2>1. Len(puts) \in Nat /\ DOMAIN puts = 1..Len(puts)
    BY LenProperties DEF GatewayInv, GatewayTypeOK
  <2>2. PICK k \in 1..(Len(puts) + 1) : QueueAt(k)
    BY DEF GatewayInv, QueueInv
  <2>3. ~(k <= Len(puts))
    <3>1. ASSUME k <= Len(puts) PROVE FALSE
      <4>0. k \in 1..Len(puts)
        BY <2>1, <2>2, <3>1
      <4>1. k \in 1..Len(puts) /\ puts[k].at = "saving"
        BY <2>2, <4>0 DEF QueueAt
      <4>2. QED
        BY <2>1, <4>1 DEF Saving
    <3>2. QED
      BY <3>1
  <2>4. k = Len(puts) + 1
    BY <2>1, <2>2, <2>3
  <2>5. QED
    BY <2>2, <2>4 DEF QueueAt
<1>2. QED
  BY <1>1, GatewayBegins, GatewayGoesOn, PTL DEF GatewaySpec

LEMMA FollowBegins == GatewayInit => FollowInv
  BY EmptySeq DEF GatewayInit, FollowInv

LEMMA FollowGoesOn == FollowInv /\ GatewayInv /\ [GatewayNext]_gatewayVars => FollowInv'
<1> SUFFICES ASSUME FollowInv, GatewayInv, [GatewayNext]_gatewayVars PROVE FollowInv'
  OBVIOUS
<1>1. GatewayTypeOK /\ QueueInv /\ ServedOK /\ ProcessOK
  BY TypesInParts DEF GatewayInv
<1>2. /\ DOMAIN made = 1..Len(made) /\ Len(made) \in Nat /\ DOMAIN table = 1..Len(table)
      /\ entering \subseteq 1..Len(made) /\ \A i \in 1..Len(table) : table[i] \in 1..Len(made)
  BY <1>1, TableIs DEF ServedOK, Sessions
<1>3. ASSUME UNCHANGED choice PROVE Shown' = Shown
  BY <1>3 DEF Shown, Hidden
<1>4. CASE RunSteps
  <2>1. UNCHANGED <<served, choice, configuration, missed>>
    BY <1>1, <1>4, RunTypes
  <2>2. stdio' \in {stdio, Shown, Absent}
    BY <1>4 DEF RunSteps, StartPlugins, StartStdio, Listen, Signal, Disconnect, StopStdio, StopHttp, StopPlugins, Exit
  <2>3. QED
    BY <1>3, <2>1, <2>2 DEF FollowInv, served
<1>5. CASE SessionSteps
  <2>1. /\ UNCHANGED <<process, choice, configuration, missed>>
        /\ made' = made \/ made' = Append(made, Shown)
        /\ \A s \in entering' : s \in entering \/ (made' = Append(made, Shown) /\ s = Len(made) + 1)
        /\ \A i \in 1..Len(table') : table'[i] \in entering \/ \E j \in 1..Len(table) : table'[i] = table[j]
    BY <1>1, <1>5, SessionTypesKept
  <2>2. stdio' = stdio /\ Shown' = Shown /\ missed' = missed
    BY <1>3, <2>1 DEF process
  <2>3. \A s \in 1..Len(made) : made'[s] = made[s]
    BY <1>1, <2>1, AppendProperties DEF ServedOK, Shown
  <2>4. made' = Append(made, Shown) => made'[Len(made) + 1] = Shown
    BY <1>1, AppendProperties DEF ServedOK, Shown
  <2>5. \A s \in entering' : s \in missed \/ made'[s] = Shown
    BY <1>2, <2>1, <2>3, <2>4 DEF FollowInv
  <2>6. ASSUME NEW i \in 1..Len(table') PROVE table'[i] \in missed \/ made'[table'[i]] = Shown
    <3>1. CASE table'[i] \in entering
      BY <1>2, <2>3, <3>1 DEF FollowInv
    <3>2. ASSUME NEW j \in 1..Len(table), table'[i] = table[j] PROVE table'[i] \in missed \/ made'[table'[i]] = Shown
      BY <1>2, <2>3, <3>2 DEF FollowInv
    <3>3. QED
      BY <2>1, <3>1, <3>2
  <2>7. QED
    BY <2>2, <2>5, <2>6 DEF FollowInv
<1>6. ASSUME NEW c \in Offers, Put(c) PROVE FollowInv'
  <2>1. UNCHANGED <<process, served, choice, missed>>
    BY <1>1, <1>6, ChangeAsked
  <2>2. QED
    BY <1>3, <2>1 DEF FollowInv, served, process
<1>7. CASE WriteTaken \/ SaveFails
  <2>1. UNCHANGED <<process, served, choice, missed>>
    BY <1>1, <1>7, ChoiceIsWritten
  <2>2. QED
    BY <1>3, <2>1 DEF FollowInv, served, process
<1>8. CASE WriteDone
  <2>1. TellStdio /\ TellTable /\ missed' = missed \cup entering /\ UNCHANGED <<entering, table>>
    BY <1>1, <1>8, WriteIsShown
  <2>2. stdio' # Absent => stdio' = Shown'
    BY <2>1 DEF TellStdio
  <2>3. \A s \in entering' : s \in missed'
    BY <2>1
  <2>4. \A i \in 1..Len(table') : made'[table'[i]] = Shown'
    BY <1>2, <2>1 DEF TellTable, Range
  <2>5. QED
    BY <2>2, <2>3, <2>4 DEF FollowInv
<1>9. CASE StopSessions
  <2>1. /\ table' = <<>> /\ missed' = missed \cup entering
        /\ UNCHANGED <<stdio, made, entering, choice>>
    BY <1>9 DEF StopSessions
  <2>2. Len(table') = 0
    BY <2>1, EmptySeq
  <2>3. QED
    BY <1>3, <2>1, <2>2 DEF FollowInv
<1>10. CASE UNCHANGED gatewayVars
  BY <1>3, <1>10 DEF gatewayVars, FollowInv, served, process
<1>11. QED
  BY <1>4, <1>5, <1>6, <1>7, <1>8, <1>9, <1>10 DEF GatewayNext, RunSteps, SessionSteps

(* Every session, over stdin or HTTP, shows exactly the tools that the last *)
(* word of the choice in force names, but for those that were being         *)
(* initialized when it changed.                                             *)
THEOREM SessionsFollow == GatewaySpec => []SessionsFollowChoice
<1>1. FollowInv /\ GatewayInv => SessionsFollowChoice
  <2> SUFFICES ASSUME FollowInv, GatewayInv PROVE SessionsFollowChoice
    OBVIOUS
  <2>1. DOMAIN table = 1..Len(table)
    BY TableIs DEF GatewayInv
  <2>2. \A s \in Range(table) \ missed : made[s] = Shown
    BY <2>1 DEF FollowInv, Range
  <2>3. stdio # Absent => stdio = Shown
    BY DEF FollowInv
  <2>4. QED
    BY <2>2, <2>3, ShownIsWanted DEF SessionsFollowChoice
<1>2. QED
  BY <1>1, GatewayBegins, GatewayGoesOn, FollowBegins, FollowGoesOn, PTL DEF GatewaySpec
=============================================================================
