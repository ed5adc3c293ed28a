--------------------------- MODULE Tablets_proofs ---------------------------
(***************************************************************************)
(* What is proved of the tablet bridge: the groups of meters it asks for,   *)
(* its listeners, the verdict on a write, the OSC half, and the native half *)
(* (WingNativeProxy).                                                       *)
(***************************************************************************)
EXTENDS WingBridge, BridgeListeners, BridgeMeters, BridgeOsc, WingNativeProxy, SequenceTheorems, FiniteSetTheorems,
        WellFoundedInduction, TLAPS

-----------------------------------------------------------------------------
(* BridgeMeters *)

(* The union of what the tablets hold depends on the groups alone. *)
LEMMA UnionOfGroups ==
    ASSUME \A t \in MeterTablets, r \in Reports : subs'[t][r].groups = subs[t][r].groups
    PROVE  Union' = Union
<1>1. {subs'[t][r].groups : t \in MeterTablets, r \in Reports}
      = {subs[t][r].groups : t \in MeterTablets, r \in Reports}
  OBVIOUS
<1>2. QED
  BY <1>1 DEF Union

(* Every variable of the meters keeps its type. *)
THEOREM MetersTypeCorrect == MetersSpec => []MetersTypeOK
<1>1. MetersInit => MetersTypeOK
  <2>1. NoSub \in Subscriptions
    BY DEF NoSub, Subscriptions
  <2>2. MetersInit => subs \in [MeterTablets -> [Reports -> Subscriptions]]
    BY <2>1 DEF MetersInit
  <2>3. MetersInit => naming \in [MeterTablets -> Reports \cup {NoClient}]
    BY DEF MetersInit
  <2>4. MetersInit => clients \in Nat /\ meterClient \in Nat \cup {NoClient} /\ events \in Nat
    BY DEF MetersInit
  <2>5. MetersInit => unionTimer \in BOOLEAN /\ extra \subseteq MeterGroups /\ appliedUnion \subseteq MeterGroups
    BY DEF MetersInit
  <2>6. QED
    BY <2>2, <2>3, <2>4, <2>5 DEF MetersTypeOK
<1>2. MetersTypeOK /\ [MetersNext]_meterBridgeVars => MetersTypeOK'
  <2> SUFFICES ASSUME MetersTypeOK, [MetersNext]_meterBridgeVars PROVE MetersTypeOK'
    OBVIOUS
  <2>0. NoSub \in Subscriptions
    BY DEF NoSub, Subscriptions
  <2>1. ASSUME NEW t \in MeterTablets, CloseSession(t) PROVE MetersTypeOK'
    BY <2>0, <2>1 DEF MetersTypeOK, CloseSession, Bounded
  <2>2. ASSUME NEW t \in MeterTablets, NEW r \in Reports, ReportId(t, r) PROVE MetersTypeOK'
    <3>1. subs[t][r] \in Subscriptions
      BY DEF MetersTypeOK
    <3>2. [subs[t][r] EXCEPT !.age = "live"] \in Subscriptions
      BY <3>1 DEF Subscriptions
    <3>3. QED
      BY <2>2, <3>2 DEF MetersTypeOK, ReportId, Bounded
  <2>3. ASSUME NEW t \in MeterTablets, NEW r \in Reports, Ages(t, r) PROVE MetersTypeOK'
    <3>1. subs[t][r] \in Subscriptions
      BY DEF MetersTypeOK
    <3>2. [subs[t][r] EXCEPT !.age = IF @ = "live" THEN "stale" ELSE "long"] \in Subscriptions
      BY <3>1 DEF Subscriptions
    <3>3. QED
      BY <2>3, <3>2 DEF MetersTypeOK, Ages
  <2>4. ASSUME NEW t \in MeterTablets, NEW g \in SUBSET MeterGroups, Collection(t, g) PROVE MetersTypeOK'
    <3>1. naming[t] \in Reports
      BY <2>4 DEF MetersTypeOK, Collection
    <3>2. [groups |-> g, age |-> IF subs[t][naming[t]].age = "none" THEN "live" ELSE subs[t][naming[t]].age]
            \in Subscriptions
      BY <3>1 DEF MetersTypeOK, Subscriptions
    <3>3. QED
      BY <2>4, <3>1, <3>2 DEF MetersTypeOK, Collection, Bounded
  <2>5. ASSUME NEW c \in {NoClient, clients + 1}, AttachMeterClient(c) PROVE MetersTypeOK'
    BY <2>5 DEF MetersTypeOK, AttachMeterClient, Bounded, UnionAfterAttach
  <2>6. ASSUME ApplyUnion PROVE MetersTypeOK'
    <3>1. Union \subseteq MeterGroups
      BY DEF MetersTypeOK, Union, Subscriptions
    <3>2. QED
      BY <2>6, <3>1 DEF MetersTypeOK, ApplyUnion
  <2>7. ASSUME FanOut PROVE MetersTypeOK'
    BY <2>0, <2>7 DEF MetersTypeOK, FanOut
  <2>8. CASE UNCHANGED meterBridgeVars
    BY <2>8 DEF MetersTypeOK, meterBridgeVars
  <2>9. QED
    BY <2>1, <2>2, <2>3, <2>4, <2>5, <2>6, <2>7, <2>8 DEF MetersNext
<1>3. QED
  BY <1>1, <1>2, PTL DEF MetersSpec

(* What the meter client was asked for is what the bridge remembers having asked. *)
MetersInv == UnionIsAsked /\ extra = appliedUnion

(* Once the timer has fired, the meter client is asked for exactly what the *)
(* tablets hold. *)
THEOREM UnionAsked == MetersSpec => []UnionIsAsked
<1>1. MetersInit => MetersInv
  BY DEF MetersInit, MetersInv, UnionIsAsked
<1>2. MetersTypeOK /\ MetersInv /\ [MetersNext]_meterBridgeVars => MetersInv'
  <2> SUFFICES ASSUME MetersTypeOK, MetersInv, [MetersNext]_meterBridgeVars PROVE MetersInv'
    OBVIOUS
  <2>1. ASSUME NEW t \in MeterTablets, CloseSession(t) PROVE MetersInv'
    BY <2>1 DEF MetersInv, UnionIsAsked, CloseSession
  <2>2. ASSUME NEW t \in MeterTablets, NEW r \in Reports, ReportId(t, r) PROVE MetersInv'
    <3>1. Union' = Union
      BY <2>2, UnionOfGroups DEF MetersTypeOK, ReportId
    <3>2. QED
      BY <2>2, <3>1 DEF MetersInv, UnionIsAsked, ReportId
  <2>3. ASSUME NEW t \in MeterTablets, NEW r \in Reports, Ages(t, r) PROVE MetersInv'
    <3>1. Union' = Union
      BY <2>3, UnionOfGroups DEF MetersTypeOK, Ages
    <3>2. QED
      BY <2>3, <3>1 DEF MetersInv, UnionIsAsked, Ages
  <2>4. ASSUME NEW t \in MeterTablets, NEW g \in SUBSET MeterGroups, Collection(t, g) PROVE MetersInv'
    BY <2>4 DEF MetersInv, UnionIsAsked, Collection
  <2>5. ASSUME NEW c \in {NoClient, clients + 1}, AttachMeterClient(c) PROVE MetersInv'
    BY <2>5 DEF MetersInv, UnionIsAsked, AttachMeterClient, UnionAfterAttach
  <2>6. ASSUME ApplyUnion PROVE MetersInv'
    <3>1. Union' = Union
      BY <2>6, UnionOfGroups DEF ApplyUnion
    <3>2. QED
      BY <2>6, <3>1 DEF MetersInv, UnionIsAsked, ApplyUnion
  <2>7. ASSUME FanOut PROVE MetersInv'
    BY <2>7 DEF MetersInv, UnionIsAsked, FanOut
  <2>8. CASE UNCHANGED meterBridgeVars
    BY <2>8 DEF MetersInv, UnionIsAsked, meterBridgeVars, Union
  <2>9. QED
    BY <2>1, <2>2, <2>3, <2>4, <2>5, <2>6, <2>7, <2>8 DEF MetersNext
<1>3. MetersInv => UnionIsAsked
  BY DEF MetersInv
<1>4. QED
  BY <1>1, <1>2, <1>3, MetersTypeCorrect, PTL DEF MetersSpec

-----------------------------------------------------------------------------
(* BridgeListeners *)

SocketOf(l) == IF chain # <<>> /\ chain[1].at = "closing" /\ chain[1].who = l THEN chain[1].old ELSE held[l]
PortAsked(key) == {key} \ {Off, Unset}

(* Of steps c for what keys ask: the last one of a listener brings it what  *)
(* was last asked for, and a listener without one has it, or found its port *)
(* taken.                                                                   *)
LastStep(c, i) == \A j \in 1..Len(c) : c[j].who = c[i].who => j <= i
Follows(c, keys) ==
    /\ \A i \in 1..Len(c) : LastStep(c, i) => PortAsked(c[i].key) = PortAsked(keys[c[i].who])
    /\ \A l \in Listeners :
          (\A i \in 1..Len(c) : c[i].who # l) => (failed[l] => held[l] = Unset) /\ (~failed[l] => PortAsked(held[l]) = PortAsked(keys[l]))

(* One step runs at a time; what it stopped is let go of; every socket is   *)
(* one the bridge holds or is closing.                                      *)
ListenersInv ==
    /\ \A i \in 1..Len(chain) : i > 1 => chain[i].at = "queued"
    /\ chain # <<>> /\ chain[1].at # "queued" => held[chain[1].who] = Unset
    /\ \A l \in Listeners, key \in Keys : <<l, key>> \in bound <=> SocketOf(l) = key
    /\ Follows(chain, keyInUse)

ListenerKeys == Keys \cup {Off, Unset}

(* A step queued after the others brings its listener what is asked now.    *)
LEMMA StepQueued ==
    ASSUME NEW c \in Seq(Steps), NEW k \in [Listeners -> ListenerKeys], NEW kk \in [Listeners -> ListenerKeys],
           NEW who \in Listeners, NEW key \in Keys \cup {Off},
           Follows(c, k), \A l \in Listeners : l # who => kk[l] = k[l], PortAsked(kk[who]) = PortAsked(key)
    PROVE  Follows(c \o <<Step(who, key)>>, kk)
<1> DEFINE d == c \o <<Step(who, key)>>
<1>1. Step(who, key) \in Steps
  BY DEF Step, Steps
<1>2. /\ d \in Seq(Steps) /\ Len(d) = Len(c) + 1 /\ Len(c) \in Nat
      /\ d[Len(c) + 1] = Step(who, key) /\ \A i \in 1..Len(c) : d[i] = c[i]
  BY <1>1
<1>3. Step(who, key).who = who /\ Step(who, key).key = key
  BY DEF Step
<1>4. \A i \in 1..Len(c) : c[i].who \in Listeners
  <2>1. \A i \in 1..Len(c) : c[i] \in Steps
    BY ElementOfSeq
  <2>2. QED
    BY <2>1 DEF Steps
<1>5. ASSUME NEW i \in 1..Len(d), LastStep(d, i) PROVE PortAsked(d[i].key) = PortAsked(kk[d[i].who])
  <2>1. CASE i = Len(c) + 1
    BY <2>1, <1>2, <1>3
  <2>2. CASE i # Len(c) + 1
    <3>1. i \in 1..Len(c)
      BY <2>2, <1>2
    <3>2. c[i].who # who
      BY <3>1, <1>5, <1>2, <1>3 DEF LastStep
    <3>3. LastStep(c, i)
      BY <3>1, <1>5, <1>2 DEF LastStep
    <3>4. QED
      BY <3>1, <3>2, <3>3, <1>2, <1>4 DEF Follows
  <2>3. QED
    BY <2>1, <2>2
<1>6. ASSUME NEW l \in Listeners, \A i \in 1..Len(d) : d[i].who # l
      PROVE  (failed[l] => held[l] = Unset) /\ (~failed[l] => PortAsked(held[l]) = PortAsked(kk[l]))
  <2>1. l # who
    BY <1>6, <1>2, <1>3
  <2>2. \A i \in 1..Len(c) : c[i].who # l
    BY <1>6, <1>2
  <2>3. (failed[l] => held[l] = Unset) /\ (~failed[l] => PortAsked(held[l]) = PortAsked(k[l]))
    BY <2>2 DEF Follows
  <2>4. QED
    BY <2>1, <2>3
<1>7. QED
  BY <1>5, <1>6 DEF Follows

(* configure(): of one listener after the other. *)
LEMMA RestartQueued ==
    ASSUME NEW c \in Seq(Steps), NEW k \in [Listeners -> ListenerKeys], NEW kk \in [Listeners -> ListenerKeys],
           NEW who \in Listeners, NEW keys \in [Listeners -> Keys \cup {Off}],
           Follows(c, k), \A l \in Listeners : l # who => kk[l] = k[l], k[who] = keyInUse[who], kk[who] = keys[who]
    PROVE  Follows(c \o Restarts(who, keys), kk)
<1>1. CASE keys[who] # keyInUse[who]
  <2>1. Restarts(who, keys) = <<Step(who, keys[who])>>
    BY <1>1 DEF Restarts
  <2>2. keys[who] \in Keys \cup {Off}
    OBVIOUS
  <2>3. QED
    BY <2>1, <2>2, StepQueued
<1>2. CASE keys[who] = keyInUse[who]
  <2>1. kk = k
    <3>1. \A l \in Listeners : kk[l] = k[l]
      BY <1>2
    <3>2. QED
      BY <3>1
  <2>2. Restarts(who, keys) = <<>>
    BY <1>2 DEF Restarts
  <2>3. c \o <<>> = c
    BY ConcatEmptySeq
  <2>4. QED
    BY <2>1, <2>2, <2>3
<1>3. QED
  BY <1>1, <1>2

LEMMA RestartsType ==
    ASSUME NEW keys \in [Listeners -> Keys \cup {Off}], NEW who \in Listeners
    PROVE  /\ Restarts(who, keys) \in Seq(Steps)
           /\ \A i \in 1..Len(Restarts(who, keys)) : Restarts(who, keys)[i].at = "queued"
<1>1. Step(who, keys[who]) \in Steps /\ Step(who, keys[who]).at = "queued"
  BY DEF Step, Steps
<1>2. CASE Restarts(who, keys) = <<>>
  BY <1>2
<1>3. CASE Restarts(who, keys) = <<Step(who, keys[who])>>
  BY <1>1, <1>3
<1>4. QED
  BY <1>2, <1>3 DEF Restarts

(* Steps queued after the others leave the one that runs as it is. *)
LEMMA QueuedBehind ==
    ASSUME NEW c \in Seq(Steps), NEW d \in Seq(Steps),
           \A i \in 1..Len(c) : i > 1 => c[i].at = "queued", \A i \in 1..Len(d) : d[i].at = "queued"
    PROVE  /\ c \o d \in Seq(Steps) /\ \A i \in 1..Len(c \o d) : i > 1 => (c \o d)[i].at = "queued"
           /\ c # <<>> => c \o d # <<>> /\ (c \o d)[1] = c[1]
           /\ c = <<>> /\ c \o d # <<>> => (c \o d)[1].at = "queued"
<1>1. c \o d \in Seq(Steps) /\ Len(c \o d) = Len(c) + Len(d) /\ Len(c) \in Nat /\ Len(d) \in Nat
  OBVIOUS
<1>2. \A i \in 1..Len(c) : (c \o d)[i] = c[i]
  BY <1>1
<1>3. \A i \in 1..Len(d) : (c \o d)[Len(c) + i] = d[i]
  BY <1>1
<1>4. ASSUME NEW i \in 1..Len(c \o d), i > 1 PROVE (c \o d)[i].at = "queued"
  <2>1. CASE i <= Len(c)
    BY <2>1, <1>1, <1>2, <1>4
  <2>2. CASE i > Len(c)
    <3>1. i - Len(c) \in 1..Len(d) /\ Len(c) + (i - Len(c)) = i
      BY <2>2, <1>1
    <3>2. QED
      BY <3>1, <1>3
  <2>3. QED
    BY <2>1, <2>2, <1>1
<1>5. c # <<>> => 1 \in 1..Len(c)
  BY EmptySeq
<1>6. c = <<>> => c \o d = d
  BY ConcatEmptySeq
<1>7. c = <<>> /\ d # <<>> => 1 \in 1..Len(d)
  BY EmptySeq
<1>8. c # <<>> => c \o d # <<>>
  BY <1>1, EmptySeq
<1>9. QED
  BY <1>1, <1>2, <1>4, <1>5, <1>6, <1>7, <1>8

(* A step that ends leaves the others as they were, but for their turn. *)
LEMMA FirstRemoved ==
    ASSUME NEW c \in Seq(Steps), c # <<>>
    PROVE  /\ RemoveAt(c, 1) \in Seq(Steps) /\ Len(RemoveAt(c, 1)) = Len(c) - 1 /\ Len(c) \in Nat \ {0}
           /\ \A i \in 1..Len(RemoveAt(c, 1)) : i + 1 \in 1..Len(c) /\ RemoveAt(c, 1)[i] = c[i + 1]
<1>1. Len(c) \in Nat \ {0}
  BY EmptySeq, LenProperties
<1>2. SubSeq(c, 1, 0) = <<>>
  BY SubSeqEmpty
<1>3. /\ SubSeq(c, 2, Len(c)) \in Seq(Steps) /\ Len(SubSeq(c, 2, Len(c))) = Len(c) - 1
      /\ \A i \in 1..(Len(c) - 1) : SubSeq(c, 2, Len(c))[i] = c[i + 1]
  <2>1. SubSeq(c, 2, Len(c)) = Tail(c)
    BY TailIsSubSeq
  <2>2. QED
    BY <1>1, <2>1, HeadTailProperties
<1>4. RemoveAt(c, 1) = SubSeq(c, 2, Len(c))
  BY <1>2, <1>3, ConcatEmptySeq DEF RemoveAt
<1>5. RemoveAt(c, 1) \in Seq(Steps) /\ Len(RemoveAt(c, 1)) = Len(c) - 1
  BY <1>3, <1>4, Zenon
<1>6. ASSUME NEW i \in 1..Len(RemoveAt(c, 1)) PROVE i + 1 \in 1..Len(c) /\ RemoveAt(c, 1)[i] = c[i + 1]
  <2>1. i \in 1..(Len(c) - 1) /\ i + 1 \in 1..Len(c)
    BY <1>1, <1>5
  <2>2. SubSeq(c, 2, Len(c))[i] = c[i + 1]
    BY <1>3, <2>1, Zenon
  <2>3. QED
    BY <1>4, <2>1, <2>2, Zenon
<1>7. QED
  BY <1>1, <1>5, <1>6, Zenon

LEMMA StepEnded ==
    ASSUME NEW c \in Seq(Steps), c # <<>>, \A i \in 1..Len(c) : LastStep(c, i) => PortAsked(c[i].key) = PortAsked(keyInUse[c[i].who])
    PROVE  /\ \A i \in 1..Len(RemoveAt(c, 1)) :
                 LastStep(RemoveAt(c, 1), i) => PortAsked(RemoveAt(c, 1)[i].key) = PortAsked(keyInUse[RemoveAt(c, 1)[i].who])
           /\ (\A i \in 1..Len(RemoveAt(c, 1)) : RemoveAt(c, 1)[i].who # c[1].who)
                => PortAsked(c[1].key) = PortAsked(keyInUse[c[1].who])
<1> DEFINE d == RemoveAt(c, 1)
<1>1. /\ d \in Seq(Steps) /\ Len(d) = Len(c) - 1 /\ Len(c) \in Nat \ {0}
      /\ \A i \in 1..Len(d) : i + 1 \in 1..Len(c) /\ d[i] = c[i + 1]
  <2>1. /\ RemoveAt(c, 1) \in Seq(Steps) /\ Len(RemoveAt(c, 1)) = Len(c) - 1 /\ Len(c) \in Nat \ {0}
        /\ \A i \in 1..Len(RemoveAt(c, 1)) : i + 1 \in 1..Len(c) /\ RemoveAt(c, 1)[i] = c[i + 1]
    BY FirstRemoved, Zenon
  <2>2. QED
    BY <2>1, Zenon DEF d
<1> HIDE DEF d
<1>2. ASSUME NEW i \in 1..Len(d), LastStep(d, i) PROVE PortAsked(d[i].key) = PortAsked(keyInUse[d[i].who])
  <2>1. ASSUME NEW j \in 1..Len(c), c[j].who = c[i + 1].who PROVE j <= i + 1
    <3>1. CASE j = 1
      BY <3>1, <1>1
    <3>2. CASE j # 1
      <4>1. j - 1 \in 1..Len(d) /\ d[j - 1] = c[j] /\ d[i] = c[i + 1]
        BY <3>2, <1>1
      <4>2. j - 1 <= i
        BY <4>1, <2>1, <1>2 DEF LastStep
      <4>3. QED
        BY <4>2
    <3>3. QED
      BY <3>1, <3>2
  <2>2. LastStep(c, i + 1)
    BY <2>1 DEF LastStep
  <2>3. QED
    BY <2>2, <1>1
<1>3. ASSUME \A i \in 1..Len(d) : d[i].who # c[1].who PROVE PortAsked(c[1].key) = PortAsked(keyInUse[c[1].who])
  <2>1. ASSUME NEW j \in 1..Len(c), c[j].who = c[1].who PROVE j <= 1
    <3>1. CASE j # 1
      <4>1. j - 1 \in 1..Len(d) /\ d[j - 1] = c[j]
        BY <3>1, <1>1
      <4>2. QED
        BY <4>1, <2>1, <1>3
    <3>2. QED
      BY <3>1
  <2>2. LastStep(c, 1)
    BY <2>1 DEF LastStep
  <2>3. QED
    BY <2>2, <1>1
<1>4. QED
  BY <1>2, <1>3 DEF d

(* Every variable of the listeners keeps its type. *)
THEOREM ListenersTypeCorrect == ListenersSpec => []ListenersTypeOK
<1>1. ListenersInit => ListenersTypeOK
  BY DEF ListenersInit, ListenersTypeOK
<1>2. ListenersTypeOK /\ [ListenersNext]_listenerVars => ListenersTypeOK'
  <2> SUFFICES ASSUME ListenersTypeOK, [ListenersNext]_listenerVars PROVE ListenersTypeOK'
    OBVIOUS
  <2>0. \A i \in DOMAIN chain : chain[i] \in Steps /\ chain[i].who \in Listeners
    <3>1. \A i \in DOMAIN chain : chain[i] \in Steps
      BY DEF ListenersTypeOK
    <3>2. QED
      BY <3>1 DEF Steps
  <2>1. ASSUME NEW keys \in [Listeners -> Keys \cup {Off}], ConfigureListeners(keys) PROVE ListenersTypeOK'
    <3>1. Restarts("osc", keys) \in Seq(Steps) /\ Restarts("native", keys) \in Seq(Steps) /\ Restarts("discovery", keys) \in Seq(Steps)
      BY RestartsType DEF Listeners
    <3>2. chain' \in Seq(Steps)
      BY <2>1, <3>1 DEF ConfigureListeners, ListenersTypeOK
    <3>3. QED
      BY <2>1, <3>2 DEF ConfigureListeners, ListenersTypeOK
  <2>2. ASSUME CloseListeners PROVE ListenersTypeOK'
    <3>1. Step("osc", Off) \in Steps /\ Step("native", Off) \in Steps /\ Step("discovery", Off) \in Steps
      BY DEF Step, Steps, Listeners
    <3>2. chain' \in Seq(Steps)
      BY <2>2, <3>1 DEF CloseListeners, ListenersTypeOK
    <3>3. QED
      BY <2>2, <3>2 DEF CloseListeners, ListenersTypeOK
  <2>3. ASSUME NEW i \in DOMAIN chain, StopBegins(i) PROVE ListenersTypeOK'
    <3>1. [[chain[i] EXCEPT !.at = "closing"] EXCEPT !.old = held[chain[i].who]] \in Steps
      <4>1. [chain[i] EXCEPT !.at = "closing"] \in Steps
        BY <2>0 DEF Steps
      <4>2. held[chain[i].who] \in Keys \cup {Unset}
        BY <2>0 DEF ListenersTypeOK
      <4>3. QED
        BY <4>1, <4>2 DEF Steps
    <3>2. chain' = [chain EXCEPT ![i] = [[chain[i] EXCEPT !.at = "closing"] EXCEPT !.old = held[chain[i].who]]]
      BY <2>3 DEF StopBegins, ListenersTypeOK
    <3>3. chain' \in Seq(Steps)
      BY <3>1, <3>2 DEF ListenersTypeOK
    <3>4. QED
      BY <2>3, <3>3 DEF StopBegins, ListenersTypeOK
  <2>4. ASSUME NEW i \in DOMAIN chain, StopEnds(i) PROVE ListenersTypeOK'
    <3>1. i = 1 /\ chain # <<>>
      BY <2>4 DEF StopEnds, Turn, ListenersTypeOK
    <3>2. RemoveAt(chain, 1) \in Seq(Steps) /\ RemoveAt(chain, i) \in Seq(Steps)
      <4>1. RemoveAt(chain, 1) \in Seq(Steps)
        BY <3>1, FirstRemoved, Zenon DEF ListenersTypeOK
      <4>2. QED
        BY <4>1, <3>1, Zenon
    <3>3. ASSUME chain[i].key # Off PROVE chain' \in Seq(Steps)
      <4>1. [chain[i] EXCEPT !.at = "starting"] \in Steps
        BY <2>0, <3>3 DEF Steps
      <4>2. [chain EXCEPT ![i].at = "starting"] \in Seq(Steps)
        BY <4>1 DEF ListenersTypeOK
      <4>3. QED
        BY <2>4, <4>2, <3>3 DEF StopEnds
    <3>4. ASSUME chain[i].key = Off PROVE chain' \in Seq(Steps)
      BY <2>4, <3>2, <3>4 DEF StopEnds
    <3>5. chain' \in Seq(Steps)
      BY <3>3, <3>4
    <3>6. bound' \subseteq Listeners \X Keys /\ failed' \in [Listeners -> BOOLEAN]
      BY <2>4 DEF StopEnds, ListenersTypeOK
    <3>7. QED
      BY <2>4, <3>5, <3>6 DEF StopEnds, ListenersTypeOK
  <2>5. ASSUME NEW i \in DOMAIN chain, StartEnds(i) PROVE ListenersTypeOK'
    <3>1. i = 1 /\ chain # <<>>
      BY <2>5 DEF StartEnds, Turn, ListenersTypeOK
    <3>2. RemoveAt(chain, 1) \in Seq(Steps) /\ RemoveAt(chain, i) \in Seq(Steps)
      <4>1. RemoveAt(chain, 1) \in Seq(Steps)
        BY <3>1, FirstRemoved, Zenon DEF ListenersTypeOK
      <4>2. QED
        BY <4>1, <3>1, Zenon
    <3>3. chain[i].who \in Listeners /\ chain[i].key \in Keys
      BY <2>0, <2>5 DEF StartEnds, Steps
    <3>4. bound' \subseteq Listeners \X Keys
      BY <2>5, <3>3 DEF StartEnds, ListenersTypeOK
    <3>5. held' \in [Listeners -> Keys \cup {Unset}]
      BY <2>5, <3>3 DEF StartEnds, ListenersTypeOK
    <3>6. failed' \in [Listeners -> BOOLEAN]
      BY <2>5, <3>3 DEF StartEnds, ListenersTypeOK
    <3>7. chain' \in Seq(Steps) /\ configures' = configures /\ keyInUse' = keyInUse
      BY <2>5, <3>2 DEF StartEnds
    <3>8. QED
      BY <3>4, <3>5, <3>6, <3>7 DEF ListenersTypeOK
  <2>6. CASE UNCHANGED listenerVars
    BY <2>6 DEF listenerVars, ListenersTypeOK
  <2>7. QED
    BY <2>1, <2>2, <2>3, <2>4, <2>5, <2>6 DEF ListenersNext
<1>3. QED
  BY <1>1, <1>2, PTL DEF ListenersSpec

(* A save, however many listeners it concerns, leaves the running step be.  *)
LEMMA ConfigureKeepsInv ==
    ASSUME ListenersTypeOK, ListenersInv, NEW keys \in [Listeners -> Keys \cup {Off}], ConfigureListeners(keys)
    PROVE  ListenersInv'
<1> DEFINE c1 == chain \o Restarts("osc", keys)
           c2 == c1 \o Restarts("native", keys)
           k1 == [keyInUse EXCEPT !["osc"] = keys["osc"]]
           k2 == [k1 EXCEPT !["native"] = keys["native"]]
<1>1. "osc" \in Listeners /\ "native" \in Listeners /\ "discovery" \in Listeners
      /\ \A l \in Listeners : l \in {"osc", "native", "discovery"}
  BY DEF Listeners
<1>2. chain \in Seq(Steps) /\ c1 \in Seq(Steps) /\ c2 \in Seq(Steps) /\ chain' = c2 \o Restarts("discovery", keys)
  <2>1. \A l \in Listeners : Restarts(l, keys) \in Seq(Steps)
    BY RestartsType
  <2>2. chain \in Seq(Steps)
    BY DEF ListenersTypeOK
  <2>3. c1 \in Seq(Steps)
    BY <1>1, <2>1, <2>2
  <2>4. c2 \in Seq(Steps)
    <3> HIDE DEF c1
    <3>1. QED
      BY <1>1, <2>1, <2>3
  <2>5. QED
    BY <2>2, <2>3, <2>4 DEF ConfigureListeners
<1>3. keyInUse \in [Listeners -> ListenerKeys] /\ k1 \in [Listeners -> ListenerKeys] /\ k2 \in [Listeners -> ListenerKeys]
      /\ keys \in [Listeners -> ListenerKeys]
  BY <1>1 DEF ListenersTypeOK, ListenerKeys
<1>4. Follows(chain, keyInUse)
  BY DEF ListenersInv
<1>5. k1["osc"] = keys["osc"] /\ \A l \in Listeners : l # "osc" => k1[l] = keyInUse[l]
  BY <1>1, <1>3
<1>6. k2["native"] = keys["native"] /\ \A l \in Listeners : l # "native" => k2[l] = k1[l]
  BY <1>1, <1>3
<1>7. \A l \in Listeners : l # "discovery" => keys[l] = k2[l]
  BY <1>1, <1>5, <1>6
<1>8. k1["native"] = keyInUse["native"] /\ k2["discovery"] = keyInUse["discovery"]
  BY <1>1, <1>5, <1>6
<1> HIDE DEF k1, k2
<1>9. Follows(c1, k1)
  BY <1>1, <1>2, <1>3, <1>4, <1>5, RestartQueued
<1>10. Follows(c2, k2)
  <2> HIDE DEF c1
  <2>1. QED
    BY <1>1, <1>2, <1>3, <1>6, <1>8, <1>9, RestartQueued
<1>11. Follows(chain', keys)
  <2> HIDE DEF c2
  <2>1. Follows(c2 \o Restarts("discovery", keys), keys)
    BY <1>1, <1>2, <1>3, <1>7, <1>8, <1>10, RestartQueued
  <2>2. QED
    BY <1>2, <2>1
<1>12. keyInUse' = keys /\ held' = held /\ bound' = bound /\ failed' = failed
  BY DEF ConfigureListeners
<1>13. Follows(chain, keyInUse)'
  BY <1>11, <1>12 DEF Follows
<1>14. /\ \A i \in 1..Len(chain') : i > 1 => chain'[i].at = "queued"
       /\ chain # <<>> => chain' # <<>> /\ chain'[1] = chain[1]
       /\ chain = <<>> /\ chain' # <<>> => chain'[1].at = "queued"
  <2>1. \A i \in 1..Len(chain) : i > 1 => chain[i].at = "queued"
    BY DEF ListenersInv
  <2>2. /\ c1 \in Seq(Steps) /\ \A i \in 1..Len(c1) : i > 1 => c1[i].at = "queued"
        /\ chain # <<>> => c1 # <<>> /\ c1[1] = chain[1]
        /\ chain = <<>> /\ c1 # <<>> => c1[1].at = "queued"
    <3>1. /\ Restarts("osc", keys) \in Seq(Steps)
          /\ \A i \in 1..Len(Restarts("osc", keys)) : Restarts("osc", keys)[i].at = "queued"
      BY <1>1, RestartsType
    <3>2. QED
      BY <1>2, <2>1, <3>1, QueuedBehind
  <2> HIDE DEF c1
  <2>3. /\ c2 \in Seq(Steps) /\ \A i \in 1..Len(c2) : i > 1 => c2[i].at = "queued"
        /\ c1 # <<>> => c2 # <<>> /\ c2[1] = c1[1]
        /\ c1 = <<>> /\ c2 # <<>> => c2[1].at = "queued"
    <3>1. /\ Restarts("native", keys) \in Seq(Steps)
          /\ \A i \in 1..Len(Restarts("native", keys)) : Restarts("native", keys)[i].at = "queued"
      BY <1>1, RestartsType
    <3>2. QED
      BY <1>2, <2>2, <3>1, QueuedBehind
  <2> HIDE DEF c2
  <2>4. /\ \A i \in 1..Len(chain') : i > 1 => chain'[i].at = "queued"
        /\ c2 # <<>> => chain' # <<>> /\ chain'[1] = c2[1]
        /\ c2 = <<>> /\ chain' # <<>> => chain'[1].at = "queued"
    <3>1. /\ Restarts("discovery", keys) \in Seq(Steps)
          /\ \A i \in 1..Len(Restarts("discovery", keys)) : Restarts("discovery", keys)[i].at = "queued"
      BY <1>1, RestartsType
    <3>2. QED
      BY <1>2, <2>3, <3>1, QueuedBehind
  <2>5. QED
    BY <2>2, <2>3, <2>4, Zenon
<1>15. QED
  BY <1>12, <1>13, <1>14 DEF ListenersInv, SocketOf

LEMMA CloseKeepsInv ==
    ASSUME ListenersTypeOK, ListenersInv, CloseListeners
    PROVE  ListenersInv'
<1> DEFINE c1 == chain \o <<Step("osc", Off)>>
           c2 == c1 \o <<Step("native", Off)>>
           k1 == [keyInUse EXCEPT !["osc"] = Unset]
           k2 == [k1 EXCEPT !["native"] = Unset]
           kk == [l \in Listeners |-> Unset]
<1>1. "osc" \in Listeners /\ "native" \in Listeners /\ "discovery" \in Listeners
      /\ \A l \in Listeners : l \in {"osc", "native", "discovery"}
  BY DEF Listeners
<1>2. Step("osc", Off) \in Steps /\ Step("native", Off) \in Steps /\ Step("discovery", Off) \in Steps
      /\ Step("osc", Off).at = "queued" /\ Step("native", Off).at = "queued" /\ Step("discovery", Off).at = "queued"
  BY <1>1 DEF Step, Steps
<1>3. chain \in Seq(Steps) /\ c1 \in Seq(Steps) /\ c2 \in Seq(Steps) /\ chain' = c2 \o <<Step("discovery", Off)>>
  <2>1. chain' = chain \o <<Step("osc", Off), Step("native", Off), Step("discovery", Off)>> /\ chain \in Seq(Steps)
    BY DEF ListenersTypeOK, CloseListeners
  <2>2. QED
    BY <1>2, <2>1
<1>4. keyInUse \in [Listeners -> ListenerKeys] /\ k1 \in [Listeners -> ListenerKeys] /\ k2 \in [Listeners -> ListenerKeys]
      /\ kk \in [Listeners -> ListenerKeys]
  BY <1>1 DEF ListenersTypeOK, ListenerKeys
<1>5. k1["osc"] = Unset /\ \A l \in Listeners : l # "osc" => k1[l] = keyInUse[l]
  BY <1>1, <1>4
<1>6. k2["native"] = Unset /\ \A l \in Listeners : l # "native" => k2[l] = k1[l]
  BY <1>1, <1>4
<1>7. kk["discovery"] = Unset /\ \A l \in Listeners : l # "discovery" => kk[l] = k2[l]
  BY <1>1, <1>5, <1>6
<1>8. PortAsked(Unset) = PortAsked(Off)
  BY DEF PortAsked
<1> HIDE DEF k1, k2, kk
<1>9. Follows(chain, keyInUse)
  BY DEF ListenersInv
<1>10. Follows(c1, k1)
  BY <1>1, <1>3, <1>4, <1>5, <1>8, <1>9, StepQueued
<1>11. Follows(c2, k2)
  <2> HIDE DEF c1
  <2>1. QED
    BY <1>1, <1>3, <1>4, <1>6, <1>8, <1>10, StepQueued
<1>12. Follows(chain', kk)
  <2> HIDE DEF c2
  <2>1. Follows(c2 \o <<Step("discovery", Off)>>, kk)
    BY <1>1, <1>3, <1>4, <1>7, <1>8, <1>11, StepQueued
  <2>2. QED
    BY <1>3, <2>1
<1>13. keyInUse' = kk /\ held' = held /\ bound' = bound /\ failed' = failed
  BY DEF CloseListeners, kk
<1>14. Follows(chain, keyInUse)'
  BY <1>12, <1>13 DEF Follows
<1>15. /\ \A i \in 1..Len(chain') : i > 1 => chain'[i].at = "queued"
       /\ chain # <<>> => chain' # <<>> /\ chain'[1] = chain[1]
       /\ chain = <<>> /\ chain' # <<>> => chain'[1].at = "queued"
  <2> DEFINE three == <<Step("osc", Off), Step("native", Off), Step("discovery", Off)>>
  <2>1. three \in Seq(Steps) /\ \A i \in 1..Len(three) : three[i].at = "queued"
    BY <1>2
  <2>2. chain' = chain \o three
    BY DEF CloseListeners
  <2>3. \A i \in 1..Len(chain) : i > 1 => chain[i].at = "queued"
    BY DEF ListenersInv
  <2> HIDE DEF three
  <2>4. /\ \A i \in 1..Len(chain \o three) : i > 1 => (chain \o three)[i].at = "queued"
        /\ chain # <<>> => chain \o three # <<>> /\ (chain \o three)[1] = chain[1]
        /\ chain = <<>> /\ chain \o three # <<>> => (chain \o three)[1].at = "queued"
    BY <1>3, <2>1, <2>3, QueuedBehind
  <2>5. QED
    BY <2>2, <2>4, Zenon
<1>16. QED
  BY <1>13, <1>14, <1>15 DEF ListenersInv, SocketOf

(* Only the first step ever moves; whom it is for and what it brings stay.  *)
LEMMA FirstMoves ==
    ASSUME ListenersTypeOK, ListenersInv, chain # <<>>, chain' \in Seq(Steps), Len(chain') = Len(chain),
           chain'[1].who = chain[1].who, chain'[1].key = chain[1].key, \A i \in 1..Len(chain) : i > 1 => chain'[i] = chain[i],
           keyInUse' = keyInUse, failed' = failed, \A l \in Listeners : l # chain[1].who => held'[l] = held[l]
    PROVE  /\ Follows(chain, keyInUse)' /\ chain' # <<>>
           /\ \A i \in 1..Len(chain') : i > 1 => chain'[i].at = "queued"
<1>1. Len(chain) \in Nat \ {0} /\ chain' # <<>>
  BY EmptySeq, LenProperties DEF ListenersTypeOK
<1>2. \A i \in 1..Len(chain) : chain'[i].who = chain[i].who /\ chain'[i].key = chain[i].key
  BY <1>1
<1>3. \A i \in 1..Len(chain') : LastStep(chain', i) => LastStep(chain, i)
  BY <1>2 DEF LastStep
<1>4. \A i \in 1..Len(chain') : LastStep(chain', i) => PortAsked(chain'[i].key) = PortAsked(keyInUse[chain'[i].who])
  BY <1>2, <1>3 DEF ListenersInv, Follows
<1>5. ASSUME NEW l \in Listeners, \A i \in 1..Len(chain') : chain'[i].who # l
      PROVE  (failed[l] => held'[l] = Unset) /\ (~failed[l] => PortAsked(held'[l]) = PortAsked(keyInUse[l]))
  <2>1. l # chain[1].who
    BY <1>1, <1>2, <1>5
  <2>2. \A i \in 1..Len(chain) : chain[i].who # l
    BY <1>2, <1>5
  <2>3. (failed[l] => held[l] = Unset) /\ (~failed[l] => PortAsked(held[l]) = PortAsked(keyInUse[l]))
    BY <2>2 DEF ListenersInv, Follows
  <2>4. QED
    BY <2>1, <2>3
<1>6. Follows(chain, keyInUse)'
  BY <1>4, <1>5 DEF Follows
<1>7. \A i \in 1..Len(chain') : i > 1 => chain'[i].at = "queued"
  BY DEF ListenersInv
<1>8. QED
  BY <1>1, <1>6, <1>7

LEMMA StopBeginsKeepsInv ==
    ASSUME ListenersTypeOK, ListenersInv, NEW i \in DOMAIN chain, StopBegins(i)
    PROVE  ListenersInv'
<1>1. i = 1 /\ chain # <<>> /\ chain \in Seq(Steps) /\ 1 \in 1..Len(chain)
  BY DEF StopBegins, Turn, ListenersTypeOK
<1>2. chain[1] \in Steps /\ chain[1].who \in Listeners /\ chain[1].at = "queued"
  <2>1. chain[1] \in Steps
    BY <1>1, ElementOfSeq
  <2>2. QED
    BY <1>1, <2>1 DEF StopBegins, Steps
<1>3. held' = [held EXCEPT ![chain[1].who] = Unset] /\ bound' = bound /\ failed' = failed /\ keyInUse' = keyInUse
  BY <1>1 DEF StopBegins
<1>4. chain' = [chain EXCEPT ![1].at = "closing", ![1].old = held[chain[1].who]]
  BY <1>1 DEF StopBegins
<1>5. /\ Len(chain') = Len(chain) /\ \A j \in 1..Len(chain) : j > 1 => chain'[j] = chain[j]
      /\ chain'[1] = [[chain[1] EXCEPT !.at = "closing"] EXCEPT !.old = held[chain[1].who]]
  BY <1>1, <1>4
<1>6. chain'[1].who = chain[1].who /\ chain'[1].key = chain[1].key /\ chain'[1].at = "closing" /\ chain'[1].old = held[chain[1].who]
  BY <1>2, <1>5 DEF Steps
<1>7. chain' \in Seq(Steps)
  <2>1. held[chain[1].who] \in Keys \cup {Unset}
    BY <1>2 DEF ListenersTypeOK
  <2>2. [chain[1] EXCEPT !.at = "closing"] \in Steps
    BY <1>2 DEF Steps
  <2>3. chain'[1] \in Steps
    BY <1>5, <2>1, <2>2 DEF Steps
  <2>4. chain' = [chain EXCEPT ![1] = chain'[1]]
    BY <1>1, <1>4
  <2>5. [chain EXCEPT ![1] = chain'[1]] \in Seq(Steps)
    BY <1>1, <2>3
  <2>6. QED
    BY <2>4, <2>5
<1>8. held \in [Listeners -> Keys \cup {Unset}]
  BY DEF ListenersTypeOK
<1>9. held'[chain[1].who] = Unset /\ \A l \in Listeners : l # chain[1].who => held'[l] = held[l]
  BY <1>2, <1>3, <1>8
<1>10. Follows(chain, keyInUse)' /\ chain' # <<>> /\ \A j \in 1..Len(chain') : j > 1 => chain'[j].at = "queued"
  BY <1>1, <1>3, <1>5, <1>6, <1>7, <1>9, FirstMoves
<1>11. \A l \in Listeners : SocketOf(l)' = SocketOf(l)
  BY <1>2, <1>6, <1>9, <1>10 DEF SocketOf
<1>12. \A l \in Listeners, key \in Keys : <<l, key>> \in bound' <=> SocketOf(l)' = key
  BY <1>3, <1>11 DEF ListenersInv
<1>13. held'[chain'[1].who] = Unset
  BY <1>6, <1>9
<1>14. QED
  BY <1>10, <1>12, <1>13 DEF ListenersInv

(* A step that ends leaves its listener as it was last asked, if no other   *)
(* step of it waits, and the others with theirs.                            *)
LEMMA FirstEnds ==
    ASSUME ListenersTypeOK, ListenersInv, chain # <<>>, chain' = RemoveAt(chain, 1), keyInUse' = keyInUse,
           \A l \in Listeners : l # chain[1].who => held'[l] = held[l] /\ (failed'[l] <=> failed[l]),
           failed'[chain[1].who] => held'[chain[1].who] = Unset,
           ~failed'[chain[1].who] => PortAsked(held'[chain[1].who]) = PortAsked(chain[1].key)
    PROVE  /\ Follows(chain, keyInUse)'
           /\ \A i \in 1..Len(chain') : chain'[i].at = "queued"
           /\ chain' # <<>> => chain'[1].at = "queued"
<1>1. /\ chain \in Seq(Steps) /\ chain' \in Seq(Steps) /\ Len(chain') = Len(chain) - 1 /\ Len(chain) \in Nat \ {0}
      /\ \A i \in 1..Len(chain') : i + 1 \in 1..Len(chain) /\ chain'[i] = chain[i + 1]
  BY FirstRemoved DEF ListenersTypeOK
<1>2. \A i \in 1..Len(chain) : LastStep(chain, i) => PortAsked(chain[i].key) = PortAsked(keyInUse[chain[i].who])
  BY DEF ListenersInv, Follows
<1>3. /\ \A i \in 1..Len(chain') : LastStep(chain', i) => PortAsked(chain'[i].key) = PortAsked(keyInUse[chain'[i].who])
      /\ (\A i \in 1..Len(chain') : chain'[i].who # chain[1].who) => PortAsked(chain[1].key) = PortAsked(keyInUse[chain[1].who])
  BY <1>1, <1>2, StepEnded
<1>4. ASSUME NEW l \in Listeners, \A i \in 1..Len(chain') : chain'[i].who # l
      PROVE  (failed'[l] => held'[l] = Unset) /\ (~failed'[l] => PortAsked(held'[l]) = PortAsked(keyInUse[l]))
  <2>1. CASE l = chain[1].who
    BY <2>1, <1>3, <1>4
  <2>2. CASE l # chain[1].who
    <3>1. \A i \in 1..Len(chain) : chain[i].who # l
      <4> SUFFICES ASSUME NEW i \in 1..Len(chain) PROVE chain[i].who # l
        OBVIOUS
      <4>1. CASE i = 1
        BY <4>1, <2>2
      <4>2. CASE i # 1
        <5>1. i - 1 \in 1..Len(chain') /\ chain'[i - 1] = chain[i]
          BY <4>2, <1>1
        <5>2. QED
          BY <5>1, <1>4
      <4>3. QED
        BY <4>1, <4>2
    <3>2. (failed[l] => held[l] = Unset) /\ (~failed[l] => PortAsked(held[l]) = PortAsked(keyInUse[l]))
      BY <3>1 DEF ListenersInv, Follows
    <3>3. held'[l] = held[l] /\ (failed'[l] <=> failed[l])
      BY <2>2
    <3>4. QED
      BY <3>2, <3>3
  <2>3. QED
    BY <2>1, <2>2
<1>5. Follows(chain, keyInUse)'
  BY <1>3, <1>4 DEF Follows
<1>6. \A i \in 1..Len(chain') : chain'[i].at = "queued"
  <2> SUFFICES ASSUME NEW i \in 1..Len(chain') PROVE chain'[i].at = "queued"
    OBVIOUS
  <2>1. i + 1 \in 1..Len(chain) /\ i + 1 > 1 /\ chain'[i] = chain[i + 1]
    BY <1>1
  <2>2. QED
    BY <2>1 DEF ListenersInv
<1>7. chain' # <<>> => 1 \in 1..Len(chain')
  BY <1>1, EmptySeq
<1>8. QED
  BY <1>5, <1>6, <1>7

LEMMA StopEndsKeepsInv ==
    ASSUME ListenersTypeOK, ListenersInv, ListenersTypeOK', NEW i \in DOMAIN chain, StopEnds(i)
    PROVE  ListenersInv'
<1>1. i = 1 /\ chain # <<>> /\ chain \in Seq(Steps) /\ 1 \in 1..Len(chain)
  BY DEF StopEnds, Turn, ListenersTypeOK
<1>2. chain[1] \in Steps /\ chain[1].who \in Listeners /\ chain[1].at = "closing"
  <2>1. chain[1] \in Steps
    BY <1>1, ElementOfSeq
  <2>2. QED
    BY <1>1, <2>1 DEF StopEnds, Steps
<1>3. held' = held /\ keyInUse' = keyInUse /\ bound' = bound \ {<<chain[1].who, chain[1].old>>}
  BY <1>1 DEF StopEnds
<1>4. held[chain[1].who] = Unset
  BY <1>1, <1>2 DEF ListenersInv
<1>5. \A l \in Listeners, key \in Keys : <<l, key>> \in bound' <=> held[l] = key
  <2> SUFFICES ASSUME NEW l \in Listeners, NEW key \in Keys PROVE <<l, key>> \in bound' <=> held[l] = key
    OBVIOUS
  <2>1. <<l, key>> \in bound <=> SocketOf(l) = key
    BY DEF ListenersInv
  <2>2. CASE l = chain[1].who
    <3>1. SocketOf(l) = chain[1].old
      BY <1>1, <1>2, <2>2 DEF SocketOf
    <3>2. held[l] # key
      BY <1>4, <2>2, BridgeListenersAssumption
    <3>3. <<l, key>> \notin bound'
      BY <1>3, <2>1, <2>2, <3>1
    <3>4. QED
      BY <3>2, <3>3
  <2>3. CASE l # chain[1].who
    <3>1. SocketOf(l) = held[l]
      BY <2>3 DEF SocketOf
    <3>2. QED
      BY <1>3, <2>1, <2>3, <3>1
  <2>4. QED
    BY <2>2, <2>3
<1>6. CASE chain[1].key = Off
  <2>1. chain' = RemoveAt(chain, 1) /\ failed' = [failed EXCEPT ![chain[1].who] = FALSE]
    BY <1>1, <1>6 DEF StopEnds
  <2>2. failed'[chain[1].who] = FALSE /\ \A l \in Listeners : l # chain[1].who => (failed'[l] <=> failed[l])
    BY <1>2, <2>1, Zenon DEF ListenersTypeOK
  <2>3. PortAsked(held'[chain[1].who]) = PortAsked(chain[1].key)
    BY <1>3, <1>4, <1>6 DEF PortAsked
  <2>4. Follows(chain, keyInUse)' /\ (\A j \in 1..Len(chain') : chain'[j].at = "queued") /\ (chain' # <<>> => chain'[1].at = "queued")
    BY <1>1, <1>3, <2>1, <2>2, <2>3, FirstEnds
  <2>5. \A l \in Listeners : SocketOf(l)' = held[l]
    BY <1>3, <2>4 DEF SocketOf
  <2>6. QED
    BY <1>5, <2>4, <2>5 DEF ListenersInv
<1>7. CASE chain[1].key # Off
  <2>1. chain' = [chain EXCEPT ![1].at = "starting"] /\ failed' = failed
    BY <1>1, <1>7 DEF StopEnds
  <2>2. /\ Len(chain') = Len(chain) /\ \A j \in 1..Len(chain) : j > 1 => chain'[j] = chain[j]
        /\ chain'[1] = [chain[1] EXCEPT !.at = "starting"]
    BY <1>1, <2>1
  <2>3. chain'[1].who = chain[1].who /\ chain'[1].key = chain[1].key /\ chain'[1].at = "starting"
    BY <1>2, <2>2 DEF Steps
  <2>4. chain' \in Seq(Steps)
    BY DEF ListenersTypeOK
  <2>5. Follows(chain, keyInUse)' /\ chain' # <<>> /\ \A j \in 1..Len(chain') : j > 1 => chain'[j].at = "queued"
    BY <1>1, <1>3, <2>1, <2>2, <2>3, <2>4, FirstMoves
  <2>6. \A l \in Listeners : SocketOf(l)' = held[l]
    BY <1>3, <2>3 DEF SocketOf
  <2>7. held'[chain'[1].who] = Unset
    BY <1>3, <1>4, <2>3
  <2>8. QED
    BY <1>5, <2>5, <2>6, <2>7 DEF ListenersInv
<1>8. QED
  BY <1>6, <1>7

LEMMA StartEndsKeepsInv ==
    ASSUME ListenersTypeOK, ListenersInv, NEW i \in DOMAIN chain, StartEnds(i)
    PROVE  ListenersInv'
<1>1. i = 1 /\ chain # <<>> /\ chain \in Seq(Steps) /\ 1 \in 1..Len(chain)
  BY DEF StartEnds, Turn, ListenersTypeOK
<1>2. chain[1] \in Steps /\ chain[1].who \in Listeners /\ chain[1].at = "starting" /\ chain[1].key \in Keys
  <2>1. chain[1] \in Steps
    BY <1>1, ElementOfSeq
  <2>2. QED
    BY <1>1, <2>1 DEF StartEnds, Steps
<1>3. chain' = RemoveAt(chain, 1) /\ keyInUse' = keyInUse
  BY <1>1 DEF StartEnds
<1>4. held[chain[1].who] = Unset /\ held \in [Listeners -> Keys \cup {Unset}]
  BY <1>1, <1>2 DEF ListenersInv, ListenersTypeOK
<1>5. \A l \in Listeners : SocketOf(l) = held[l]
  BY <1>2 DEF SocketOf
<1>6. CASE /\ bound' = bound \cup {<<chain[1].who, chain[1].key>>}
           /\ held' = [held EXCEPT ![chain[1].who] = chain[1].key]
           /\ failed' = [failed EXCEPT ![chain[1].who] = FALSE]
  <2>1. failed'[chain[1].who] = FALSE /\ \A l \in Listeners : l # chain[1].who => (failed'[l] <=> failed[l])
    BY <1>2, <1>6, Zenon DEF ListenersTypeOK
  <2>2. held'[chain[1].who] = chain[1].key /\ \A l \in Listeners : l # chain[1].who => held'[l] = held[l]
    BY <1>2, <1>4, <1>6
  <2>3. Follows(chain, keyInUse)' /\ (\A j \in 1..Len(chain') : chain'[j].at = "queued") /\ (chain' # <<>> => chain'[1].at = "queued")
    BY <1>1, <1>3, <2>1, <2>2, FirstEnds
  <2>4. \A l \in Listeners : SocketOf(l)' = held'[l]
    BY <2>3 DEF SocketOf
  <2>5. \A l \in Listeners, key \in Keys : <<l, key>> \in bound' <=> held'[l] = key
    <3> SUFFICES ASSUME NEW l \in Listeners, NEW key \in Keys PROVE <<l, key>> \in bound' <=> held'[l] = key
      OBVIOUS
    <3>1. <<l, key>> \in bound <=> held[l] = key
      BY <1>5 DEF ListenersInv
    <3>2. CASE l = chain[1].who
      <4>1. <<l, key>> \notin bound
        BY <1>4, <3>1, <3>2, BridgeListenersAssumption
      <4>2. QED
        BY <4>1, <3>2, <2>2, <1>6
    <3>3. CASE l # chain[1].who
      BY <3>1, <3>3, <2>2, <1>6
    <3>4. QED
      BY <3>2, <3>3
  <2>6. QED
    BY <2>3, <2>4, <2>5 DEF ListenersInv
<1>7. CASE failed' = [failed EXCEPT ![chain[1].who] = TRUE] /\ held' = held /\ bound' = bound
  <2>1. failed'[chain[1].who] = TRUE /\ \A l \in Listeners : l # chain[1].who => (failed'[l] <=> failed[l])
    BY <1>2, <1>7, Zenon DEF ListenersTypeOK
  <2>2. Follows(chain, keyInUse)' /\ (\A j \in 1..Len(chain') : chain'[j].at = "queued") /\ (chain' # <<>> => chain'[1].at = "queued")
    BY <1>1, <1>3, <1>4, <1>7, <2>1, FirstEnds
  <2>3. \A l \in Listeners : SocketOf(l)' = held[l]
    BY <1>7, <2>2 DEF SocketOf
  <2>4. \A l \in Listeners, key \in Keys : <<l, key>> \in bound' <=> SocketOf(l)' = key
    BY <1>5, <1>7, <2>3 DEF ListenersInv
  <2>5. QED
    BY <2>2, <2>4 DEF ListenersInv
<1>8. QED
  BY <1>1, <1>6, <1>7 DEF StartEnds

(* Two saves in quick succession leave each listener serving what the last  *)
(* one asked for, or down because its port was taken.                       *)
THEOREM ListenersFollowSettings == ListenersSpec => []ListenersFollow
<1>1. ListenersInit => ListenersInv
  <2> SUFFICES ASSUME ListenersInit PROVE ListenersInv
    OBVIOUS
  <2>1. Len(chain) = 0 /\ chain = <<>>
    BY EmptySeq DEF ListenersInit
  <2>2. \A l \in Listeners : SocketOf(l) = Unset /\ held[l] = Unset /\ keyInUse[l] = Unset /\ failed[l] = FALSE
    BY <2>1 DEF ListenersInit, SocketOf
  <2>3. Follows(chain, keyInUse)
    BY <2>1, <2>2 DEF Follows, PortAsked
  <2>4. QED
    BY <2>1, <2>2, <2>3, BridgeListenersAssumption DEF ListenersInv, ListenersInit
<1>2. ListenersTypeOK /\ ListenersTypeOK' /\ ListenersInv /\ [ListenersNext]_listenerVars => ListenersInv'
  <2> SUFFICES ASSUME ListenersTypeOK, ListenersTypeOK', ListenersInv, [ListenersNext]_listenerVars PROVE ListenersInv'
    OBVIOUS
  <2>1. CASE UNCHANGED listenerVars
    BY <2>1 DEF listenerVars, ListenersInv, SocketOf, Follows
  <2>2. QED
    BY <2>1, ConfigureKeepsInv, CloseKeepsInv, StopBeginsKeepsInv, StopEndsKeepsInv, StartEndsKeepsInv DEF ListenersNext
<1>3. ListenersTypeOK /\ ListenersInv => ListenersFollow
  <2> SUFFICES ASSUME ListenersTypeOK, ListenersInv, chain = <<>>, NEW l \in Listeners
               PROVE  {b[2] : b \in {x \in bound : x[1] = l}} = IF failed[l] THEN {} ELSE {keyInUse[l]} \ {Off, Unset}
    BY DEF ListenersFollow
  <2>1. Len(chain) = 0
    BY EmptySeq
  <2>2. (failed[l] => held[l] = Unset) /\ (~failed[l] => PortAsked(held[l]) = PortAsked(keyInUse[l]))
    BY <2>1 DEF ListenersInv, Follows
  <2>3. \A key \in Keys : <<l, key>> \in bound <=> held[l] = key
    BY DEF ListenersInv, SocketOf
  <2>4. bound \subseteq Listeners \X Keys /\ held[l] \in Keys \cup {Unset}
    BY DEF ListenersTypeOK
  <2>5. {b[2] : b \in {x \in bound : x[1] = l}} = PortAsked(held[l])
    <3>1. ASSUME NEW b \in bound, b[1] = l PROVE b[2] \in PortAsked(held[l])
      <4>1. b[2] \in Keys /\ b = <<l, b[2]>>
        BY <2>4, <3>1
      <4>2. QED
        BY <4>1, <2>3, BridgeListenersAssumption DEF PortAsked
    <3>2. ASSUME NEW key \in PortAsked(held[l]) PROVE \E b \in bound : b[1] = l /\ b[2] = key
      <4>1. key \in Keys /\ <<l, key>> \in bound
        BY <3>2, <2>3, <2>4 DEF PortAsked
      <4>2. QED
        BY <4>1
    <3>3. QED
      BY <3>1, <3>2
  <2>6. QED
    BY <2>2, <2>5 DEF PortAsked
<1>4. QED
  BY <1>1, <1>2, <1>3, ListenersTypeCorrect, PTL DEF ListenersSpec

-----------------------------------------------------------------------------
(* WingBridge *)

(* What a lookup of each kind may read, and what it is to read now. *)
KindLeaves(k) == IF k = "sources" THEN Inputs \X {"grp", "in"} ELSE Mixes \X {"ins"}
LeavesOf(k) == IF k = "sources" THEN SafeStrips(settings) \X {"grp", "in"} ELSE MixStrips(settings) \X {"ins"}

(* A change of the leaf that the console pushed is not handled yet. *)
Pending(l) == \E i \in DOMAIN pushes : pushes[i].leaf = l

(* The rules were made with what the desk has at the leaf, or with nothing *)
(* known of its strip.                                                     *)
RuleAgrees(l) ==
    CASE l[2] = "ins" -> rules.inserts[l[1]] \in {None, {desk[l]} \ {"none"}}
      [] l[2] = "grp" -> \/ rules.sources[l[1]] = None
                         \/ rules.sources[l[1]] = {} /\ desk[l] = "OFF"
                         \/ desk[l] # "OFF" /\ \E n : rules.sources[l[1]] = {<<desk[l], n>>}
      [] OTHER -> rules.sources[l[1]] \in {None, {}} \/ \E g : rules.sources[l[1]] = {<<g, desk[l]>>}

(* The variables keep their types. *)
DeskValues == Groups \cup Numbers \cup Slots \cup {"none"}
Pushes == [leaf : Leaves, value : DeskValues]
Readings == UNION {[d -> DeskValues \cup {None}] : d \in SUBSET Leaves}
Lookups == [kind : Kinds, gen : Nat, todo : Seq(Leaves), got : Readings]
BridgeTypes ==
    /\ settings \in AllSettings /\ desk \in [Leaves -> DeskValues] /\ cache \in [Leaves -> DeskValues \cup {None}]
    /\ attached \in BOOLEAN /\ pushes \in Seq(Pushes) /\ resolvers \subseteq Lookups
    /\ gens \in [Kinds -> Nat] /\ untold \subseteq Leaves
    /\ rules = [set |-> settings, sources |-> rules.sources, inserts |-> rules.inserts]

(* The last push of a leaf says what the desk has, and the cache holds     *)
(* nothing else once it is handled.                                        *)
CacheInv ==
    /\ \A i \in DOMAIN pushes :
            (\A j \in DOMAIN pushes : j > i => pushes[j].leaf # pushes[i].leaf) => pushes[i].value = desk[pushes[i].leaf]
    /\ \A l \in Leaves : Pending(l) \/ cache[l] \in {None, desk[l]}
    /\ ~attached => pushes = <<>> /\ \A l \in Leaves : cache[l] = None

(* A value read of the desk that is no longer true is one a push will      *)
(* correct, or none will.                                                  *)
Tracks(r, l) == r.got[l] \in {None, desk[l]} \/ Pending(l) \/ l \in untold
Superseded(k) == \A r \in resolvers : r.kind = k => ~StillCurrent(r)

(* One lookup of a kind is the current one, which has read, or is to read, *)
(* all its kind is to.                                                     *)
LookupsInv ==
    /\ \A r \in resolvers : r.gen <= gens[r.kind] /\ Range(r.todo) \cup DOMAIN r.got \subseteq KindLeaves(r.kind)
    /\ \A r, q \in resolvers : r.kind = q.kind /\ r.gen = q.gen => r = q
    /\ \A r \in resolvers : StillCurrent(r) =>
            /\ LeavesOf(r.kind) \subseteq Range(r.todo) \cup DOMAIN r.got
            /\ \A l \in LeavesOf(r.kind) \cap DOMAIN r.got : Tracks(r, l)

(* Without one, the rules are as good. *)
RulesInv == \A k \in Kinds : Superseded(k) => \A l \in LeavesOf(k) : RuleAgrees(l) \/ Pending(l) \/ l \in untold

BridgeInv == BridgeTypes /\ CacheInv /\ LookupsInv /\ RulesInv

LEMMA SetToSeqListsAll ==
    ASSUME NEW A, IsFiniteSet(A)
    PROVE  /\ Cardinality(A) \in Nat /\ SetToSeq(A) \in [1..Cardinality(A) -> A]
           /\ \A x \in A : \E i \in 1..Cardinality(A) : SetToSeq(A)[i] = x
<1>1. Cardinality(A) \in Nat /\ ExistsBijection(1..Cardinality(A), A)
  BY FS_CardinalityType
<1>2. PICK b \in Bijection(1..Cardinality(A), A) : TRUE
  BY <1>1 DEF ExistsBijection
<1>3. b \in [1..Cardinality(A) -> A] /\ IsInjective(b)
  BY <1>2 DEF Bijection, Injection, IsInjective
<1>4. SetToSeq(A) \in [1..Cardinality(A) -> A] /\ IsInjective(SetToSeq(A))
  BY <1>3 DEF SetToSeq
<1>5. SetToSeq(A) \in Injection(1..Cardinality(A), A)
  BY <1>4 DEF Injection
<1>6. Cardinality(1..Cardinality(A)) = Cardinality(A)
  BY <1>1, FS_Interval
<1>7. SetToSeq(A) \in Surjection(1..Cardinality(A), A)
  BY <1>5, <1>6, FS_Injection
<1>8. QED
  BY <1>1, <1>4, <1>7 DEF Surjection

(* A lookup is to read all the leaves of its kind, and no other. *)
LEMMA WantedLeaves ==
    ASSUME NEW set, NEW k \in Kinds
    PROVE  /\ Wanted(k, set) \in Seq(KindLeaves(k)) /\ Range(Wanted(k, set)) \subseteq KindLeaves(k)
           /\ Range(Wanted(k, set)) = IF k = "sources" THEN SafeStrips(set) \X {"grp", "in"} ELSE MixStrips(set) \X {"ins"}
<1>1. CASE k = "sources"
  <2> DEFINE S == SafeStrips(set)
             n == Cardinality(S)
             q == SetToSeq(S)
             w == [i \in 1..(2 * n) |-> <<q[(i + 1) \div 2], IF i % 2 = 1 THEN "grp" ELSE "in">>]
  <2>1. S \subseteq Inputs /\ IsFiniteSet(S)
    BY WingBridgeAssumption, FS_Subset DEF SafeStrips
  <2>2. Wanted(k, set) = w
    BY <1>1 DEF Wanted
  <2> HIDE DEF S
  <2>3. n \in Nat /\ q \in [1..n -> S] /\ \A x \in S : \E i \in 1..n : q[i] = x
    BY <2>1, SetToSeqListsAll
  <2> HIDE DEF n, q
  <2>4. ASSUME NEW i \in 1..(2 * n) PROVE w[i] \in S \X {"grp", "in"}
    <3>1. (i + 1) \div 2 \in 1..n
      BY <2>3
    <3>2. q[(i + 1) \div 2] \in S
      BY <2>3, <3>1
    <3>3. QED
      BY <3>2
  <2>5. ASSUME NEW x \in S, NEW f \in {"grp", "in"} PROVE \E i \in 1..(2 * n) : w[i] = <<x, f>>
    <3>1. PICK i \in 1..n : q[i] = x
      BY <2>3
    <3>2. CASE f = "grp"
      <4>1. 2 * i - 1 \in 1..(2 * n) /\ ((2 * i - 1) + 1) \div 2 = i /\ (2 * i - 1) % 2 = 1
        BY <2>3
      <4>2. w[2 * i - 1] = <<x, f>>
        BY <3>1, <3>2, <4>1
      <4>3. QED
        BY <4>1, <4>2
    <3>3. CASE f = "in"
      <4>1. 2 * i \in 1..(2 * n) /\ (2 * i + 1) \div 2 = i /\ (2 * i) % 2 = 0
        BY <2>3
      <4>2. w[2 * i] = <<x, f>>
        BY <3>1, <3>3, <4>1
      <4>3. QED
        BY <4>1, <4>2
    <3>4. QED
      BY <3>2, <3>3
  <2>6. DOMAIN w = 1..(2 * n)
    OBVIOUS
  <2> HIDE DEF w
  <2>7. Range(w) = S \X {"grp", "in"}
    <3>1. Range(w) \subseteq S \X {"grp", "in"}
      BY <2>4, <2>6 DEF Range
    <3>2. ASSUME NEW y \in S \X {"grp", "in"} PROVE y \in Range(w)
      BY <2>5, <2>6 DEF Range
    <3>3. QED
      BY <3>1, <3>2
  <2>8. w \in Seq(KindLeaves(k))
    <3>1. w \in [1..(2 * n) -> KindLeaves(k)]
      <4>1. \A i \in 1..(2 * n) : w[i] \in KindLeaves(k)
        BY <1>1, <2>1, <2>4 DEF KindLeaves
      <4>2. w = [i \in 1..(2 * n) |-> w[i]]
        BY DEF w
      <4>3. QED
        BY <4>1, <4>2
    <3>2. 2 * n \in Nat
      BY <2>3
    <3>3. QED
      BY <3>1, <3>2
  <2>9. QED
    BY <1>1, <2>1, <2>2, <2>7, <2>8 DEF KindLeaves, S
<1>2. CASE k # "sources"
  <2> DEFINE S == MixStrips(set) \X {"ins"}
  <2>1. S \subseteq Mixes \X {"ins"} /\ MixStrips(set) \subseteq Mixes
    BY DEF MixStrips
  <2>2. IsFiniteSet(S)
    <3>1. IsFiniteSet(MixStrips(set)) /\ IsFiniteSet({"ins"})
      BY <2>1, WingBridgeAssumption, FS_Subset, FS_Singleton
    <3>2. QED
      BY <3>1, FS_Product
  <2>3. Wanted(k, set) = SetToSeq(S)
    BY <1>2 DEF Wanted
  <2> HIDE DEF S
  <2>4. Cardinality(S) \in Nat /\ SetToSeq(S) \in [1..Cardinality(S) -> S] /\ \A x \in S : \E i \in 1..Cardinality(S) : SetToSeq(S)[i] = x
    BY <2>2, SetToSeqListsAll
  <2>5. Range(SetToSeq(S)) = S
    BY <2>4 DEF Range
  <2>6. SetToSeq(S) \in Seq(KindLeaves(k))
    BY <1>2, <2>1, <2>4 DEF KindLeaves
  <2>7. QED
    BY <1>2, <2>1, <2>3, <2>5, <2>6 DEF KindLeaves, S
<1>3. QED
  BY <1>1, <1>2

LEMMA WantedNow ==
    ASSUME NEW k \in Kinds
    PROVE  /\ Wanted(k, settings) \in Seq(Leaves) /\ Range(Wanted(k, settings)) = LeavesOf(k)
           /\ LeavesOf(k) \subseteq KindLeaves(k) /\ KindLeaves(k) \subseteq Leaves
<1>1. KindLeaves(k) \subseteq Leaves
  BY DEF KindLeaves, Leaves
<1>2. Wanted(k, settings) \in Seq(KindLeaves(k)) /\ Range(Wanted(k, settings)) = LeavesOf(k)
      /\ LeavesOf(k) \subseteq KindLeaves(k)
  BY WantedLeaves DEF LeavesOf
<1>3. QED
  BY <1>1, <1>2

(* The leaves of one kind are none of the other's. *)
LEMMA KindsApart ==
    ASSUME NEW k \in Kinds, NEW j \in Kinds, NEW l \in KindLeaves(k), l \in KindLeaves(j)
    PROVE  k = j
BY DEF Kinds, KindLeaves

(* The desk and the cache are read from; what is not touched stays so.     *)
LEMMA BridgeTypesStay ==
    ASSUME BridgeTypes, UNCHANGED <<settings, desk, cache, attached, pushes, resolvers, gens, rules, untold>>
    PROVE  BridgeTypes'
BY DEF BridgeTypes
LEMMA CacheInvStays ==
    ASSUME CacheInv, UNCHANGED <<desk, cache, attached, pushes>>
    PROVE  CacheInv'
BY DEF CacheInv, Pending
LEMMA LookupsInvStays ==
    ASSUME LookupsInv, UNCHANGED <<settings, desk, pushes, resolvers, gens, untold>>
    PROVE  LookupsInv'
BY DEF LookupsInv, StillCurrent, Tracks, Pending, LeavesOf
LEMMA RulesInvStays ==
    ASSUME RulesInv, UNCHANGED <<settings, desk, pushes, resolvers, gens, rules, untold>>
    PROVE  RulesInv'
BY DEF RulesInv, Superseded, StillCurrent, RuleAgrees, Pending, LeavesOf

LEMMA PushesAre ==
    ASSUME BridgeTypes
    PROVE  /\ Len(pushes) \in Nat /\ DOMAIN pushes = 1..Len(pushes)
           /\ \A i \in DOMAIN pushes : pushes[i] \in Pushes /\ pushes[i].leaf \in Leaves /\ pushes[i].value \in DeskValues
<1>1. pushes \in Seq(Pushes)
  BY DEF BridgeTypes
<1>2. Len(pushes) \in Nat /\ DOMAIN pushes = 1..Len(pushes) /\ \A i \in DOMAIN pushes : pushes[i] \in Pushes
  BY <1>1
<1>3. \A m \in Pushes : m.leaf \in Leaves /\ m.value \in DeskValues
  BY DEF Pushes
<1>4. QED
  BY <1>2, <1>3

LEMMA BridgeInvInitially ==
    ASSUME BridgeInit
    PROVE  BridgeInv
<1>1. \A l \in Leaves : ValuesOf(l) # {} /\ ValuesOf(l) \subseteq DeskValues
  BY WingBridgeAssumption DEF ValuesOf, DeskValues
<1>2. \A l \in Leaves : (CHOOSE v \in ValuesOf(l) : TRUE) \in DeskValues
  <2>1. TAKE l \in Leaves
  <2>2. (CHOOSE v \in ValuesOf(l) : TRUE) \in ValuesOf(l)
    BY <1>1
  <2>3. QED
    BY <1>1, <2>2
<1>3. desk \in [Leaves -> DeskValues]
  BY <1>2 DEF BridgeInit
<1>4. BridgeTypes
  <2>1. pushes \in Seq(Pushes) /\ resolvers \subseteq Lookups /\ untold \subseteq Leaves
    BY DEF BridgeInit
  <2>2. QED
    BY <1>3, <2>1 DEF BridgeInit, BridgeTypes
<1>5. CacheInv
  BY DEF BridgeInit, CacheInv, Pending
<1>6. LookupsInv
  BY DEF BridgeInit, LookupsInv
<1>7. RulesInv
  <2> SUFFICES ASSUME NEW k \in Kinds, NEW l \in LeavesOf(k) PROVE RuleAgrees(l)
    BY DEF RulesInv
  <2>1. l \in KindLeaves(k)
    BY WantedNow
  <2>2. rules.sources = [s \in Inputs |-> None] /\ rules.inserts = [s \in Mixes |-> None]
    BY DEF BridgeInit
  <2>3. CASE k = "sources"
    BY <2>1, <2>2, <2>3 DEF KindLeaves, RuleAgrees
  <2>4. CASE k # "sources"
    BY <2>1, <2>2, <2>4 DEF KindLeaves, RuleAgrees
  <2>5. QED
    BY <2>3, <2>4
<1>8. QED
  BY <1>4, <1>5, <1>6, <1>7 DEF BridgeInv

(* A lookup that starts is the only current one of its kind, and has read  *)
(* nothing yet; the other kind is left alone.                              *)
LEMMA StartedKeeps ==
    ASSUME BridgeTypes, LookupsInv, NEW kinds \in SUBSET Kinds, settings' \in AllSettings, Started(kinds, settings'),
           kinds = Kinds \/ settings' = settings, UNCHANGED <<desk, untold>>,
           \A l \in Leaves : Pending(l) => Pending(l)' \/ (\E k \in kinds : l \in LeavesOf(k)')
                                        \/ l \notin LeavesOf("sources")' \cup LeavesOf("inserts")'
    PROVE  /\ gens' \in [Kinds -> Nat] /\ resolvers' \subseteq Lookups /\ LookupsInv'
           /\ \A k \in kinds : ~Superseded(k)'
           /\ \A k \in Kinds \ kinds : Superseded(k)' => Superseded(k)
<1> DEFINE Made(k) == [kind |-> k, gen |-> gens[k] + 1, todo |-> Wanted(k, settings'), got |-> <<>>]
<1>1. gens' = [k \in Kinds |-> IF k \in kinds THEN gens[k] + 1 ELSE gens[k]] /\ resolvers' = resolvers \cup {Made(k) : k \in kinds}
  BY DEF Started
<1>2. gens \in [Kinds -> Nat] /\ gens' \in [Kinds -> Nat] /\ resolvers \subseteq Lookups
  BY <1>1 DEF BridgeTypes
<1>3. \A k \in Kinds : /\ Wanted(k, settings') \in Seq(Leaves) /\ Range(Wanted(k, settings')) = LeavesOf(k)'
                       /\ LeavesOf(k)' \subseteq KindLeaves(k) /\ KindLeaves(k) \subseteq Leaves
  <2>1. \A k \in Kinds : /\ Wanted(k, settings') \in Seq(KindLeaves(k)) /\ KindLeaves(k) \subseteq Leaves
                         /\ Range(Wanted(k, settings')) \subseteq KindLeaves(k)
    BY WantedLeaves DEF KindLeaves, Leaves
  <2>2. \A k \in Kinds : Range(Wanted(k, settings')) = LeavesOf(k)'
    BY WantedLeaves DEF LeavesOf
  <2>3. QED
    BY <2>1, <2>2
<1>4. ASSUME NEW k \in kinds
      PROVE  /\ Made(k) \in Lookups /\ Made(k).kind = k /\ Made(k).gen = gens'[k] /\ Made(k).gen = gens[k] + 1
             /\ Range(Made(k).todo) = LeavesOf(k)' /\ DOMAIN Made(k).got = {}
  <2>1. <<>> \in [{} -> DeskValues \cup {None}]
    OBVIOUS
  <2>2. <<>> \in Readings
    BY <2>1 DEF Readings
  <2>3. gens[k] + 1 \in Nat /\ gens'[k] = gens[k] + 1
    BY <1>1, <1>2
  <2>4. QED
    BY <1>3, <2>2, <2>3 DEF Lookups
<1> HIDE DEF Made
<1>5. resolvers' \subseteq Lookups
  <2>1. \A k \in kinds : Made(k) \in Lookups
    BY <1>4
  <2>2. {Made(k) : k \in kinds} \subseteq Lookups
    BY <2>1
  <2>3. QED
    BY <1>1, <1>2, <2>2
<1>6. \A r \in resolvers : r.kind \in Kinds /\ r.gen \in Nat /\ r.gen <= gens[r.kind] /\ gens[r.kind] \in Nat
  BY <1>2 DEF LookupsInv, Lookups
<1>7. \A r \in resolvers : (r.kind \in kinds => r.gen < gens'[r.kind]) /\ (r.kind \notin kinds => gens'[r.kind] = gens[r.kind])
  BY <1>1, <1>6
<1>8. \A r \in resolvers' : r.gen <= gens'[r.kind] /\ Range(r.todo) \cup DOMAIN r.got \subseteq KindLeaves(r.kind)
  <2>1. \A r \in resolvers : Range(r.todo) \cup DOMAIN r.got \subseteq KindLeaves(r.kind)
    BY DEF LookupsInv
  <2>2. \A r \in resolvers : r.gen <= gens'[r.kind]
    BY <1>2, <1>6, <1>7
  <2>3. \A k \in kinds : Made(k).gen <= gens'[k] /\ Range(Made(k).todo) \cup DOMAIN Made(k).got \subseteq KindLeaves(k)
    BY <1>2, <1>3, <1>4
  <2>4. QED
    BY <1>1, <1>4, <2>1, <2>2, <2>3
<1>9. \A r, q \in resolvers' : r.kind = q.kind /\ r.gen = q.gen => r = q
  <2>1. \A r, q \in resolvers : r.kind = q.kind /\ r.gen = q.gen => r = q
    BY DEF LookupsInv
  <2>2. \A r \in resolvers, k \in kinds : ~(r.kind = k /\ r.gen = Made(k).gen)
    BY <1>2, <1>4, <1>6
  <2>3. QED
    BY <1>1, <1>4, <2>1, <2>2
<1>10. ASSUME NEW r \in resolvers', r.gen = gens'[r.kind]
       PROVE  /\ LeavesOf(r.kind)' \subseteq Range(r.todo) \cup DOMAIN r.got
              /\ \A l \in LeavesOf(r.kind)' \cap DOMAIN r.got : Tracks(r, l)'
  <2>1. CASE r \in resolvers
    <3>1. r.kind \in Kinds /\ r.kind \notin kinds /\ StillCurrent(r) /\ settings' = settings
      BY <1>6, <1>7, <1>10, <2>1 DEF StillCurrent
    <3>2. LeavesOf(r.kind)' = LeavesOf(r.kind) /\ LeavesOf(r.kind) \subseteq KindLeaves(r.kind) /\ KindLeaves(r.kind) \subseteq Leaves
      BY <3>1, WantedNow DEF LeavesOf
    <3>3. ASSUME NEW l \in LeavesOf(r.kind) \cap DOMAIN r.got PROVE Tracks(r, l)'
      <4>1. Tracks(r, l)
        BY <2>1, <3>1 DEF LookupsInv
      <4>2. ~\E k \in kinds : l \in LeavesOf(k)'
        BY <1>3, <3>1, <3>2, KindsApart
      <4>3. l \in LeavesOf("sources")' \cup LeavesOf("inserts")' /\ l \in Leaves
        BY <3>1, <3>2 DEF Kinds
      <4>4. Pending(l) => Pending(l)'
        BY <4>2, <4>3
      <4>5. QED
        BY <4>1, <4>4 DEF Tracks
    <3>4. QED
      BY <2>1, <3>1, <3>2, <3>3 DEF LookupsInv
  <2>2. CASE r \notin resolvers
    <3>1. PICK k \in kinds : r = Made(k)
      BY <1>1, <2>2
    <3>2. QED
      BY <1>4, <3>1
  <2>3. QED
    BY <2>1, <2>2
<1>11. LookupsInv'
  BY <1>8, <1>9, <1>10 DEF LookupsInv, StillCurrent
<1>12. \A k \in kinds : ~Superseded(k)'
  BY <1>1, <1>4 DEF Superseded, StillCurrent
<1>13. \A k \in Kinds \ kinds : Superseded(k)' => Superseded(k)
  BY <1>1, <1>7 DEF Superseded, StillCurrent
<1>14. QED
  BY <1>2, <1>5, <1>11, <1>12, <1>13

(* configure(), and the console connected to anew. *)
LEMMA ConfigureKeeps ==
    ASSUME BridgeInv, NEW s \in AllSettings, Configure(s)
    PROVE  BridgeInv'
<1>1. /\ settings' = s /\ rules' = [rules EXCEPT !.set = s] /\ Started(Kinds, settings')
      /\ UNCHANGED <<desk, cache, attached, pushes, untold>>
  BY DEF Configure
<1>2. \A l \in Leaves : Pending(l) => Pending(l)'
  BY <1>1 DEF Pending
<1>3. /\ gens' \in [Kinds -> Nat] /\ resolvers' \subseteq Lookups /\ LookupsInv' /\ \A k \in Kinds : ~Superseded(k)'
  BY <1>1, <1>2, StartedKeeps DEF BridgeInv
<1>4. RulesInv'
  BY <1>3 DEF RulesInv
<1>5. CacheInv'
  BY <1>1, CacheInvStays DEF BridgeInv
<1>6. BridgeTypes'
  <2>1. rules' = [set |-> settings', sources |-> rules'.sources, inserts |-> rules'.inserts]
    BY <1>1 DEF BridgeInv, BridgeTypes
  <2>2. QED
    BY <1>1, <1>3, <2>1 DEF BridgeInv, BridgeTypes
<1>7. QED
  BY <1>3, <1>4, <1>5, <1>6 DEF BridgeInv

LEMMA AttachKeeps ==
    ASSUME BridgeInv, Attach
    PROVE  BridgeInv'
<1>1. /\ attached' = TRUE /\ Started(Kinds, settings') /\ settings' = settings
      /\ UNCHANGED <<desk, cache, pushes, rules, untold>>
  BY DEF Attach
<1>2. \A l \in Leaves : Pending(l) => Pending(l)'
  BY <1>1 DEF Pending
<1>3. /\ gens' \in [Kinds -> Nat] /\ resolvers' \subseteq Lookups /\ LookupsInv' /\ \A k \in Kinds : ~Superseded(k)'
  BY <1>1, <1>2, StartedKeeps DEF BridgeInv, BridgeTypes
<1>4. RulesInv'
  BY <1>3 DEF RulesInv
<1>5. CacheInv'
  BY <1>1 DEF BridgeInv, CacheInv, Pending
<1>6. BridgeTypes'
  BY <1>1, <1>3 DEF BridgeInv, BridgeTypes
<1>7. QED
  BY <1>3, <1>4, <1>5, <1>6 DEF BridgeInv

(* What the console pushed is lost: none will say it. *)
LEMMA LostKeeps ==
    ASSUME BridgeInv, pushes' = <<>>, cache' = [l \in Leaves |-> None], attached' \in BOOLEAN,
           untold' = untold \cup {pushes[i].leaf : i \in DOMAIN pushes}, UNCHANGED <<settings, desk, resolvers, gens, rules>>
    PROVE  BridgeInv'
<1>1. \A i \in DOMAIN pushes : pushes[i].leaf \in Leaves
  BY PushesAre DEF BridgeInv
<1>2. BridgeTypes'
  BY <1>1 DEF BridgeInv, BridgeTypes
<1>3. CacheInv'
  BY DEF CacheInv, Pending
<1>4. \A l : Pending(l) \/ l \in untold => l \in untold'
  BY DEF Pending
<1>5. LookupsInv'
  <2>1. ASSUME NEW r \in resolvers, StillCurrent(r), NEW l \in LeavesOf(r.kind) \cap DOMAIN r.got PROVE Tracks(r, l)'
    BY <1>4, <2>1 DEF BridgeInv, LookupsInv, Tracks
  <2>2. QED
    BY <2>1 DEF BridgeInv, LookupsInv, StillCurrent, LeavesOf
<1>6. RulesInv'
  BY <1>4 DEF BridgeInv, RulesInv, Superseded, StillCurrent, RuleAgrees, LeavesOf
<1>7. QED
  BY <1>2, <1>3, <1>5, <1>6 DEF BridgeInv

(* A hand at the desk. *)
LEMMA HandKeeps ==
    ASSUME BridgeInv, NEW l \in Leaves, NEW v \in ValuesOf(l), HandChanges(l, v)
    PROVE  BridgeInv'
<1>1. /\ desk' = [desk EXCEPT ![l] = v] /\ UNCHANGED <<settings, cache, attached, resolvers, gens, rules>>
      /\ IF attached THEN pushes' = Append(pushes, [leaf |-> l, value |-> v]) /\ untold' = untold
         ELSE untold' = untold \cup {l} /\ pushes' = pushes
  BY DEF HandChanges
<1>2. v \in DeskValues
  BY DEF ValuesOf, DeskValues
<1>3. desk \in [Leaves -> DeskValues] /\ desk' \in [Leaves -> DeskValues] /\ desk'[l] = v
      /\ \A m \in Leaves : m # l => desk'[m] = desk[m]
  BY <1>1, <1>2 DEF BridgeInv, BridgeTypes
<1>4. pushes \in Seq(Pushes) /\ untold \subseteq Leaves /\ [leaf |-> l, value |-> v] \in Pushes
  BY <1>2 DEF BridgeInv, BridgeTypes, Pushes
<1>5. BridgeTypes'
  <2>1. pushes' \in Seq(Pushes) /\ untold' \subseteq Leaves
    <3>1. PICK x : x = [leaf |-> l, value |-> v]
      OBVIOUS
    <3>2. Append(pushes, x) \in Seq(Pushes) /\ untold \cup {l} \subseteq Leaves
      BY <1>4, <3>1
    <3>3. CASE attached
      BY <1>1, <1>4, <3>1, <3>2, <3>3
    <3>4. CASE ~attached
      BY <1>1, <1>4, <3>2, <3>4
    <3>5. QED
      BY <3>3, <3>4
  <2>2. QED
    BY <1>1, <1>3, <2>1 DEF BridgeInv, BridgeTypes
<1>6. attached => /\ DOMAIN pushes' = 1..(Len(pushes) + 1) /\ DOMAIN pushes = 1..Len(pushes) /\ Len(pushes) \in Nat
                  /\ pushes'[Len(pushes) + 1] = [leaf |-> l, value |-> v]
                  /\ \A i \in 1..Len(pushes) : pushes'[i] = pushes[i]
  BY <1>1, <1>4
<1>7. \A m : Pending(m) \/ m \in untold => Pending(m)' \/ m \in untold'
  <2>1. CASE attached
    BY <1>1, <1>6, <2>1 DEF Pending
  <2>2. CASE ~attached
    BY <1>1, <2>2 DEF Pending
  <2>3. QED
    BY <2>1, <2>2
<1>8. Pending(l)' \/ l \in untold'
  <2>1. CASE attached
    BY <1>1, <1>6, <2>1 DEF Pending
  <2>2. QED
    BY <1>1, <2>1
<1>9. CacheInv'
  <2>1. CASE attached
    <3>1. ASSUME NEW i \in DOMAIN pushes', \A j \in DOMAIN pushes' : j > i => pushes'[j].leaf # pushes'[i].leaf
          PROVE  pushes'[i].value = desk'[pushes'[i].leaf]
      <4>1. CASE i = Len(pushes) + 1
        BY <1>3, <1>6, <2>1, <4>1
      <4>2. CASE i # Len(pushes) + 1
        <5>1. i \in 1..Len(pushes) /\ pushes'[i] = pushes[i]
          BY <1>6, <2>1, <4>2
        <5>2. pushes[i].leaf # l
          BY <1>6, <2>1, <3>1, <5>1
        <5>3. \A j \in DOMAIN pushes : j > i => pushes[j].leaf # pushes[i].leaf
          BY <1>6, <2>1, <3>1, <5>1
        <5>4. pushes[i].value = desk[pushes[i].leaf] /\ pushes[i].leaf \in Leaves
          BY <1>6, <2>1, <5>1, <5>3, PushesAre DEF BridgeInv, CacheInv
        <5>5. QED
          BY <1>3, <5>1, <5>2, <5>4
      <4>3. QED
        BY <4>1, <4>2
    <3>2. \A m \in Leaves : Pending(m)' \/ cache'[m] \in {None, desk'[m]}
      <4>1. Pending(l)'
        BY <1>6, <2>1 DEF Pending
      <4>2. \A m : Pending(m) => Pending(m)'
        BY <1>6, <2>1 DEF Pending
      <4>3. QED
        BY <1>1, <1>3, <4>1, <4>2 DEF BridgeInv, CacheInv
    <3>3. QED
      BY <1>1, <2>1, <3>1, <3>2 DEF CacheInv
  <2>2. CASE ~attached
    <3>1. pushes' = <<>> /\ \A m \in Leaves : cache'[m] = None
      BY <1>1, <2>2 DEF BridgeInv, CacheInv
    <3>2. QED
      BY <3>1 DEF CacheInv
  <2>3. QED
    BY <2>1, <2>2
<1>10. LookupsInv'
  <2>1. ASSUME NEW r \in resolvers, StillCurrent(r), NEW m \in LeavesOf(r.kind) \cap DOMAIN r.got PROVE Tracks(r, m)'
    <3>1. Tracks(r, m)
      BY <2>1 DEF BridgeInv, LookupsInv
    <3>2. m \in Leaves
      <4>1. r.kind \in Kinds
        BY DEF BridgeInv, BridgeTypes, Lookups
      <4>2. QED
        BY <4>1, WantedNow
    <3>3. QED
      BY <1>3, <1>7, <1>8, <3>1, <3>2 DEF Tracks
  <2>2. QED
    BY <1>1, <2>1 DEF BridgeInv, LookupsInv, StillCurrent, LeavesOf
<1>11. RulesInv'
  <2> SUFFICES ASSUME NEW k \in Kinds, Superseded(k)', NEW m \in LeavesOf(k)'
               PROVE  RuleAgrees(m)' \/ Pending(m)' \/ m \in untold'
    BY DEF RulesInv
  <2>1. Superseded(k) /\ LeavesOf(k)' = LeavesOf(k)
    BY <1>1 DEF Superseded, StillCurrent, LeavesOf
  <2>2. m \in Leaves /\ (RuleAgrees(m) \/ Pending(m) \/ m \in untold)
    BY <2>1, WantedNow DEF BridgeInv, RulesInv
  <2>3. m # l /\ RuleAgrees(m) => RuleAgrees(m)'
    BY <1>1, <1>3, <2>2 DEF RuleAgrees
  <2>4. QED
    BY <1>7, <1>8, <2>2, <2>3
<1>12. QED
  BY <1>5, <1>9, <1>10, <1>11 DEF BridgeInv

(* A push is handled: the cache takes it, and a lookup of what it is about *)
(* starts anew.                                                            *)
LEMMA PushKeeps ==
    ASSUME BridgeInv, PushArrives
    PROVE  BridgeInv'
<1>0. PICK m : m = Head(pushes)
  OBVIOUS
<1> DEFINE kinds == (IF m.leaf[1] \in SafeStrips(settings) THEN {"sources"} ELSE {})
                       \cup (IF m.leaf[1] \in MixStrips(settings) THEN {"inserts"} ELSE {})
<1>1. /\ pushes # <<>> /\ pushes' = Tail(pushes) /\ cache' = [cache EXCEPT ![m.leaf] = m.value]
      /\ Started(kinds, settings') /\ settings' = settings /\ UNCHANGED <<desk, attached, rules, untold>>
  BY <1>0 DEF PushArrives
<1>2. /\ Len(pushes) \in Nat /\ DOMAIN pushes = 1..Len(pushes) /\ Len(pushes) > 0 /\ m = pushes[1]
      /\ pushes' \in Seq(Pushes) /\ DOMAIN pushes' = 1..(Len(pushes) - 1)
      /\ \A i \in 1..(Len(pushes) - 1) : pushes'[i] = pushes[i + 1]
  <2>1. pushes \in Seq(Pushes)
    BY DEF BridgeInv, BridgeTypes
  <2>2. Len(pushes) \in Nat /\ DOMAIN pushes = 1..Len(pushes) /\ Len(pushes) > 0 /\ m = pushes[1]
    BY <1>0, <1>1, <2>1
  <2>3. Tail(pushes) \in Seq(Pushes) /\ Len(Tail(pushes)) = Len(pushes) - 1 /\ \A i \in 1..(Len(pushes) - 1) : Tail(pushes)[i] = pushes[i + 1]
    BY <1>1, <2>1
  <2>4. QED
    BY <1>1, <2>2, <2>3
<1>3. m.leaf \in Leaves /\ m.value \in DeskValues
  BY <1>2, PushesAre DEF BridgeInv
<1>4. kinds \in SUBSET Kinds
  BY DEF Kinds
<1>5. \A l : l # m.leaf /\ Pending(l) => Pending(l)'
  <2> SUFFICES ASSUME NEW l, l # m.leaf, NEW i \in DOMAIN pushes, pushes[i].leaf = l PROVE Pending(l)'
    BY DEF Pending
  <2>1. i # 1 /\ i - 1 \in 1..(Len(pushes) - 1) /\ pushes'[i - 1] = pushes[i]
    BY <1>2
  <2>2. QED
    BY <1>2, <2>1 DEF Pending
<1>6. \A k \in Kinds : LeavesOf(k)' = LeavesOf(k)
  BY <1>1 DEF LeavesOf
<1>7. \A k \in Kinds : m.leaf \in LeavesOf(k) => k \in kinds
  BY DEF LeavesOf, Kinds
<1> HIDE DEF kinds
<1>8. \A l \in Leaves : Pending(l) => Pending(l)' \/ (\E k \in kinds : l \in LeavesOf(k)')
                                     \/ l \notin LeavesOf("sources")' \cup LeavesOf("inserts")'
  <2> SUFFICES ASSUME NEW l \in Leaves, Pending(l), ~Pending(l)', l \in LeavesOf("sources")' \cup LeavesOf("inserts")'
               PROVE  \E k \in kinds : l \in LeavesOf(k)'
    OBVIOUS
  <2>1. l = m.leaf
    BY <1>5
  <2>2. PICK k \in Kinds : l \in LeavesOf(k)'
    BY DEF Kinds
  <2>3. k \in kinds
    BY <1>6, <1>7, <2>1, <2>2
  <2>4. QED
    BY <2>2, <2>3
<1>9. /\ gens' \in [Kinds -> Nat] /\ resolvers' \subseteq Lookups /\ LookupsInv' /\ \A k \in kinds : ~Superseded(k)'
      /\ \A k \in Kinds \ kinds : Superseded(k)' => Superseded(k)
  BY <1>1, <1>4, <1>8, StartedKeeps DEF BridgeInv, BridgeTypes
<1>10. BridgeTypes'
  BY <1>1, <1>2, <1>3, <1>9 DEF BridgeInv, BridgeTypes
<1>11. cache' = [cache EXCEPT ![m.leaf] = m.value] /\ cache'[m.leaf] = m.value /\ \A l \in Leaves : l # m.leaf => cache'[l] = cache[l]
  BY <1>1, <1>3 DEF BridgeInv, BridgeTypes
<1>12. CacheInv'
  <2>1. ASSUME NEW i \in DOMAIN pushes', \A j \in DOMAIN pushes' : j > i => pushes'[j].leaf # pushes'[i].leaf
        PROVE  pushes'[i].value = desk'[pushes'[i].leaf]
    <3>1. i + 1 \in DOMAIN pushes /\ pushes'[i] = pushes[i + 1]
      BY <1>2
    <3>2. ASSUME NEW j \in DOMAIN pushes, j > i + 1 PROVE pushes[j].leaf # pushes[i + 1].leaf
      <4>1. j - 1 \in DOMAIN pushes' /\ pushes'[j - 1] = pushes[j] /\ j - 1 > i
        BY <1>2, <3>2
      <4>2. QED
        BY <2>1, <3>1, <4>1
    <3>3. QED
      BY <1>1, <3>1, <3>2 DEF BridgeInv, CacheInv
  <2>2. Pending(m.leaf)' \/ cache'[m.leaf] = desk'[m.leaf]
    <3>1. CASE \A j \in DOMAIN pushes : j > 1 => pushes[j].leaf # pushes[1].leaf
      BY <1>1, <1>2, <1>11, <3>1 DEF BridgeInv, CacheInv
    <3>2. CASE \E j \in DOMAIN pushes : j > 1 /\ pushes[j].leaf = pushes[1].leaf
      <4>1. PICK j \in DOMAIN pushes : j > 1 /\ pushes[j].leaf = pushes[1].leaf
        BY <3>2
      <4>2. j - 1 \in DOMAIN pushes' /\ pushes'[j - 1] = pushes[j]
        BY <1>2, <4>1
      <4>3. QED
        BY <1>2, <4>1, <4>2 DEF Pending
    <3>3. QED
      BY <3>1, <3>2
  <2>3. \A l \in Leaves : Pending(l)' \/ cache'[l] \in {None, desk'[l]}
    BY <1>1, <1>5, <1>11, <2>2 DEF BridgeInv, CacheInv
  <2>4. attached'
    BY <1>1 DEF BridgeInv, CacheInv
  <2>5. QED
    BY <2>1, <2>3, <2>4 DEF CacheInv
<1>13. RulesInv'
  <2> SUFFICES ASSUME NEW k \in Kinds, Superseded(k)', NEW l \in LeavesOf(k)'
               PROVE  RuleAgrees(l)' \/ Pending(l)' \/ l \in untold'
    BY DEF RulesInv
  <2>1. k \notin kinds /\ Superseded(k)
    BY <1>9
  <2>2. l \in LeavesOf(k) /\ l # m.leaf
    BY <1>6, <1>7, <2>1
  <2>3. RuleAgrees(l) \/ Pending(l) \/ l \in untold
    BY <2>1, <2>2 DEF BridgeInv, RulesInv
  <2>4. RuleAgrees(l)' <=> RuleAgrees(l)
    BY <1>1 DEF RuleAgrees
  <2>5. QED
    BY <1>1, <1>5, <2>2, <2>3, <2>4
<1>14. QED
  BY <1>9, <1>10, <1>12, <1>13 DEF BridgeInv

(* A lookup reads its next leaf. *)
LEMMA ReadKeeps ==
    ASSUME BridgeInv, NEW r \in resolvers, ReadLeaf(r)
    PROVE  BridgeInv'
<1> DEFINE l == Head(r.todo)
<1>1. PICK v \in IF cache[l] # None THEN {cache[l]} ELSE IF attached THEN {desk[l], None} ELSE {None} :
         resolvers' = (resolvers \ {r}) \cup {[kind |-> r.kind, gen |-> r.gen, todo |-> Tail(r.todo),
                                                       got |-> [m \in DOMAIN r.got \cup {l} |-> IF m = l THEN v ELSE r.got[m]]]}
  BY DEF ReadLeaf
<1>2. r.todo # <<>> /\ UNCHANGED <<settings, desk, cache, attached, pushes, gens, rules, untold>>
  BY DEF ReadLeaf
<1> DEFINE got == [m \in DOMAIN r.got \cup {l} |-> IF m = l THEN v ELSE r.got[m]]
           q == [kind |-> r.kind, gen |-> r.gen, todo |-> Tail(r.todo), got |-> got]
<1>3. r \in Lookups /\ r.kind \in Kinds /\ r.gen \in Nat /\ r.todo \in Seq(Leaves) /\ r.got \in Readings
  BY DEF BridgeInv, BridgeTypes, Lookups
<1>5. l \in Leaves /\ Tail(r.todo) \in Seq(Leaves) /\ l \in Range(r.todo) /\ Range(r.todo) \subseteq {l} \cup Range(Tail(r.todo))
      /\ Range(Tail(r.todo)) \subseteq Range(r.todo)
  <2>1. /\ Len(r.todo) \in Nat /\ Len(r.todo) > 0 /\ DOMAIN r.todo = 1..Len(r.todo) /\ l = r.todo[1] /\ Tail(r.todo) \in Seq(Leaves)
        /\ DOMAIN Tail(r.todo) = 1..(Len(r.todo) - 1) /\ \A i \in 1..(Len(r.todo) - 1) : Tail(r.todo)[i] = r.todo[i + 1]
    BY <1>2, <1>3
  <2>2. l \in Leaves
    BY <1>3, <2>1
  <2> HIDE DEF l
  <2>3. l \in Range(r.todo)
    BY <2>1 DEF Range
  <2>4. ASSUME NEW i \in DOMAIN r.todo PROVE r.todo[i] \in {l} \cup Range(Tail(r.todo))
    <3>1. i = 1 \/ (i - 1 \in 1..(Len(r.todo) - 1) /\ Tail(r.todo)[i - 1] = r.todo[i])
      BY <2>1
    <3>2. QED
      BY <2>1, <3>1 DEF Range
  <2>5. ASSUME NEW i \in DOMAIN Tail(r.todo) PROVE Tail(r.todo)[i] \in Range(r.todo)
    <3>1. i + 1 \in DOMAIN r.todo /\ Tail(r.todo)[i] = r.todo[i + 1]
      BY <2>1
    <3>2. QED
      BY <3>1 DEF Range
  <2>6. QED
    BY <2>1, <2>2, <2>3, <2>4, <2>5 DEF Range
<1>6. resolvers' = (resolvers \ {r}) \cup {q}
  BY <1>1
<1> HIDE DEF l
<1>7. v \in DeskValues \cup {None} /\ (v \in {None, desk[l]} \/ Pending(l))
  <2>1. cache[l] \in DeskValues \cup {None} /\ desk[l] \in DeskValues /\ (Pending(l) \/ cache[l] \in {None, desk[l]})
    BY <1>5 DEF BridgeInv, BridgeTypes, CacheInv
  <2>2. v \in {cache[l], desk[l], None}
    OBVIOUS
  <2>3. QED
    BY <2>1, <2>2
<1>8. DOMAIN got = DOMAIN r.got \cup {l} /\ got[l] = v /\ \A m \in DOMAIN r.got : m # l => got[m] = r.got[m]
  OBVIOUS
<1>9. got \in Readings
  <2>1. PICK d \in SUBSET Leaves : r.got \in [d -> DeskValues \cup {None}]
    BY <1>3 DEF Readings
  <2>2. got \in [d \cup {l} -> DeskValues \cup {None}] /\ d \cup {l} \in SUBSET Leaves
    BY <1>5, <1>7, <2>1
  <2>3. QED
    BY <2>2 DEF Readings
<1> HIDE DEF got
<1>10. q \in Lookups /\ q.kind = r.kind /\ q.gen = r.gen /\ q.todo = Tail(r.todo) /\ q.got = got
  BY <1>3, <1>5, <1>9 DEF Lookups
<1> HIDE DEF q
<1>11. BridgeTypes'
  BY <1>2, <1>6, <1>10 DEF BridgeInv, BridgeTypes
<1>12. CacheInv'
  BY <1>2, CacheInvStays DEF BridgeInv
<1>13. LookupsInv'
  <2>1. Range(q.todo) \cup DOMAIN q.got \subseteq KindLeaves(r.kind)
    BY <1>5, <1>8, <1>10 DEF BridgeInv, LookupsInv
  <2>2. \A p \in resolvers' : p.gen <= gens'[p.kind] /\ Range(p.todo) \cup DOMAIN p.got \subseteq KindLeaves(p.kind)
    BY <1>2, <1>6, <1>10, <2>1 DEF BridgeInv, LookupsInv
  <2>3. \A p, o \in resolvers' : p.kind = o.kind /\ p.gen = o.gen => p = o
    BY <1>6, <1>10 DEF BridgeInv, LookupsInv
  <2>4. ASSUME StillCurrent(q)
        PROVE  /\ LeavesOf(r.kind) \subseteq Range(q.todo) \cup DOMAIN q.got
               /\ \A m \in LeavesOf(r.kind) \cap DOMAIN q.got : Tracks(q, m)
    <3>1. StillCurrent(r)
      BY <1>10, <2>4 DEF StillCurrent
    <3>2. /\ LeavesOf(r.kind) \subseteq Range(r.todo) \cup DOMAIN r.got
          /\ \A m \in LeavesOf(r.kind) \cap DOMAIN r.got : Tracks(r, m)
      BY <3>1 DEF BridgeInv, LookupsInv
    <3>3. LeavesOf(r.kind) \subseteq Range(q.todo) \cup DOMAIN q.got
      BY <1>5, <1>8, <1>10, <3>2
    <3>4. ASSUME NEW m \in LeavesOf(r.kind) \cap DOMAIN q.got PROVE Tracks(q, m)
      <4>1. CASE m = l
        BY <1>7, <1>8, <1>10, <4>1 DEF Tracks
      <4>2. CASE m # l
        BY <1>8, <1>10, <3>2, <4>2 DEF Tracks
      <4>3. QED
        BY <4>1, <4>2
    <3>5. QED
      BY <3>3, <3>4
  <2>5. ASSUME NEW p \in resolvers', StillCurrent(p)'
        PROVE  /\ LeavesOf(p.kind)' \subseteq Range(p.todo) \cup DOMAIN p.got
               /\ \A m \in LeavesOf(p.kind)' \cap DOMAIN p.got : Tracks(p, m)'
    <3>1. StillCurrent(p) /\ LeavesOf(p.kind)' = LeavesOf(p.kind) /\ \A m : Tracks(p, m)' <=> Tracks(p, m)
      BY <1>2, <2>5 DEF StillCurrent, LeavesOf, Tracks, Pending
    <3>2. CASE p = q
      BY <1>10, <2>4, <3>1, <3>2
    <3>3. CASE p # q
      BY <1>6, <3>1, <3>3 DEF BridgeInv, LookupsInv
    <3>4. QED
      BY <3>2, <3>3
  <2>6. QED
    BY <2>2, <2>3, <2>5 DEF LookupsInv
<1>14. RulesInv'
  <2> SUFFICES ASSUME NEW k \in Kinds, Superseded(k)', NEW m \in LeavesOf(k)'
               PROVE  RuleAgrees(m)' \/ Pending(m)' \/ m \in untold'
    BY DEF RulesInv
  <2>1. Superseded(k)
    BY <1>2, <1>6, <1>10 DEF Superseded, StillCurrent
  <2>2. LeavesOf(k)' = LeavesOf(k) /\ (RuleAgrees(m)' <=> RuleAgrees(m)) /\ (Pending(m)' <=> Pending(m))
    BY <1>2 DEF LeavesOf, RuleAgrees, Pending
  <2>3. QED
    BY <1>2, <2>1, <2>2 DEF BridgeInv, RulesInv
<1>15. QED
  BY <1>11, <1>12, <1>13, <1>14 DEF BridgeInv

(* What a lookup that has read all of its leaves makes of them is as good  *)
(* as what it read.                                                        *)
LEMMA LookupMakes ==
    ASSUME BridgeInv, NEW r \in resolvers, StillCurrent(r), r.todo = <<>>, LookupEnds(r), NEW l \in LeavesOf(r.kind)
    PROVE  RuleAgrees(l)' \/ Pending(l) \/ l \in untold'
<1>1. r.kind \in Kinds
  BY DEF BridgeInv, BridgeTypes, Lookups
<1>2. LeavesOf(r.kind) \subseteq DOMAIN r.got
  <2>1. Range(<<>>) = {}
    BY DEF Range
  <2>2. QED
    BY <2>1 DEF BridgeInv, LookupsInv
<1>3. l \in KindLeaves(r.kind) /\ l \in Leaves /\ l \in DOMAIN r.got
  BY <1>1, <1>2, WantedNow
<1>4. /\ rules' = IF r.kind = "sources" THEN [rules EXCEPT !.set = settings, !.sources = SourcesOf(r.got)]
                  ELSE [rules EXCEPT !.set = settings, !.inserts = InsertsOf(r.got)]
      /\ untold' = untold \ {m \in DOMAIN r.got : r.got[m] = desk[m]} /\ desk' = desk
  BY DEF LookupEnds
<1>5. rules.set = settings /\ rules = [set |-> settings, sources |-> rules.sources, inserts |-> rules.inserts]
  BY DEF BridgeInv, BridgeTypes
<1>6. r.got[l] \in {None, desk[l]} \/ Pending(l) \/ l \in untold
  BY <1>3 DEF BridgeInv, LookupsInv, Tracks
<1>7. CASE r.got[l] \notin {None, desk[l]}
  BY <1>4, <1>6, <1>7
<1>8. CASE r.got[l] \in {None, desk[l]} /\ r.kind = "sources"
  <2> DEFINE s == l[1]
  <2>1. rules'.sources = SourcesOf(r.got)
    BY <1>4, <1>5, <1>8
  <2>2. s \in Inputs /\ l[2] \in {"grp", "in"} /\ l = <<s, l[2]>> /\ s \in SafeStrips(settings)
    BY <1>3, <1>8 DEF KindLeaves, LeavesOf
  <2>3. <<s, "grp">> \in DOMAIN r.got /\ <<s, "in">> \in DOMAIN r.got
    BY <1>2, <1>8, <2>2 DEF LeavesOf
  <2>4. rules'.sources[s] = IF r.got[<<s, "grp">>] = None \/ r.got[<<s, "in">>] = None THEN None
                            ELSE IF r.got[<<s, "grp">>] = "OFF" THEN {} ELSE {<<r.got[<<s, "grp">>], r.got[<<s, "in">>]>>}
    BY <2>1, <2>2, <2>3 DEF SourcesOf
  <2>5. CASE l[2] = "grp"
    BY <1>4, <1>8, <2>2, <2>4, <2>5 DEF RuleAgrees
  <2>6. CASE l[2] = "in"
    BY <1>4, <1>8, <2>2, <2>4, <2>6 DEF RuleAgrees
  <2>7. QED
    BY <2>2, <2>5, <2>6
<1>9. CASE r.got[l] \in {None, desk[l]} /\ r.kind # "sources"
  <2> DEFINE s == l[1]
  <2>1. rules'.inserts = InsertsOf(r.got)
    BY <1>4, <1>5, <1>9
  <2>2. s \in Mixes /\ l[2] = "ins" /\ l = <<s, "ins">>
    BY <1>3, <1>9 DEF KindLeaves
  <2>3. rules'.inserts[s] = IF r.got[l] = None THEN None ELSE {r.got[l]} \ {"none"}
    BY <1>3, <2>1, <2>2 DEF InsertsOf
  <2>4. QED
    BY <1>4, <1>9, <2>2, <2>3 DEF RuleAgrees
<1>10. QED
  BY <1>7, <1>8, <1>9

(* A lookup ends. *)
LEMMA LookupEndKeeps ==
    ASSUME BridgeInv, NEW r \in resolvers, LookupEnds(r)
    PROVE  BridgeInv'
<1>1. r.todo = <<>> /\ resolvers' = resolvers \ {r} /\ UNCHANGED <<settings, desk, cache, attached, pushes, gens>>
  BY DEF LookupEnds
<1>2. CacheInv'
  BY <1>1, CacheInvStays DEF BridgeInv
<1>3. r.kind \in Kinds
  BY DEF BridgeInv, BridgeTypes, Lookups
<1>4. \A l : Pending(l)' <=> Pending(l)
  BY <1>1 DEF Pending
<1>5. \A k : LeavesOf(k)' = LeavesOf(k)
  BY <1>1 DEF LeavesOf
<1>6. \A p : StillCurrent(p)' <=> StillCurrent(p)
  BY <1>1 DEF StillCurrent
<1>7. CASE ~StillCurrent(r)
  <2>1. rules' = rules /\ untold' = untold
    BY <1>7 DEF LookupEnds
  <2>2. BridgeTypes'
    BY <1>1, <2>1 DEF BridgeInv, BridgeTypes
  <2>3. LookupsInv'
    BY <1>1, <1>4, <1>5, <1>6, <2>1 DEF BridgeInv, LookupsInv, Tracks
  <2>4. RulesInv'
    <3> SUFFICES ASSUME NEW k \in Kinds, Superseded(k)', NEW m \in LeavesOf(k)'
                 PROVE  RuleAgrees(m)' \/ Pending(m)' \/ m \in untold'
      BY DEF RulesInv
    <3>1. Superseded(k)
      BY <1>1, <1>6, <1>7 DEF Superseded
    <3>2. RuleAgrees(m)' <=> RuleAgrees(m)
      BY <1>1, <2>1 DEF RuleAgrees
    <3>3. QED
      BY <1>4, <1>5, <2>1, <3>1, <3>2 DEF BridgeInv, RulesInv
  <2>5. QED
    BY <1>2, <2>2, <2>3, <2>4 DEF BridgeInv
<1>8. CASE StillCurrent(r)
  <2>1. /\ rules' = IF r.kind = "sources" THEN [rules EXCEPT !.set = settings, !.sources = SourcesOf(r.got)]
                    ELSE [rules EXCEPT !.set = settings, !.inserts = InsertsOf(r.got)]
        /\ untold' = untold \ {m \in DOMAIN r.got : r.got[m] = desk[m]}
    BY <1>8 DEF LookupEnds
  <2>2. rules = [set |-> settings, sources |-> rules.sources, inserts |-> rules.inserts]
    BY DEF BridgeInv, BridgeTypes
  <2>3. rules' = [set |-> settings, sources |-> IF r.kind = "sources" THEN SourcesOf(r.got) ELSE rules.sources,
                  inserts |-> IF r.kind = "sources" THEN rules.inserts ELSE InsertsOf(r.got)]
    <3>1. CASE r.kind = "sources"
      <4>1. PICK v : v = SourcesOf(r.got)
        OBVIOUS
      <4>2. [rules EXCEPT !.set = settings, !.sources = v] = [[rules EXCEPT !.set = settings] EXCEPT !.sources = v]
        BY <2>2
      <4>3. [rules EXCEPT !.set = settings] = rules
        BY <2>2
      <4>4. [rules EXCEPT !.sources = v] = [set |-> settings, sources |-> v, inserts |-> rules.inserts]
        BY <2>2
      <4>5. [[rules EXCEPT !.set = settings] EXCEPT !.sources = v] = [rules EXCEPT !.sources = v]
        BY <4>3
      <4>6. rules' = [set |-> settings, sources |-> SourcesOf(r.got), inserts |-> rules.inserts]
        BY <2>1, <3>1, <4>1, <4>2, <4>4, <4>5
      <4>7. QED
        BY <3>1, <4>6
    <3>2. CASE r.kind # "sources"
      <4>1. PICK v : v = InsertsOf(r.got)
        OBVIOUS
      <4>2. [rules EXCEPT !.set = settings, !.inserts = v] = [[rules EXCEPT !.set = settings] EXCEPT !.inserts = v]
        BY <2>2
      <4>3. [rules EXCEPT !.set = settings] = rules
        BY <2>2
      <4>4. [rules EXCEPT !.inserts = v] = [set |-> settings, sources |-> rules.sources, inserts |-> v]
        BY <2>2
      <4>5. [[rules EXCEPT !.set = settings] EXCEPT !.inserts = v] = [rules EXCEPT !.inserts = v]
        BY <4>3
      <4>6. rules' = [set |-> settings, sources |-> rules.sources, inserts |-> InsertsOf(r.got)]
        BY <2>1, <3>2, <4>1, <4>2, <4>4, <4>5
      <4>7. QED
        BY <3>2, <4>6
    <3>3. QED
      BY <3>1, <3>2
  <2>4. BridgeTypes'
    <3>1. untold' \subseteq Leaves
      BY <2>1 DEF BridgeInv, BridgeTypes
    <3>2. rules' = [set |-> settings', sources |-> rules'.sources, inserts |-> rules'.inserts]
      BY <1>1, <2>3
    <3>3. QED
      BY <1>1, <3>1, <3>2 DEF BridgeInv, BridgeTypes
  <2>5. ASSUME NEW p \in resolvers, p # r, StillCurrent(p) PROVE p.kind # r.kind /\ p.kind \in Kinds
    BY <1>8, <2>5 DEF BridgeInv, BridgeTypes, Lookups, LookupsInv, StillCurrent
  <2>6. ASSUME NEW k \in Kinds, k # r.kind, NEW m \in LeavesOf(k), m \in untold PROVE m \in untold'
    <3>1. m \in KindLeaves(k) /\ DOMAIN r.got \subseteq KindLeaves(r.kind)
      BY WantedNow DEF BridgeInv, LookupsInv
    <3>2. m \notin DOMAIN r.got
      BY <1>3, <2>6, <3>1, KindsApart
    <3>3. QED
      BY <2>1, <2>6, <3>2
  <2>7. LookupsInv'
    <3>1. ASSUME NEW p \in resolvers', StillCurrent(p)', NEW m \in LeavesOf(p.kind)' \cap DOMAIN p.got PROVE Tracks(p, m)'
      <4>1. StillCurrent(p) /\ p \in resolvers /\ p.kind # r.kind /\ p.kind \in Kinds
        BY <1>1, <1>6, <2>5, <3>1
      <4>2. Tracks(p, m)
        BY <1>5, <4>1 DEF BridgeInv, LookupsInv
      <4>3. QED
        BY <1>1, <1>4, <1>5, <2>6, <4>1, <4>2 DEF Tracks
    <3>2. QED
      BY <1>1, <1>5, <1>6, <3>1 DEF BridgeInv, LookupsInv
  <2>8. RulesInv'
    <3> SUFFICES ASSUME NEW k \in Kinds, Superseded(k)', NEW m \in LeavesOf(k)'
                 PROVE  RuleAgrees(m)' \/ Pending(m)' \/ m \in untold'
      BY DEF RulesInv
    <3>1. CASE k = r.kind
      BY <1>1, <1>4, <1>5, <1>8, <3>1, LookupMakes
    <3>2. CASE k # r.kind
      <4>1. Superseded(k)
        BY <1>1, <1>6, <3>2 DEF Superseded
      <4>2. RuleAgrees(m) \/ Pending(m) \/ m \in untold
        BY <1>5, <4>1 DEF BridgeInv, RulesInv
      <4>3. RuleAgrees(m)' <=> RuleAgrees(m)
        <5>1. m \in KindLeaves(k)
          BY <1>5, WantedNow
        <5>2. IF m[2] = "ins" THEN rules'.inserts = rules.inserts ELSE rules'.sources = rules.sources
          BY <1>3, <2>3, <3>2, <5>1 DEF KindLeaves, Kinds
        <5>3. QED
          BY <1>1, <5>2 DEF RuleAgrees
      <4>4. QED
        BY <1>4, <1>5, <2>6, <3>2, <4>2, <4>3
    <3>3. QED
      BY <3>1, <3>2
  <2>9. QED
    BY <1>2, <2>4, <2>7, <2>8 DEF BridgeInv
<1>9. QED
  BY <1>7, <1>8

LEMMA BridgeGoesOn ==
    ASSUME BridgeInv, [BridgeNext]_bridgeVars
    PROVE  BridgeInv'
<1>1. CASE PushArrives \/ Attach
  BY <1>1, PushKeeps, AttachKeeps
<1>2. CASE SubscriptionGap \/ Detach
  <2>1. /\ pushes' = <<>> /\ cache' = [l \in Leaves |-> None] /\ attached' \in BOOLEAN
        /\ untold' = untold \cup {pushes[i].leaf : i \in DOMAIN pushes} /\ UNCHANGED <<settings, desk, resolvers, gens, rules>>
    BY <1>2 DEF SubscriptionGap, Detach, BridgeInv, BridgeTypes
  <2>2. QED
    BY <2>1, LostKeeps
<1>3. CASE \E s \in AllSettings : Configure(s)
  BY <1>3, ConfigureKeeps
<1>4. CASE \E l \in Leaves : \E v \in ValuesOf(l) : HandChanges(l, v)
  BY <1>4, HandKeeps
<1>5. CASE \E r \in resolvers : LookupEnds(r) \/ ReadLeaf(r)
  BY <1>5, LookupEndKeeps, ReadKeeps
<1>6. CASE UNCHANGED bridgeVars \/ \E a \in Apps : Identified(a) \/ Write(a)
  <2>1. UNCHANGED <<settings, desk, cache, attached, pushes, resolvers, gens, rules, untold>>
    BY <1>6 DEF bridgeVars, Identified, Write
  <2>2. QED
    BY <2>1, BridgeTypesStay, CacheInvStays, LookupsInvStays, RulesInvStays DEF BridgeInv
<1>7. QED
  BY <1>1, <1>2, <1>3, <1>4, <1>5, <1>6 DEF BridgeNext

-----------------------------------------------------------------------------
(* What is refused by what the desk has is refused by rules that agree     *)
(* with it: what they do not know, they refuse.                            *)

RulesAreGood ==
    /\ \A s \in SafeStrips(settings) : rules.sources[s] \in {None, SourcesOf(desk)[s]}
    /\ \A s \in MixStrips(settings) : rules.inserts[s] \in {None, InsertsOf(desk)[s]}

LEMMA FollowedRulesAreGood ==
    ASSUME BridgeInv, Followed, untold \cap (Range(Wanted("sources", settings)) \cup Range(Wanted("inserts", settings))) = {}
    PROVE  RulesAreGood
<1>1. \A k \in Kinds : Superseded(k)
  BY DEF Followed, Superseded, StillCurrent
<1>2. \A l : ~Pending(l)
  BY DEF Followed, Pending
<1>3. \A k \in Kinds : \A l \in LeavesOf(k) : RuleAgrees(l) /\ l \in Leaves
  <2>1. \A k \in Kinds : LeavesOf(k) = Range(Wanted(k, settings)) /\ LeavesOf(k) \subseteq Leaves
    BY WantedNow
  <2>2. "sources" \in Kinds /\ "inserts" \in Kinds /\ \A k \in Kinds : k = "sources" \/ k = "inserts"
    BY DEF Kinds
  <2>3. \A k \in Kinds : \A l \in LeavesOf(k) : l \notin untold
    BY <2>1, <2>2
  <2>4. QED
    BY <1>1, <1>2, <2>1, <2>3 DEF BridgeInv, RulesInv
<1>4. ASSUME NEW s \in SafeStrips(settings) PROVE rules.sources[s] \in {None, SourcesOf(desk)[s]}
  <2> DEFINE g == <<s, "grp">>
             n == <<s, "in">>
  <2>1. g \in LeavesOf("sources") /\ n \in LeavesOf("sources") /\ "sources" \in Kinds /\ s \in Inputs
    BY DEF LeavesOf, Kinds, SafeStrips
  <2>2. RuleAgrees(g) /\ RuleAgrees(n) /\ g \in Leaves /\ n \in Leaves
    BY <1>3, <2>1
  <2>3. desk[g] # None /\ desk[n] # None /\ g \in DOMAIN desk /\ n \in DOMAIN desk
    BY <2>2, WingBridgeAssumption DEF BridgeInv, BridgeTypes, DeskValues
  <2>4. SourcesOf(desk)[s] = IF desk[g] = "OFF" THEN {} ELSE {<<desk[g], desk[n]>>}
    BY <2>1, <2>3 DEF SourcesOf
  <2>5. \/ rules.sources[s] = None
        \/ rules.sources[s] = {} /\ desk[g] = "OFF"
        \/ desk[g] # "OFF" /\ \E m : rules.sources[s] = {<<desk[g], m>>}
    BY <2>2 DEF RuleAgrees
  <2>6. rules.sources[s] \in {None, {}} \/ \E h : rules.sources[s] = {<<h, desk[n]>>}
    BY <2>2 DEF RuleAgrees
  <2>7. CASE rules.sources[s] = None \/ (rules.sources[s] = {} /\ desk[g] = "OFF")
    BY <2>4, <2>7
  <2>8. CASE desk[g] # "OFF" /\ rules.sources[s] # None /\ \E m : rules.sources[s] = {<<desk[g], m>>}
    <3>1. PICK m : rules.sources[s] = {<<desk[g], m>>}
      BY <2>8
    <3>2. rules.sources[s] # {}
      BY <3>1
    <3>3. PICK h : rules.sources[s] = {<<h, desk[n]>>}
      BY <2>6, <2>8, <3>2
    <3>4. <<desk[g], m>> = <<h, desk[n]>>
      BY <3>1, <3>3
    <3>5. m = desk[n]
      BY <3>4
    <3>6. QED
      BY <2>4, <2>8, <3>1, <3>5
  <2>9. QED
    BY <2>5, <2>7, <2>8
<1>5. ASSUME NEW s \in MixStrips(settings) PROVE rules.inserts[s] \in {None, InsertsOf(desk)[s]}
  <2> DEFINE l == <<s, "ins">>
  <2>1. l \in LeavesOf("inserts") /\ "inserts" \in Kinds /\ s \in Mixes
    BY DEF LeavesOf, Kinds, MixStrips
  <2>2. RuleAgrees(l) /\ l \in Leaves
    BY <1>3, <2>1
  <2>3. desk[l] # None /\ l \in DOMAIN desk
    BY <2>2, WingBridgeAssumption DEF BridgeInv, BridgeTypes, DeskValues
  <2>4. InsertsOf(desk)[s] = {desk[l]} \ {"none"}
    BY <2>1, <2>3 DEF InsertsOf
  <2>5. rules.inserts[s] \in {None, {desk[l]} \ {"none"}}
    BY <2>2 DEF RuleAgrees
  <2>6. QED
    BY <2>4, <2>5
<1>6. QED
  BY <1>4, <1>5 DEF RulesAreGood

(* A safe strip whose source is unknown protects every source. *)
LEMMA UnknownSourceProtectsAll ==
    ASSUME NEW r, NEW s, NEW p, NEW sources, sources[s] # None, r \in SourceRules(sources, s), MatchRule(r, p)
    PROVE  MatchRule([at |-> <<{"io"}, {"in"}>>, except |-> {}], p)
<1>1. PICK src \in sources[s] : r = [at |-> <<{"io"}, {"in"}, {src[1]}, {src[2], PairOf(src[2])}>>, except |-> {}]
  BY DEF SourceRules
<1>2. Len(r.at) = 4 /\ r.at[1] = {"io"} /\ r.at[2] = {"in"}
  BY <1>1
<1>3. \A i \in 1..Len(p) : i <= 4 => Fits(r.at[i], p[i])
  BY <1>2 DEF MatchRule
<1> DEFINE w == [at |-> <<{"io"}, {"in"}>>, except |-> {}]
<1>4. Len(w.at) = 2 /\ w.at[1] = {"io"} /\ w.at[2] = {"in"} /\ w.except = {}
  OBVIOUS
<1> HIDE DEF w
<1>5. \A i \in 1..Len(p) : i <= 2 => Fits(w.at[i], p[i])
  <2> SUFFICES ASSUME NEW i \in 1..Len(p), i <= 2 PROVE Fits(w.at[i], p[i])
    OBVIOUS
  <2>1. (i = 1 \/ i = 2) /\ i <= 4
    OBVIOUS
  <2>2. w.at[i] = r.at[i]
    BY <1>2, <1>4, <2>1
  <2>3. QED
    BY <1>3, <2>1, <2>2
<1>6. MatchRule(w, p)
  BY <1>4, <1>5 DEF MatchRule
<1>7. QED
  BY <1>6 DEF w

LEMMA SafesStayRefused ==
    ASSUME NEW strips, NEW p, NEW sources, NEW truth, SafesRefuse(strips, truth, p),
           \A s \in strips \cap Inputs : sources[s] \in {None, truth[s]}
    PROVE  SafesRefuse(strips, sources, p)
<1> DEFINE others == {[at |-> <<{s[1]}, {s[2]}>>, except |-> Outgoing(s[1])] : s \in strips}
                     \cup UNION {{[at |-> a, except |-> {}] : a \in Incoming(s[1], s[2])} : s \in strips}
           global == {[at |-> <<{"ctl"}, {"lib"}>>, except |-> {}], [at |-> <<{"cfg"}>>, except |-> {"rta"}]}
           inputs(from) == UNION {SourceRules(from, s) : s \in strips \cap Inputs}
<1>1. p # <<>> /\ strips # {} /\ BuildSafeRules(strips, truth) = others \cup inputs(truth) \cup global
      /\ BuildSafeRules(strips, sources) = others \cup inputs(sources) \cup global
  BY DEF SafesRefuse, BuildSafeRules
<1> HIDE DEF others, global
<1>2. PICK r \in others \cup inputs(truth) \cup global : MatchRule(r, p)
  BY <1>1 DEF SafesRefuse
<1>3. \E q \in others \cup inputs(sources) \cup global : MatchRule(q, p)
  <2>1. CASE r \in inputs(truth)
    <3>1. PICK s \in strips \cap Inputs : r \in SourceRules(truth, s)
      BY <2>1
    <3>2. CASE sources[s] = truth[s]
      <4>1. SourceRules(sources, s) = SourceRules(truth, s)
        BY <3>2 DEF SourceRules
      <4>2. r \in inputs(sources)
        BY <3>1, <4>1
      <4>3. QED
        BY <1>2, <4>2
    <3>3. CASE sources[s] = None /\ sources[s] # truth[s]
      <4> DEFINE w == [at |-> <<{"io"}, {"in"}>>, except |-> {}]
      <4>1. w \in SourceRules(sources, s)
        BY <3>3 DEF SourceRules
      <4>2. MatchRule(w, p)
        BY <1>2, <3>1, <3>3, UnknownSourceProtectsAll
      <4> HIDE DEF w
      <4>3. w \in inputs(sources)
        BY <4>1
      <4>4. QED
        BY <4>2, <4>3
    <3>4. QED
      BY <3>2, <3>3
  <2>2. CASE r \notin inputs(truth)
    BY <1>2, <2>2
  <2>3. QED
    BY <2>1, <2>2
<1>4. QED
  BY <1>1, <1>3 DEF SafesRefuse

(* An allow-list grants no more with inserts that are not known. *)
LEMMA ListsGrantNoMore ==
    ASSUME NEW listed, NEW scope, NEW p, NEW inserts, NEW truth, ListGrants(listed, scope, inserts, p),
           scope # "full" => \A s \in listed \cap Mixes : inserts[s] \in {None, truth[s]}
    PROVE  ListGrants(listed, scope, truth, p)
<1>1. PICK s \in listed : GrantsStrip(s, scope, inserts, p) \/ GrantsIncoming(s, scope, p)
  BY DEF ListGrants
<1>2. CASE GrantsIncoming(s, scope, p)
  BY <1>2 DEF ListGrants
<1>3. CASE GrantsStrip(s, scope, inserts, p)
  <2>1. GrantsStrip(s, scope, truth, p)
    <3>1. CASE scope = "full" \/ s \notin Mixes
      BY <1>3, <3>1 DEF GrantsStrip
    <3>2. CASE scope # "full" /\ s \in Mixes
      <4>1. inserts[s] \in {None, truth[s]}
        BY <3>2
      <4>2. CASE inserts[s] = None
        BY <1>3, <3>2, <4>2 DEF GrantsStrip
      <4>3. CASE inserts[s] # None
        BY <1>3, <3>2, <4>1, <4>3 DEF GrantsStrip
      <4>4. QED
        BY <4>2, <4>3
    <3>3. QED
      BY <3>1, <3>2
  <2>2. QED
    BY <2>1 DEF ListGrants
<1>4. QED
  BY <1>1, <1>2, <1>3

LEMMA GoodRulesRefuseAsTruth ==
    ASSUME BridgeInv, RulesAreGood, NEW a, NEW p, Refuses(Truth, a, p)
    PROVE  Refuses(rules, a, p)
<1>1. /\ rules.set = settings /\ settings.scope \in {"mix", "full"} /\ settings.profile \in {"none", "safes", "allow"}
      /\ Truth.set = settings /\ Truth.sources = SourcesOf(desk) /\ Truth.inserts = InsertsOf(desk)
  <2>1. rules.set = settings
    BY DEF BridgeInv, BridgeTypes
  <2>2. QED
    BY <2>1, WingBridgeAssumption DEF BridgeInv, BridgeTypes, Truth
<1>2. GlobalRefuses(Truth, p) => GlobalRefuses(rules, p)
  <2>1. CASE settings.whitelist
    <3>1. settings.scope # "full" => \A s \in settings.safes \cap Mixes : rules.inserts[s] \in {None, Truth.inserts[s]}
      BY <1>1, <2>1 DEF RulesAreGood, MixStrips
    <3>2. QED
      BY <1>1, <2>1, <3>1, ListsGrantNoMore DEF GlobalRefuses
  <2>2. CASE ~settings.whitelist
    <3>1. \A s \in settings.safes \cap Inputs : rules.sources[s] \in {None, Truth.sources[s]}
      BY <1>1, <2>2 DEF RulesAreGood, SafeStrips
    <3>2. QED
      BY <1>1, <2>2, <3>1, SafesStayRefused DEF GlobalRefuses
  <2>3. QED
    BY <2>1, <2>2
<1>3. ASSUME settings.profile # "none", ProfileRefuses(Truth, p) PROVE ProfileRefuses(rules, p)
  <2>1. CASE settings.profile = "safes"
    <3>1. \A s \in settings.listed \cap Inputs : rules.sources[s] \in {None, Truth.sources[s]}
      BY <1>1, <2>1 DEF RulesAreGood, SafeStrips
    <3>2. SafesRefuse(settings.listed, Truth.sources, p) => SafesRefuse(settings.listed, rules.sources, p)
      BY <3>1, SafesStayRefused
    <3>3. QED
      BY <1>1, <1>2, <1>3, <2>1, <3>2 DEF ProfileRefuses
  <2>2. CASE settings.profile = "allow"
    <3>1. settings.scope # "full" => \A s \in settings.listed \cap Mixes : rules.inserts[s] \in {None, Truth.inserts[s]}
      BY <1>1, <2>2 DEF RulesAreGood, MixStrips
    <3>2. ListGrants(settings.listed, settings.scope, rules.inserts, p) => ListGrants(settings.listed, settings.scope, Truth.inserts, p)
      BY <3>1, ListsGrantNoMore
    <3>3. QED
      BY <1>1, <1>2, <1>3, <2>2, <3>2 DEF ProfileRefuses
  <2>3. QED
    BY <1>1, <1>3, <2>1, <2>2
<1>4. QED
  BY <1>1, <1>2, <1>3 DEF Refuses

(* Whatever is re-patched, inserted or reconfigured while the rules are    *)
(* being made, once all the desk pushed has been followed no app may write *)
(* what is protected from it, unless something changed there that was not  *)
(* pushed (resolveSources(), resolveInserts(), rebuildRules()): for any    *)
(* settings, strips, paths and number of changes.                          *)
THEOREM ProtectedStaysUnwritten == BridgeSpec => []NothingProtectedIsWritten
<1>1. BridgeInv => NothingProtectedIsWritten
  BY FollowedRulesAreGood, GoodRulesRefuseAsTruth DEF NothingProtectedIsWritten, LetsOnlyWhatItShould, PolicyLets
<1>2. QED
  BY <1>1, BridgeInvInitially, BridgeGoesOn, PTL DEF BridgeSpec

-----------------------------------------------------------------------------
(* BridgeOsc *)

(* What is said of queues here is said of what they contain. *)
LEMMA SetToSeqHas ==
    ASSUME NEW A, IsFiniteSet(A)
    PROVE  SetToSeq(A) \in Seq(A) /\ Range(SetToSeq(A)) = A
<1>1. /\ Cardinality(A) \in Nat /\ SetToSeq(A) \in [1..Cardinality(A) -> A]
      /\ \A x \in A : \E i \in 1..Cardinality(A) : SetToSeq(A)[i] = x
  BY SetToSeqListsAll
<1>2. QED
  BY <1>1 DEF Range

LEMMA QueueHas ==
    ASSUME NEW S, NEW q \in Seq(S)
    PROVE  /\ Range(q) \subseteq S
           /\ \A x \in S : Append(q, x) \in Seq(S) /\ Range(Append(q, x)) = Range(q) \cup {x}
           /\ \A r \in Seq(S) : (q \o r) \in Seq(S) /\ Range(q \o r) = Range(q) \cup Range(r)
           /\ q # <<>> => /\ Head(q) \in S /\ Tail(q) \in Seq(S) /\ Range(q) = {Head(q)} \cup Range(Tail(q))
<1>1. Range(q) \subseteq S
  BY DEF Range
<1>2. ASSUME NEW x \in S PROVE Append(q, x) \in Seq(S) /\ Range(Append(q, x)) = Range(q) \cup {x}
  <2>1. Append(q, x) \in Seq(S) /\ DOMAIN Append(q, x) = 1..(Len(q) + 1) /\ DOMAIN q = 1..Len(q) /\ Len(q) \in Nat
        /\ Append(q, x)[Len(q) + 1] = x /\ \A i \in 1..Len(q) : Append(q, x)[i] = q[i]
    OBVIOUS
  <2>2. \A i \in 1..(Len(q) + 1) : i \in 1..Len(q) \/ i = Len(q) + 1
    BY <2>1
  <2>3. Len(q) + 1 \in 1..(Len(q) + 1) /\ \A i \in 1..Len(q) : i \in 1..(Len(q) + 1)
    BY <2>1
  <2>4. QED
    BY <2>1, <2>2, <2>3 DEF Range
<1>3. ASSUME NEW r \in Seq(S) PROVE (q \o r) \in Seq(S) /\ Range(q \o r) = Range(q) \cup Range(r)
  <2>1. /\ (q \o r) \in Seq(S) /\ DOMAIN (q \o r) = 1..(Len(q) + Len(r)) /\ DOMAIN q = 1..Len(q) /\ DOMAIN r = 1..Len(r)
        /\ Len(q) \in Nat /\ Len(r) \in Nat
        /\ \A i \in 1..(Len(q) + Len(r)) : (q \o r)[i] = IF i <= Len(q) THEN q[i] ELSE r[i - Len(q)]
    OBVIOUS
  <2>2. Range(q \o r) \subseteq Range(q) \cup Range(r)
    <3> SUFFICES ASSUME NEW i \in 1..(Len(q) + Len(r)) PROVE (q \o r)[i] \in Range(q) \cup Range(r)
      BY <2>1 DEF Range
    <3>1. CASE i <= Len(q)
      <4>1. i \in 1..Len(q) /\ (q \o r)[i] = q[i]
        BY <2>1, <3>1
      <4>2. QED
        BY <2>1, <4>1 DEF Range
    <3>2. CASE ~(i <= Len(q))
      <4>1. i - Len(q) \in 1..Len(r) /\ (q \o r)[i] = r[i - Len(q)]
        BY <2>1, <3>2
      <4>2. QED
        BY <2>1, <4>1 DEF Range
    <3>3. QED
      BY <3>1, <3>2
  <2>3. Range(q) \subseteq Range(q \o r)
    <3> SUFFICES ASSUME NEW i \in 1..Len(q) PROVE q[i] \in Range(q \o r)
      BY <2>1 DEF Range
    <3>1. i \in 1..(Len(q) + Len(r)) /\ (q \o r)[i] = q[i]
      BY <2>1
    <3>2. QED
      BY <2>1, <3>1 DEF Range
  <2>4. Range(r) \subseteq Range(q \o r)
    <3> SUFFICES ASSUME NEW i \in 1..Len(r) PROVE r[i] \in Range(q \o r)
      BY <2>1 DEF Range
    <3>1. i + Len(q) \in 1..(Len(q) + Len(r)) /\ (q \o r)[i + Len(q)] = r[i]
      BY <2>1
    <3>2. QED
      BY <2>1, <3>1 DEF Range
  <2>5. QED
    BY <2>1, <2>2, <2>3, <2>4
<1>4. ASSUME q # <<>> PROVE Head(q) \in S /\ Tail(q) \in Seq(S) /\ Range(q) = {Head(q)} \cup Range(Tail(q))
  <2>1. /\ Head(q) \in S /\ Tail(q) \in Seq(S) /\ Len(q) \in Nat /\ Len(q) > 0 /\ Head(q) = q[1] /\ Len(Tail(q)) = Len(q) - 1
        /\ \A i \in 1..(Len(q) - 1) : Tail(q)[i] = q[i + 1]
    BY <1>4, HeadTailProperties
  <2>2. DOMAIN q = 1..Len(q) /\ DOMAIN Tail(q) = 1..(Len(q) - 1)
    BY <2>1
  <2>3. ASSUME NEW i \in 1..Len(q) PROVE q[i] \in {Head(q)} \cup Range(Tail(q))
    <3>1. CASE i = 1
      BY <2>1, <3>1
    <3>2. CASE i # 1
      <4>1. i - 1 \in 1..(Len(q) - 1) /\ Tail(q)[i - 1] = q[i]
        BY <2>1, <3>2
      <4>2. QED
        BY <2>2, <4>1 DEF Range
    <3>3. QED
      BY <3>1, <3>2
  <2>4. ASSUME NEW i \in 1..(Len(q) - 1) PROVE Tail(q)[i] \in Range(q)
    <3>1. i + 1 \in 1..Len(q)
      BY <2>1
    <3>2. QED
      BY <2>1, <2>2, <3>1 DEF Range
  <2>5. Head(q) \in Range(q)
    BY <2>1, <2>2 DEF Range
  <2>6. Range(q) \subseteq {Head(q)} \cup Range(Tail(q))
    BY <2>2, <2>3 DEF Range
  <2>7. Range(Tail(q)) \subseteq Range(q)
    BY <2>2, <2>4 DEF Range
  <2>8. QED
    BY <2>1, <2>5, <2>6, <2>7
<1>5. QED
  BY <1>1, <1>2, <1>3, <1>4

(* Types. *)
Asking == [kind : {"write", "read", "subscribe"}, paths : SUBSET Controls, value : Nat]
Relayed == [kind : {"write", "read", "back"}, paths : SUBSET Controls, value : Nat]
Told == [kind : {"push", "asked", "reply"}, path : Controls, value : Nat] \cup [kind : {"PROTECTED"}]
Said == [kind : {"push"}, to : OscApps \cup {Blank}, path : Controls, value : Nat]
           \cup [kind : {"read", "back"}, to : OscApps, path : Controls, value : Nat]
OscTypes ==
    /\ onDesk \in [Controls -> Nat] /\ shown \in [OscApps -> [Controls -> Nat \cup {Blank}]]
    /\ subscribed \in [OscApps -> BOOLEAN] /\ moves \in Nat
    /\ toBridge \in [OscApps -> Seq(Asking)] /\ toApp \in [OscApps -> Seq(Told)] /\ upstream \in [OscApps -> Seq(Relayed)]
    /\ fromConsole \in Seq(Said) /\ timers \in [OscApps -> Seq(SUBSET Controls)] /\ snapBacks \in [OscApps -> SUBSET Controls]

(* Of a control of an app: what is still to come for it; what it will show *)
(* when it has taken all that was sent to it; and that a read for a refused *)
(* write is on its way as long as its answer is to be pushed.              *)
AsksOf(q, p) == \E m \in Range(q) : m.kind \in {"write", "read"} /\ p \in m.paths
Speaks(m, p) == m.kind \in {"push", "asked"} /\ m.path = p
Ends(q, p, x, d) ==
    /\ \A i \in 1..Len(q) : Speaks(q[i], p) /\ (\A j \in 1..Len(q) : j > i => ~Speaks(q[j], p)) => q[i].value = d
    /\ (\A i \in 1..Len(q) : ~Speaks(q[i], p)) => x = d
Concerns(m, a, p) == m.path = p /\ (m.kind = "push" \/ (m.kind = "read" /\ m.to = a))
Coming(a, p) ==
    \/ AsksOf(toBridge[a], p) \/ (\E x \in Range(timers[a]) : p \in x) \/ AsksOf(upstream[a], p) \/ p \in snapBacks[a]
    \/ \E m \in Range(fromConsole) : Concerns(m, a, p)
Shows(a, p) == subscribed[a] => Coming(a, p) \/ Ends(toApp[a], p, shown[a][p], onDesk[p])
Retrieved(a, p) ==
    p \in snapBacks[a] => \/ \E m \in Range(upstream[a]) : m.kind \in {"read", "back"} /\ p \in m.paths
                          \/ \E m \in Range(fromConsole) : m.kind # "push" /\ m.to = a /\ m.path = p
(* What the console said last of a node is what it has. *)
SaysLast(f, d) ==
    \A i \in 1..Len(f) : (\A j \in 1..Len(f) : j > i => ~(f[j].kind = "push" /\ f[j].path = f[i].path)) => f[i].value = d[f[i].path]
SaysTheChange(g, d, e) ==
    /\ \A m \in Range(g) : m.value = e[m.path]
    /\ \A p \in Controls : e[p] # d[p] => \E m \in Range(g) : m.kind = "push" /\ m.path = p
(* Who subscribes reads everything after. *)
ReadsAll(q) ==
    \A i \in 1..Len(q) : q[i].kind = "subscribe" =>
        \A p \in Controls : \E j \in 1..Len(q) : j > i /\ q[j].kind = "read" /\ p \in q[j].paths
OscInv ==
    /\ OscTypes /\ SaysLast(fromConsole, onDesk)
    /\ \A a \in OscApps : ReadsAll(toBridge[a]) /\ \A p \in Controls : Shows(a, p) /\ Retrieved(a, p)

LEMMA EndsTail ==
    ASSUME NEW q \in Seq(Told), q # <<>>, NEW p, NEW x, NEW d, Ends(q, p, x, d)
    PROVE  Ends(Tail(q), p, IF Speaks(Head(q), p) THEN Head(q).value ELSE x, d)
<1> DEFINE r == Tail(q)
<1>1. /\ Len(q) \in Nat /\ Len(q) > 0 /\ Head(q) = q[1] /\ Len(r) = Len(q) - 1
      /\ \A i \in 1..(Len(q) - 1) : r[i] = q[i + 1]
  BY HeadTailProperties
<1> HIDE DEF r
<1>2. ASSUME NEW i \in 1..Len(r), Speaks(r[i], p), \A j \in 1..Len(r) : j > i => ~Speaks(r[j], p)
      PROVE  r[i].value = d
  <2>1. i + 1 \in 1..Len(q) /\ r[i] = q[i + 1]
    BY <1>1
  <2>2. ASSUME NEW j \in 1..Len(q), j > i + 1 PROVE ~Speaks(q[j], p)
    <3>1. j - 1 \in 1..Len(r) /\ j - 1 > i /\ r[j - 1] = q[j]
      BY <1>1, <2>2
    <3>2. QED
      BY <1>2, <3>1
  <2>3. QED
    BY <1>2, <2>1, <2>2 DEF Ends
<1>3. ASSUME \A i \in 1..Len(r) : ~Speaks(r[i], p)
      PROVE  (IF Speaks(Head(q), p) THEN Head(q).value ELSE x) = d
  <2>1. ASSUME NEW j \in 1..Len(q), j > 1 PROVE ~Speaks(q[j], p)
    <3>1. j - 1 \in 1..Len(r) /\ r[j - 1] = q[j]
      BY <1>1, <2>1
    <3>2. QED
      BY <1>3, <3>1
  <2>2. 1 \in 1..Len(q)
    BY <1>1
  <2>3. CASE Speaks(q[1], p)
    <3>1. q[1].value = d
      BY <2>1, <2>2, <2>3 DEF Ends
    <3>2. QED
      BY <1>1, <2>3, <3>1
  <2>4. CASE ~Speaks(q[1], p)
    <3>1. \A i \in 1..Len(q) : ~Speaks(q[i], p)
      BY <1>1, <2>1, <2>4
    <3>2. x = d
      BY <3>1 DEF Ends
    <3>3. QED
      BY <1>1, <2>4, <3>2
  <2>5. QED
    BY <2>3, <2>4
<1>4. QED
  BY <1>2, <1>3 DEF Ends, r

LEMMA EndsAppend ==
    ASSUME NEW q \in Seq(Told), NEW m \in Told, NEW p, NEW x, NEW d,
           IF Speaks(m, p) THEN m.value = d ELSE Ends(q, p, x, d)
    PROVE  Ends(Append(q, m), p, x, d)
<1> DEFINE r == Append(q, m)
<1>1. Len(q) \in Nat /\ Len(r) = Len(q) + 1 /\ r[Len(q) + 1] = m /\ \A i \in 1..Len(q) : r[i] = q[i]
  OBVIOUS
<1> HIDE DEF r
<1>2. CASE Speaks(m, p)
  <2>1. ASSUME NEW i \in 1..Len(r), \A j \in 1..Len(r) : j > i => ~Speaks(r[j], p) PROVE i = Len(q) + 1
    <3>1. ~(Len(q) + 1 > i)
      BY <1>1, <1>2, <2>1
    <3>2. QED
      BY <1>1, <3>1
  <2>2. Len(q) + 1 \in 1..Len(r)
    BY <1>1
  <2>3. QED
    BY <1>1, <1>2, <2>1, <2>2 DEF Ends, r
<1>3. CASE ~Speaks(m, p)
  <2>0. Ends(q, p, x, d)
    BY <1>3
  <2>1. ASSUME NEW i \in 1..Len(r), Speaks(r[i], p), \A j \in 1..Len(r) : j > i => ~Speaks(r[j], p)
        PROVE  r[i].value = d
    <3>1. i \in 1..Len(q)
      BY <1>1, <1>3, <2>1
    <3>2. \A j \in 1..Len(q) : j > i => ~Speaks(q[j], p)
      BY <1>1, <2>1
    <3>3. QED
      BY <1>1, <2>0, <2>1, <3>1, <3>2 DEF Ends
  <2>2. ASSUME \A i \in 1..Len(r) : ~Speaks(r[i], p) PROVE x = d
    <3>1. \A i \in 1..Len(q) : ~Speaks(q[i], p)
      BY <1>1, <2>2
    <3>2. QED
      BY <2>0, <3>1 DEF Ends
  <2>3. QED
    BY <2>1, <2>2 DEF Ends, r
<1>4. QED
  BY <1>2, <1>3

(* The console says no more of a node than it has, and pushes every change. *)
LEMMA SaysLastMore ==
    ASSUME NEW f \in Seq(Said), NEW g \in Seq(Said), NEW d, NEW e, SaysLast(f, d), SaysTheChange(g, d, e)
    PROVE  SaysLast(f \o g, e)
<1> DEFINE h == f \o g
<1>1. /\ Len(f) \in Nat /\ Len(g) \in Nat /\ Len(h) = Len(f) + Len(g) /\ DOMAIN g = 1..Len(g)
      /\ \A i \in 1..Len(f) : h[i] = f[i] /\ i \in 1..Len(h)
      /\ \A i \in 1..Len(g) : h[i + Len(f)] = g[i] /\ i + Len(f) \in 1..Len(h)
  OBVIOUS
<1> HIDE DEF h
<1>2. SUFFICES ASSUME NEW i \in 1..Len(h), \A j \in 1..Len(h) : j > i => ~(h[j].kind = "push" /\ h[j].path = h[i].path)
               PROVE  h[i].value = e[h[i].path]
  BY DEF SaysLast, h
<1>3. CASE i > Len(f)
  <2>1. i - Len(f) \in 1..Len(g) /\ (i - Len(f)) + Len(f) = i
    BY <1>1, <1>3
  <2>2. h[i] = g[i - Len(f)] /\ g[i - Len(f)] \in Range(g)
    BY <1>1, <2>1 DEF Range
  <2>3. QED
    BY <2>2 DEF SaysTheChange
<1>4. CASE i <= Len(f)
  <2>1. i \in 1..Len(f) /\ h[i] = f[i]
    BY <1>1, <1>4
  <2>2. \A j \in 1..Len(f) : j > i => ~(f[j].kind = "push" /\ f[j].path = f[i].path)
    BY <1>1, <1>2, <2>1
  <2>3. f[i].value = d[f[i].path]
    BY <2>1, <2>2 DEF SaysLast
  <2>4. f[i].path \in Controls
    <3>1. f[i] \in Said
      BY <2>1, ElementOfSeq
    <3>2. QED
      BY <3>1 DEF Said
  <2>5. e[f[i].path] = d[f[i].path]
    <3> SUFFICES ASSUME e[f[i].path] # d[f[i].path] PROVE FALSE
      OBVIOUS
    <3>1. PICK k \in 1..Len(g) : g[k].kind = "push" /\ g[k].path = f[i].path
      BY <1>1, <2>4 DEF Range, SaysTheChange
    <3>2. k + Len(f) \in 1..Len(h) /\ k + Len(f) > i /\ h[k + Len(f)] = g[k]
      BY <1>1, <1>4
    <3>3. QED
      BY <1>2, <2>1, <3>1, <3>2
  <2>6. QED
    BY <2>1, <2>3, <2>5
<1>5. QED
  BY <1>1, <1>3, <1>4

LEMMA SaysLastTail ==
    ASSUME NEW f \in Seq(Said), f # <<>>, NEW d, SaysLast(f, d)
    PROVE  /\ SaysLast(Tail(f), d)
           /\ \/ Head(f).value = d[Head(f).path]
              \/ \E m \in Range(Tail(f)) : m.kind = "push" /\ m.path = Head(f).path
<1> DEFINE g == Tail(f)
<1>1. /\ Len(f) \in Nat /\ Len(f) > 0 /\ Head(f) = f[1] /\ Len(g) = Len(f) - 1 /\ DOMAIN g = 1..Len(g)
      /\ \A i \in 1..(Len(f) - 1) : g[i] = f[i + 1]
  BY HeadTailProperties
<1> HIDE DEF g
<1>2. ASSUME NEW i \in 1..Len(g), \A j \in 1..Len(g) : j > i => ~(g[j].kind = "push" /\ g[j].path = g[i].path)
      PROVE  g[i].value = d[g[i].path]
  <2>1. i + 1 \in 1..Len(f) /\ g[i] = f[i + 1]
    BY <1>1
  <2>2. ASSUME NEW j \in 1..Len(f), j > i + 1 PROVE ~(f[j].kind = "push" /\ f[j].path = f[i + 1].path)
    <3>1. j - 1 \in 1..Len(g) /\ j - 1 > i /\ g[j - 1] = f[j]
      BY <1>1, <2>2
    <3>2. QED
      BY <1>2, <2>1, <3>1
  <2>3. QED
    BY <2>1, <2>2 DEF SaysLast
<1>3. ASSUME ~\E m \in Range(g) : m.kind = "push" /\ m.path = f[1].path PROVE f[1].value = d[f[1].path]
  <2>1. ASSUME NEW j \in 1..Len(f), j > 1 PROVE ~(f[j].kind = "push" /\ f[j].path = f[1].path)
    <3>1. j - 1 \in 1..Len(g) /\ g[j - 1] = f[j]
      BY <1>1, <2>1
    <3>2. g[j - 1] \in Range(g)
      BY <1>1, <3>1 DEF Range
    <3>3. QED
      BY <1>3, <3>1, <3>2
  <2>2. 1 \in 1..Len(f)
    BY <1>1
  <2>3. QED
    BY <2>1, <2>2 DEF SaysLast
<1>4. SaysLast(g, d)
  BY <1>2 DEF SaysLast
<1>5. QED
  BY <1>1, <1>3, <1>4 DEF g

LEMMA ReadsAllTail ==
    ASSUME NEW q \in Seq(Asking), q # <<>>, ReadsAll(q)
    PROVE  /\ ReadsAll(Tail(q))
           /\ Head(q).kind = "subscribe" => \A p \in Controls : AsksOf(Tail(q), p)
<1> DEFINE r == Tail(q)
<1>1. /\ Len(q) \in Nat /\ Len(q) > 0 /\ Head(q) = q[1] /\ Len(r) = Len(q) - 1 /\ DOMAIN r = 1..Len(r)
      /\ \A i \in 1..(Len(q) - 1) : r[i] = q[i + 1]
  BY HeadTailProperties
<1> HIDE DEF r
<1>2. ASSUME NEW i \in 1..Len(q), q[i].kind = "subscribe", NEW p \in Controls
      PROVE  \E j \in 1..Len(r) : j > i - 1 /\ r[j].kind = "read" /\ p \in r[j].paths
  <2>1. PICK j \in 1..Len(q) : j > i /\ q[j].kind = "read" /\ p \in q[j].paths
    BY <1>2 DEF ReadsAll
  <2>2. j - 1 \in 1..Len(r) /\ j - 1 > i - 1 /\ r[j - 1] = q[j]
    BY <1>1, <2>1
  <2>3. QED
    BY <2>1, <2>2
<1>3. ReadsAll(r)
  <2> SUFFICES ASSUME NEW i \in 1..Len(r), r[i].kind = "subscribe", NEW p \in Controls
               PROVE  \E j \in 1..Len(r) : j > i /\ r[j].kind = "read" /\ p \in r[j].paths
    BY DEF ReadsAll
  <2>1. i + 1 \in 1..Len(q) /\ q[i + 1].kind = "subscribe" /\ (i + 1) - 1 = i
    BY <1>1
  <2>2. QED
    BY <1>2, <2>1
<1>4. ASSUME q[1].kind = "subscribe", NEW p \in Controls PROVE AsksOf(r, p)
  <2>1. 1 \in 1..Len(q)
    BY <1>1
  <2>2. PICK j \in 1..Len(r) : r[j].kind = "read" /\ p \in r[j].paths
    BY <1>2, <1>4, <2>1
  <2>3. r[j] \in Range(r)
    BY <1>1 DEF Range
  <2>4. QED
    BY <2>2, <2>3 DEF AsksOf
<1>5. QED
  BY <1>1, <1>3, <1>4 DEF r

LEMMA ReadsAllAppend ==
    ASSUME NEW q \in Seq(Asking), NEW m \in Asking, m.kind # "subscribe", ReadsAll(q)
    PROVE  ReadsAll(Append(q, m))
<1> DEFINE r == Append(q, m)
<1>1. Len(q) \in Nat /\ Len(r) = Len(q) + 1 /\ r[Len(q) + 1] = m /\ \A i \in 1..Len(q) : r[i] = q[i] /\ i \in 1..Len(r)
  OBVIOUS
<1> HIDE DEF r
<1>2. ASSUME NEW i \in 1..Len(r), r[i].kind = "subscribe", NEW p \in Controls
      PROVE  \E j \in 1..Len(r) : j > i /\ r[j].kind = "read" /\ p \in r[j].paths
  <2>1. i \in 1..Len(q) /\ q[i].kind = "subscribe"
    BY <1>1, <1>2
  <2>2. PICK j \in 1..Len(q) : j > i /\ q[j].kind = "read" /\ p \in q[j].paths
    BY <2>1 DEF ReadsAll
  <2>3. QED
    BY <1>1, <2>2
<1>3. QED
  BY <1>2 DEF ReadsAll, r

LEMMA ReadsAllSubscribed ==
    ASSUME NEW q \in Seq(Asking), NEW s \in Asking, NEW r \in Seq(Asking), \A m \in Range(r) : m.kind = "read",
           \A p \in Controls : \E m \in Range(r) : p \in m.paths
    PROVE  ReadsAll(q \o <<s>> \o r)
<1> DEFINE h == q \o <<s>> \o r
<1>1. /\ Len(q) \in Nat /\ Len(r) \in Nat /\ Len(h) = Len(q) + 1 + Len(r) /\ DOMAIN r = 1..Len(r)
      /\ \A i \in 1..Len(r) : h[i + (Len(q) + 1)] = r[i]
  OBVIOUS
<1> HIDE DEF h
<1>2. ASSUME NEW i \in 1..Len(h), h[i].kind = "subscribe", NEW p \in Controls
      PROVE  \E j \in 1..Len(h) : j > i /\ h[j].kind = "read" /\ p \in h[j].paths
  <2>1. i <= Len(q) + 1
    <3> SUFFICES ASSUME i > Len(q) + 1 PROVE FALSE
      BY <1>1
    <3>1. i - (Len(q) + 1) \in 1..Len(r) /\ (i - (Len(q) + 1)) + (Len(q) + 1) = i
      BY <1>1
    <3>2. h[i] = r[i - (Len(q) + 1)] /\ r[i - (Len(q) + 1)] \in Range(r)
      BY <1>1, <3>1 DEF Range
    <3>3. QED
      BY <1>2, <3>2
  <2>2. PICK j \in 1..Len(r) : p \in r[j].paths /\ r[j].kind = "read"
    BY <1>1 DEF Range
  <2>3. j + (Len(q) + 1) \in 1..Len(h) /\ j + (Len(q) + 1) > i /\ h[j + (Len(q) + 1)] = r[j]
    BY <1>1, <2>1
  <2>4. QED
    BY <2>2, <2>3
<1>3. QED
  BY <1>2 DEF ReadsAll, h

LEMMA OscInvInitially == OscInit => OscInv
<1>1. OscInit => OscTypes
  BY DEF OscInit, OscTypes
<1>2. Len(<<>>) = 0 /\ 1..0 = {}
  OBVIOUS
<1>3. OscInit => SaysLast(fromConsole, onDesk) /\ \A a \in OscApps : ReadsAll(toBridge[a])
  BY <1>2 DEF OscInit, SaysLast, ReadsAll
<1>4. QED
  BY <1>1, <1>3 DEF OscInit, OscInv, Shows, Retrieved

LEMMA ImageIsFinite ==
    ASSUME NEW P, IsFiniteSet(P), NEW f, DOMAIN f = P
    PROVE  IsFiniteSet({f[p] : p \in P})
<1> DEFINE T == {f[p] : p \in P}
           g == [p \in P |-> f[p]]
<1>1. g \in [P -> T] /\ \A t \in T : \E p \in P : g[p] = t
  OBVIOUS
<1>2. g \in Surjection(P, T)
  BY <1>1 DEF Surjection
<1>3. QED
  BY <1>2, FS_Surjection

(* A message for each of some nodes. *)
LEMMA OneOfEach ==
    ASSUME NEW P \in SUBSET Controls
    PROVE  /\ \A k : IsFiniteSet({[kind |-> k, paths |-> {p}, value |-> 0] : p \in P})
           /\ \A k, a, v : IsFiniteSet({[kind |-> k, to |-> a, path |-> p, value |-> v] : p \in P})
           /\ \A k, a, v : IsFiniteSet({[kind |-> k, to |-> a, path |-> p, value |-> v[p]] : p \in P})
<1>1. IsFiniteSet(P)
  BY BridgeOscAssumption, FS_Subset
<1>2. ASSUME NEW k PROVE IsFiniteSet({[kind |-> k, paths |-> {p}, value |-> 0] : p \in P})
  <2> DEFINE f == [p \in P |-> [kind |-> k, paths |-> {p}, value |-> 0]]
  <2>1. IsFiniteSet({f[p] : p \in P})
    <3>1. DOMAIN f = P
      OBVIOUS
    <3> HIDE DEF f
    <3>2. QED
      BY <1>1, <3>1, ImageIsFinite
  <2>2. QED
    BY <2>1
<1>3. ASSUME NEW k, NEW a, NEW v PROVE IsFiniteSet({[kind |-> k, to |-> a, path |-> p, value |-> v] : p \in P})
  <2> DEFINE f == [p \in P |-> [kind |-> k, to |-> a, path |-> p, value |-> v]]
  <2>1. IsFiniteSet({f[p] : p \in P})
    <3>1. DOMAIN f = P
      OBVIOUS
    <3> HIDE DEF f
    <3>2. QED
      BY <1>1, <3>1, ImageIsFinite
  <2>2. QED
    BY <2>1
<1>4. ASSUME NEW k, NEW a, NEW v PROVE IsFiniteSet({[kind |-> k, to |-> a, path |-> p, value |-> v[p]] : p \in P})
  <2> DEFINE f == [p \in P |-> [kind |-> k, to |-> a, path |-> p, value |-> v[p]]]
  <2>1. IsFiniteSet({f[p] : p \in P})
    <3>1. DOMAIN f = P
      OBVIOUS
    <3> HIDE DEF f
    <3>2. QED
      BY <1>1, <3>1, ImageIsFinite
  <2>2. QED
    BY <2>1
<1>5. QED
  BY <1>2, <1>3, <1>4

LEMMA JoinHas ==
    ASSUME NEW S, NEW q \in Seq(S), NEW r \in Seq(S)
    PROVE  (q \o r) \in Seq(S) /\ Range(q \o r) = Range(q) \cup Range(r)
BY QueueHas

(* A set whose members are of a kind, listed. *)
LEMMA ListHas ==
    ASSUME NEW S, NEW A \in SUBSET S, IsFiniteSet(A)
    PROVE  SetToSeq(A) \in Seq(S) /\ Range(SetToSeq(A)) = A
<1>1. SetToSeq(A) \in Seq(A) /\ Range(SetToSeq(A)) = A
  BY SetToSeqHas
<1>2. \A q \in Seq(A) : q \in Seq(S)
  OBVIOUS
<1>3. QED
  BY <1>1, <1>2

LEMMA UserMovesKeeps ==
    ASSUME OscInv, NEW b \in OscApps, NEW paths \in SUBSET Controls, UserMoves(b, paths)
    PROVE  OscInv'
<1> DEFINE m == [kind |-> "write", paths |-> paths, value |-> moves']
<1>0. /\ moves \in Nat /\ moves' = moves + 1 /\ toBridge' = [toBridge EXCEPT ![b] = Append(@, m)]
      /\ shown' = [shown EXCEPT ![b] = [p \in Controls |-> IF p \in paths THEN moves' ELSE @[p]]]
      /\ UNCHANGED <<onDesk, subscribed, toApp, upstream, fromConsole, timers, snapBacks>>
      /\ toBridge \in [OscApps -> Seq(Asking)] /\ shown \in [OscApps -> [Controls -> Nat \cup {Blank}]]
  BY DEF OscInv, OscTypes, UserMoves, Add
<1>1. m \in Asking /\ m.kind = "write" /\ m.paths = paths
  BY <1>0 DEF Asking
<1> HIDE DEF m
<1>2. /\ toBridge' \in [OscApps -> Seq(Asking)] /\ toBridge'[b] = Append(toBridge[b], m)
      /\ \A a \in OscApps : a # b => toBridge'[a] = toBridge[a] /\ shown'[a] = shown[a]
      /\ \A p \in Controls \ paths : shown'[b][p] = shown[b][p]
  BY <1>0, <1>1
<1>3. OscTypes'
  <2>1. moves' \in Nat /\ shown' \in [OscApps -> [Controls -> Nat \cup {Blank}]]
    BY <1>0
  <2>2. QED
    BY <1>0, <1>2, <2>1 DEF OscInv, OscTypes
<1>4. toBridge[b] \in Seq(Asking) /\ Range(toBridge'[b]) = Range(toBridge[b]) \cup {m}
  BY <1>0, <1>1, <1>2, QueueHas
<1>5. ASSUME NEW a \in OscApps PROVE ReadsAll(toBridge'[a])
  <2>1. ReadsAll(toBridge[a])
    BY DEF OscInv
  <2>2. CASE a = b
    BY <1>1, <1>2, <1>4, <2>1, <2>2, ReadsAllAppend
  <2>3. CASE a # b
    BY <1>2, <2>1, <2>3
  <2>4. QED
    BY <2>2, <2>3
<1>6. ASSUME NEW a \in OscApps, NEW p \in Controls PROVE Shows(a, p)' /\ Retrieved(a, p)'
  <2>1. Shows(a, p) /\ Retrieved(a, p)
    BY DEF OscInv
  <2>2. Retrieved(a, p)'
    BY <1>0, <2>1 DEF Retrieved
  <2>3. AsksOf(toBridge[a], p) => AsksOf(toBridge'[a], p)
    BY <1>2, <1>4 DEF AsksOf
  <2>4. Coming(a, p) => Coming(a, p)'
    BY <1>0, <2>3 DEF Coming
  <2>5. a = b /\ p \in paths => Coming(a, p)'
    BY <1>1, <1>4 DEF Coming, AsksOf
  <2>6. ~(a = b /\ p \in paths) => shown'[a][p] = shown[a][p]
    BY <1>2
  <2>7. QED
    BY <1>0, <2>1, <2>2, <2>4, <2>5, <2>6 DEF Shows
<1>7. QED
  BY <1>0, <1>3, <1>5, <1>6 DEF OscInv

LEMMA AppSubscribesKeeps ==
    ASSUME OscInv, NEW b \in OscApps, AppSubscribes(b)
    PROVE  OscInv'
<1> DEFINE m == [kind |-> "subscribe", paths |-> {}, value |-> 0]
           R == {[kind |-> "read", paths |-> {p}, value |-> 0] : p \in Controls}
           r == SetToSeq(R)
<1>0. /\ moves \in Nat /\ moves' = moves + 1 /\ toBridge' = [toBridge EXCEPT ![b] = toBridge[b] \o <<m>> \o r]
      /\ UNCHANGED <<onDesk, shown, subscribed, toApp, upstream, fromConsole, timers, snapBacks>>
      /\ toBridge \in [OscApps -> Seq(Asking)] /\ moves' \in Nat
  BY DEF OscInv, OscTypes, AppSubscribes
<1>1. m \in Asking /\ R \subseteq Asking /\ (\A x \in R : x.kind = "read") /\ \A p \in Controls : \E x \in R : p \in x.paths
  <2>1. m \in Asking
    BY DEF Asking
  <2>2. \A p \in Controls : [kind |-> "read", paths |-> {p}, value |-> 0] \in Asking
    BY DEF Asking
  <2>3. R \subseteq Asking
    BY <2>2
  <2>4. \A x \in R : x.kind = "read"
    OBVIOUS
  <2>5. ASSUME NEW p \in Controls PROVE \E x \in R : p \in x.paths
    <3>1. [kind |-> "read", paths |-> {p}, value |-> 0] \in R /\ p \in [kind |-> "read", paths |-> {p}, value |-> 0].paths
      OBVIOUS
    <3>2. QED
      BY <3>1
  <2>6. QED
    BY <2>1, <2>3, <2>4, <2>5
<1>2. r \in Seq(Asking) /\ Range(r) = R
  <2>1. IsFiniteSet(R)
    BY OneOfEach
  <2> HIDE DEF R
  <2>2. QED
    BY <1>1, <2>1, ListHas
<1> HIDE DEF m, R, r
<1>3. toBridge[b] \o <<m>> \in Seq(Asking) /\ (toBridge[b] \o <<m>>) \o r \in Seq(Asking)
      /\ Range(toBridge[b]) \subseteq Range((toBridge[b] \o <<m>>) \o r)
  <2> DEFINE one == <<m>>
             q == toBridge[b] \o one
  <2>1. one \in Seq(Asking) /\ toBridge[b] \in Seq(Asking)
    BY <1>0, <1>1
  <2>2. q \in Seq(Asking) /\ Range(toBridge[b]) \subseteq Range(q)
    <3>1. Range(q) = Range(toBridge[b]) \cup Range(one) /\ q \in Seq(Asking)
      <4> HIDE DEF one
      <4>1. QED
        BY <2>1, JoinHas
    <3>2. QED
      BY <3>1
  <2>3. (q \o r) \in Seq(Asking) /\ Range(q) \subseteq Range(q \o r)
    <3> HIDE DEF q
    <3>1. (q \o r) \in Seq(Asking) /\ Range(q \o r) = Range(q) \cup Range(r)
      BY <1>2, <2>2, JoinHas
    <3>2. QED
      BY <3>1
  <2>4. QED
    BY <2>2, <2>3
<1>4. /\ toBridge' \in [OscApps -> Seq(Asking)] /\ toBridge'[b] = (toBridge[b] \o <<m>>) \o r
      /\ \A a \in OscApps : a # b => toBridge'[a] = toBridge[a]
  BY <1>0, <1>3
<1>5. OscTypes'
  BY <1>0, <1>4 DEF OscInv, OscTypes
<1>6. ASSUME NEW a \in OscApps PROVE ReadsAll(toBridge'[a])
  <2>1. CASE a = b
    <3>1. ReadsAll(toBridge[b] \o <<m>> \o r)
      BY <1>0, <1>1, <1>2, ReadsAllSubscribed
    <3>2. QED
      BY <1>4, <2>1, <3>1
  <2>2. CASE a # b
    BY <1>4, <2>2 DEF OscInv
  <2>3. QED
    BY <2>1, <2>2
<1>7. ASSUME NEW a \in OscApps, NEW p \in Controls PROVE Shows(a, p)' /\ Retrieved(a, p)'
  <2>1. Shows(a, p) /\ Retrieved(a, p)
    BY DEF OscInv
  <2>2. AsksOf(toBridge[a], p) => AsksOf(toBridge'[a], p)
    BY <1>3, <1>4 DEF AsksOf
  <2>3. Coming(a, p) => Coming(a, p)'
    BY <1>0, <2>2 DEF Coming
  <2>4. QED
    BY <1>0, <2>1, <2>3 DEF Shows, Retrieved
<1>8. QED
  BY <1>0, <1>5, <1>6, <1>7 DEF OscInv

LEMMA AppReceivesKeeps ==
    ASSUME OscInv, NEW b \in OscApps, AppReceives(b)
    PROVE  OscInv'
<1> DEFINE m == Head(toApp[b])
<1>0. /\ toApp[b] # <<>> /\ toApp' = [toApp EXCEPT ![b] = Tail(toApp[b])]
      /\ IF m.kind \in {"push", "asked"} THEN shown' = [shown EXCEPT ![b][m.path] = m.value] ELSE UNCHANGED shown
      /\ UNCHANGED <<onDesk, subscribed, toBridge, upstream, fromConsole, timers, snapBacks, moves>>
      /\ toApp \in [OscApps -> Seq(Told)] /\ toApp[b] \in Seq(Told) /\ shown \in [OscApps -> [Controls -> Nat \cup {Blank}]]
  BY DEF OscInv, OscTypes, AppReceives, Drop
<1>1. m \in Told /\ Tail(toApp[b]) \in Seq(Told)
  BY <1>0, QueueHas
<1>2. m.kind \in {"push", "asked"} => m.path \in Controls /\ m.value \in Nat
  BY <1>1 DEF Told
<1> HIDE DEF m
<1>3. /\ toApp' \in [OscApps -> Seq(Told)] /\ toApp'[b] = Tail(toApp[b])
      /\ \A a \in OscApps : a # b => toApp'[a] = toApp[a]
  BY <1>0, <1>1
<1>4. shown' \in [OscApps -> [Controls -> Nat \cup {Blank}]]
  <2>1. CASE m.kind \in {"push", "asked"}
    <3>1. m.path \in Controls /\ m.value \in Nat \cup {Blank} /\ shown' = [shown EXCEPT ![b][m.path] = m.value]
      BY <1>0, <1>2, <2>1
    <3>2. QED
      BY <1>0, <3>1
  <2>2. CASE m.kind \notin {"push", "asked"}
    BY <1>0, <2>2
  <2>3. QED
    BY <2>1, <2>2
<1>5. \A a \in OscApps, p \in Controls : shown'[a][p] = IF a = b /\ Speaks(m, p) THEN m.value ELSE shown[a][p]
  BY <1>0, <1>2 DEF Speaks
<1>6. OscTypes'
  BY <1>0, <1>3, <1>4 DEF OscInv, OscTypes
<1>7. ASSUME NEW a \in OscApps, NEW p \in Controls PROVE Shows(a, p)' /\ Retrieved(a, p)'
  <2>1. Shows(a, p) /\ Retrieved(a, p)
    BY DEF OscInv
  <2>2. Coming(a, p)' = Coming(a, p)
    BY <1>0 DEF Coming
  <2>3. Retrieved(a, p)'
    BY <1>0, <2>1 DEF Retrieved
  <2>4. Ends(toApp[a], p, shown[a][p], onDesk[p]) => Ends(toApp'[a], p, shown'[a][p], onDesk[p])
    <3>1. CASE a = b
      <4>1. Ends(toApp[b], p, shown[b][p], onDesk[p])
               => Ends(Tail(toApp[b]), p, IF Speaks(m, p) THEN m.value ELSE shown[b][p], onDesk[p])
        BY <1>0, EndsTail DEF m
      <4>2. QED
        BY <1>3, <1>5, <3>1, <4>1
    <3>2. CASE a # b
      BY <1>3, <1>5, <3>2
    <3>3. QED
      BY <3>1, <3>2
  <2>5. QED
    BY <1>0, <2>1, <2>2, <2>3, <2>4 DEF Shows
<1>8. QED
  BY <1>0, <1>6, <1>7 DEF OscInv

LEMMA ClientMessageKeeps ==
    ASSUME OscInv, NEW b \in OscApps, ClientMessage(b)
    PROVE  OscInv'
<1> DEFINE m == Head(toBridge[b])
           refused == m.kind = "write" /\ Refusal(m.paths)
           protected == [kind |-> "PROTECTED"]
<1>0. /\ toBridge[b] # <<>> /\ toBridge' = [toBridge EXCEPT ![b] = Tail(toBridge[b])]
      /\ subscribed' = [subscribed EXCEPT ![b] = subscribed[b] \/ m.kind = "subscribe"]
      /\ upstream' = (IF m.kind = "subscribe" \/ refused THEN upstream ELSE [upstream EXCEPT ![b] = Append(@, m)])
      /\ timers' = (IF refused THEN [timers EXCEPT ![b] = Append(@, m.paths)] ELSE timers)
      /\ toApp' = toApp \/ toApp' = [toApp EXCEPT ![b] = Append(@, protected)]
      /\ UNCHANGED <<onDesk, shown, fromConsole, snapBacks, moves>>
  BY DEF ClientMessage, Drop, Add, ReadBack
<1>1. /\ toBridge \in [OscApps -> Seq(Asking)] /\ upstream \in [OscApps -> Seq(Relayed)] /\ timers \in [OscApps -> Seq(SUBSET Controls)]
      /\ toApp \in [OscApps -> Seq(Told)] /\ subscribed \in [OscApps -> BOOLEAN]
      /\ toBridge[b] \in Seq(Asking) /\ upstream[b] \in Seq(Relayed) /\ timers[b] \in Seq(SUBSET Controls) /\ toApp[b] \in Seq(Told)
  BY DEF OscInv, OscTypes
<1>2. /\ m \in Asking /\ Tail(toBridge[b]) \in Seq(Asking) /\ Range(toBridge[b]) = {m} \cup Range(Tail(toBridge[b]))
  BY <1>0, <1>1, QueueHas
<1>3. /\ protected \in Told /\ (\A p \in Controls : ~Speaks(protected, p))
  BY DEF Told, Speaks
<1>4. /\ m.kind \in {"write", "read", "subscribe"} /\ m.paths \in SUBSET Controls /\ (m.kind # "subscribe" => m \in Relayed)
  BY <1>2 DEF Asking, Relayed
<1> HIDE DEF m, refused, protected
<1>5. refused => m.kind = "write"
  BY DEF refused
<1>6. /\ toBridge' \in [OscApps -> Seq(Asking)] /\ toBridge'[b] = Tail(toBridge[b])
      /\ \A a \in OscApps : a # b => toBridge'[a] = toBridge[a]
  BY <1>0, <1>1, <1>2
<1>7. /\ upstream' \in [OscApps -> Seq(Relayed)] /\ (\A a \in OscApps : a # b => upstream'[a] = upstream[a])
      /\ Range(upstream[b]) \subseteq Range(upstream'[b]) /\ (m.kind # "subscribe" /\ ~refused => m \in Range(upstream'[b]))
  <2>1. CASE m.kind = "subscribe" \/ refused
    BY <1>0, <1>1, <2>1
  <2>2. CASE ~(m.kind = "subscribe" \/ refused)
    <3>1. m \in Relayed /\ Append(upstream[b], m) \in Seq(Relayed) /\ Range(Append(upstream[b], m)) = Range(upstream[b]) \cup {m}
      BY <1>1, <1>4, <2>2, QueueHas
    <3>2. upstream' = [upstream EXCEPT ![b] = Append(upstream[b], m)]
      BY <1>0, <2>2
    <3>3. QED
      BY <1>1, <3>1, <3>2
  <2>3. QED
    BY <2>1, <2>2
<1>8. /\ timers' \in [OscApps -> Seq(SUBSET Controls)] /\ (\A a \in OscApps : a # b => timers'[a] = timers[a])
      /\ Range(timers[b]) \subseteq Range(timers'[b]) /\ (refused => m.paths \in Range(timers'[b]))
  <2>1. CASE ~refused
    BY <1>0, <1>1, <2>1
  <2>2. CASE refused
    <3>1. Append(timers[b], m.paths) \in Seq(SUBSET Controls) /\ Range(Append(timers[b], m.paths)) = Range(timers[b]) \cup {m.paths}
      <4> DEFINE S == SUBSET Controls
      <4>1. m.paths \in S /\ timers[b] \in Seq(S)
        BY <1>1, <1>4
      <4> HIDE DEF S
      <4>2. Append(timers[b], m.paths) \in Seq(S) /\ Range(Append(timers[b], m.paths)) = Range(timers[b]) \cup {m.paths}
        BY <4>1, QueueHas
      <4>3. QED
        BY <4>2 DEF S
    <3>2. timers' = [timers EXCEPT ![b] = Append(timers[b], m.paths)]
      BY <1>0, <2>2
    <3>3. QED
      BY <1>1, <3>1, <3>2
  <2>3. QED
    BY <2>1, <2>2
<1>9. /\ toApp' \in [OscApps -> Seq(Told)] /\ (\A a \in OscApps : a # b => toApp'[a] = toApp[a])
      /\ (toApp'[b] = toApp[b] \/ toApp'[b] = Append(toApp[b], protected))
  <2>1. CASE toApp' = toApp
    BY <1>1, <2>1
  <2>2. CASE toApp' = [toApp EXCEPT ![b] = Append(@, protected)]
    <3>1. Append(toApp[b], protected) \in Seq(Told)
      BY <1>1, <1>3
    <3>2. QED
      BY <1>1, <2>2, <3>1
  <2>3. QED
    BY <1>0, <2>1, <2>2
<1>10. OscTypes'
  <2>1. subscribed' \in [OscApps -> BOOLEAN]
    BY <1>0, <1>1
  <2>2. QED
    BY <1>0, <1>6, <1>7, <1>8, <1>9, <2>1 DEF OscInv, OscTypes
<1>11. ReadsAll(toBridge'[b]) /\ (m.kind = "subscribe" => \A p \in Controls : AsksOf(toBridge'[b], p))
  <2>1. ReadsAll(toBridge[b])
    BY DEF OscInv
  <2>2. QED
    BY <1>0, <1>1, <1>6, <2>1, ReadsAllTail DEF m
<1>12. ASSUME NEW a \in OscApps PROVE ReadsAll(toBridge'[a])
  BY <1>6, <1>11 DEF OscInv
<1>13. ASSUME NEW p \in Controls PROVE Shows(b, p)' /\ Retrieved(b, p)'
  <2>1. Shows(b, p) /\ Retrieved(b, p)
    BY DEF OscInv
  <2>2. Retrieved(b, p)'
    BY <1>0, <1>7, <2>1 DEF Retrieved
  <2>3. AsksOf(toBridge[b], p) => AsksOf(toBridge'[b], p) \/ AsksOf(upstream'[b], p) \/ \E x \in Range(timers'[b]) : p \in x
    <3> SUFFICES ASSUME NEW x \in Range(toBridge[b]), x.kind \in {"write", "read"}, p \in x.paths
                 PROVE  AsksOf(toBridge'[b], p) \/ AsksOf(upstream'[b], p) \/ \E y \in Range(timers'[b]) : p \in y
      BY DEF AsksOf
    <3>1. CASE x \in Range(Tail(toBridge[b]))
      BY <1>6, <3>1 DEF AsksOf
    <3>2. CASE x = m /\ refused
      BY <1>8, <3>2
    <3>3. CASE x = m /\ ~refused
      BY <1>7, <3>3 DEF AsksOf
    <3>4. QED
      BY <1>2, <3>1, <3>2, <3>3
  <2>4. AsksOf(upstream[b], p) => AsksOf(upstream'[b], p)
    BY <1>7 DEF AsksOf
  <2>5. (\E x \in Range(timers[b]) : p \in x) => (\E x \in Range(timers'[b]) : p \in x)
    BY <1>8
  <2>6. Coming(b, p) => Coming(b, p)'
    BY <1>0, <2>3, <2>4, <2>5 DEF Coming
  <2>7. m.kind = "subscribe" => Coming(b, p)'
    BY <1>11 DEF Coming
  <2>8. m.kind # "subscribe" => subscribed'[b] = subscribed[b]
    BY <1>0, <1>1
  <2>9. Ends(toApp[b], p, shown[b][p], onDesk[p]) => Ends(toApp'[b], p, shown[b][p], onDesk[p])
    BY <1>1, <1>3, <1>9, EndsAppend
  <2>10. QED
    BY <1>0, <2>1, <2>2, <2>6, <2>7, <2>8, <2>9 DEF Shows
<1>14. ASSUME NEW a \in OscApps, a # b, NEW p \in Controls PROVE Shows(a, p)' /\ Retrieved(a, p)'
  <2>1. Shows(a, p) /\ Retrieved(a, p)
    BY DEF OscInv
  <2>2. subscribed'[a] = subscribed[a]
    BY <1>0, <1>1, <1>14
  <2>3. QED
    BY <1>0, <1>6, <1>7, <1>8, <1>9, <1>14, <2>1, <2>2 DEF Shows, Retrieved, Coming
<1>15. QED
  BY <1>0, <1>10, <1>12, <1>13, <1>14 DEF OscInv

LEMMA SnapBackTimerKeeps ==
    ASSUME OscInv, NEW b \in OscApps, SnapBackTimer(b)
    PROVE  OscInv'
<1> DEFINE x == Head(timers[b])
           R == {[kind |-> "back", paths |-> {p}, value |-> 0] : p \in x}
           r == SetToSeq(R)
<1>0. /\ timers[b] # <<>> /\ timers' = [timers EXCEPT ![b] = Tail(timers[b])]
      /\ snapBacks' = [snapBacks EXCEPT ![b] = snapBacks[b] \cup x] /\ upstream' = [upstream EXCEPT ![b] = upstream[b] \o r]
      /\ UNCHANGED <<onDesk, shown, subscribed, toBridge, toApp, fromConsole, moves>>
  BY DEF SnapBackTimer, Drop
<1>1. /\ timers \in [OscApps -> Seq(SUBSET Controls)] /\ timers[b] \in Seq(SUBSET Controls)
      /\ upstream \in [OscApps -> Seq(Relayed)] /\ upstream[b] \in Seq(Relayed) /\ snapBacks \in [OscApps -> SUBSET Controls]
  BY DEF OscInv, OscTypes
<1>2. x \in SUBSET Controls /\ Tail(timers[b]) \in Seq(SUBSET Controls) /\ Range(timers[b]) = {x} \cup Range(Tail(timers[b]))
  BY <1>0, <1>1, QueueHas
<1> HIDE DEF x
<1>3. r \in Seq(Relayed) /\ Range(r) = R /\ \A p \in x : \E y \in R : y.kind = "back" /\ p \in y.paths
  <2>1. IsFiniteSet(R)
    BY <1>2, OneOfEach
  <2>2. \A p \in x : [kind |-> "back", paths |-> {p}, value |-> 0] \in Relayed
    BY <1>2 DEF Relayed
  <2>3. R \in SUBSET Relayed
    BY <2>2
  <2>4. ASSUME NEW p \in x PROVE \E y \in R : y.kind = "back" /\ p \in y.paths
    <3>1. [kind |-> "back", paths |-> {p}, value |-> 0] \in R /\ p \in [kind |-> "back", paths |-> {p}, value |-> 0].paths
      OBVIOUS
    <3>2. QED
      BY <3>1
  <2> HIDE DEF R
  <2>5. QED
    BY <2>1, <2>3, <2>4, ListHas
<1> HIDE DEF R, r
<1>4. (upstream[b] \o r) \in Seq(Relayed) /\ Range(upstream[b] \o r) = Range(upstream[b]) \cup R
  BY <1>1, <1>3, JoinHas
<1>5. /\ upstream' \in [OscApps -> Seq(Relayed)] /\ Range(upstream'[b]) = Range(upstream[b]) \cup R
      /\ timers' \in [OscApps -> Seq(SUBSET Controls)] /\ timers'[b] = Tail(timers[b])
      /\ snapBacks' \in [OscApps -> SUBSET Controls] /\ snapBacks'[b] = snapBacks[b] \cup x
      /\ \A a \in OscApps : a # b => upstream'[a] = upstream[a] /\ timers'[a] = timers[a] /\ snapBacks'[a] = snapBacks[a]
  BY <1>0, <1>1, <1>2, <1>4
<1>6. OscTypes'
  BY <1>0, <1>5 DEF OscInv, OscTypes
<1>7. ASSUME NEW p \in Controls PROVE Shows(b, p)' /\ Retrieved(b, p)'
  <2>1. Shows(b, p) /\ Retrieved(b, p)
    BY DEF OscInv
  <2>2. Retrieved(b, p)'
    BY <1>0, <1>3, <1>5, <2>1 DEF Retrieved
  <2>3. (\E y \in Range(timers[b]) : p \in y) => (\E y \in Range(timers'[b]) : p \in y) \/ p \in snapBacks'[b]
    BY <1>2, <1>5
  <2>4. AsksOf(upstream[b], p) => AsksOf(upstream'[b], p)
    BY <1>5 DEF AsksOf
  <2>5. Coming(b, p) => Coming(b, p)'
    BY <1>0, <1>5, <2>3, <2>4 DEF Coming
  <2>6. QED
    BY <1>0, <2>1, <2>2, <2>5 DEF Shows
<1>8. ASSUME NEW a \in OscApps, a # b, NEW p \in Controls PROVE Shows(a, p)' /\ Retrieved(a, p)'
  <2>1. Shows(a, p) /\ Retrieved(a, p)
    BY DEF OscInv
  <2>2. QED
    BY <1>0, <1>5, <1>8, <2>1 DEF Shows, Retrieved, Coming
<1>9. QED
  BY <1>0, <1>6, <1>7, <1>8 DEF OscInv

(* What the console says is put behind what it has said; where a value      *)
(* changes, a push of it is among it.                                       *)
LEMMA SaidKeeps ==
    ASSUME OscInv, NEW g \in Seq(Said), fromConsole' = fromConsole \o g, onDesk' \in [Controls -> Nat],
           \A m \in Range(g) : m.value = onDesk'[m.path],
           \A p \in Controls : onDesk'[p] # onDesk[p] => \E m \in Range(g) : m.kind = "push" /\ m.path = p,
           UNCHANGED <<shown, subscribed, toBridge, toApp, timers, snapBacks>>, moves' \in Nat,
           upstream' \in [OscApps -> Seq(Relayed)],
           \A a \in OscApps : \A x \in Range(upstream[a]) \ Range(upstream'[a]) : \A p \in x.paths :
               \E m \in Range(g) : /\ m.path = p
                                   /\ x.kind \in {"write", "read"} => Concerns(m, a, p)
                                   /\ x.kind \in {"read", "back"} => m.kind # "push" /\ m.to = a
    PROVE  OscInv'
<1>1. fromConsole \in Seq(Said) /\ fromConsole' \in Seq(Said) /\ Range(fromConsole') = Range(fromConsole) \cup Range(g)
  <2>1. fromConsole \in Seq(Said)
    BY DEF OscInv, OscTypes
  <2>2. QED
    BY <2>1, JoinHas
<1>2. OscTypes'
  BY <1>1 DEF OscInv, OscTypes
<1>3. SaysLast(fromConsole', onDesk')
  <2>1. SaysLast(fromConsole, onDesk)
    BY DEF OscInv
  <2>2. SaysTheChange(g, onDesk, onDesk')
    BY DEF SaysTheChange
  <2>3. SaysLast(fromConsole \o g, onDesk')
    BY <1>1, <2>1, <2>2, SaysLastMore
  <2>4. QED
    BY <2>3
<1>4. ASSUME NEW a \in OscApps, NEW p \in Controls PROVE Shows(a, p)' /\ Retrieved(a, p)'
  <2>1. Shows(a, p) /\ Retrieved(a, p)
    BY DEF OscInv
  <2>2. ASSUME NEW x \in Range(upstream[a]), x.kind \in {"read", "back"}, p \in x.paths
        PROVE  \/ \E m \in Range(upstream'[a]) : m.kind \in {"read", "back"} /\ p \in m.paths
               \/ \E m \in Range(fromConsole') : m.kind # "push" /\ m.to = a /\ m.path = p
    <3>1. CASE x \in Range(upstream'[a])
      BY <2>2, <3>1
    <3>2. CASE x \notin Range(upstream'[a])
      BY <1>1, <2>2, <3>2
    <3>3. QED
      BY <3>1, <3>2
  <2>3. Retrieved(a, p)'
    BY <1>1, <2>1, <2>2 DEF Retrieved
  <2>4. AsksOf(upstream[a], p) => AsksOf(upstream'[a], p) \/ \E m \in Range(fromConsole') : Concerns(m, a, p)
    <3> SUFFICES ASSUME NEW x \in Range(upstream[a]), x.kind \in {"write", "read"}, p \in x.paths
                 PROVE  AsksOf(upstream'[a], p) \/ \E m \in Range(fromConsole') : Concerns(m, a, p)
      BY DEF AsksOf
    <3>1. CASE x \in Range(upstream'[a])
      BY <3>1 DEF AsksOf
    <3>2. CASE x \notin Range(upstream'[a])
      BY <1>1, <3>2
    <3>3. QED
      BY <3>1, <3>2
  <2>5. Coming(a, p) => Coming(a, p)'
    BY <1>1, <2>4 DEF Coming
  <2>6. onDesk'[p] # onDesk[p] => Coming(a, p)'
    BY <1>1 DEF Coming, Concerns
  <2>7. QED
    BY <2>1, <2>3, <2>5, <2>6 DEF Shows
<1>5. QED
  BY <1>2, <1>3, <1>4 DEF OscInv

LEMMA HandAtDeskKeeps ==
    ASSUME OscInv, NEW p \in Controls, HandAtDesk(p)
    PROVE  OscInv'
<1> DEFINE m == [kind |-> "push", to |-> Blank, path |-> p, value |-> moves']
<1>1. /\ moves' \in Nat /\ onDesk' = [onDesk EXCEPT ![p] = moves'] /\ onDesk \in [Controls -> Nat]
      /\ fromConsole \in Seq(Said) /\ fromConsole' = Append(fromConsole, m) /\ upstream \in [OscApps -> Seq(Relayed)]
      /\ UNCHANGED <<shown, subscribed, toBridge, toApp, upstream, timers, snapBacks>>
  BY DEF HandAtDesk, OscInv, OscTypes
<1>2. m \in Said /\ m.kind = "push" /\ m.path = p /\ m.value = moves'
  BY <1>1 DEF Said
<1> HIDE DEF m
<1>3. <<m>> \in Seq(Said) /\ Range(<<m>>) = {m} /\ fromConsole' = fromConsole \o <<m>>
  BY <1>1, <1>2 DEF Range
<1>4. onDesk' \in [Controls -> Nat] /\ onDesk'[p] = moves' /\ \A o \in Controls : o # p => onDesk'[o] = onDesk[o]
  BY <1>1
<1> DEFINE g == <<m>>
<1>5. g \in Seq(Said) /\ Range(g) = {m} /\ fromConsole' = fromConsole \o g
  BY <1>3
<1> HIDE DEF g
<1>6. QED
  BY <1>1, <1>2, <1>4, <1>5, SaidKeeps

LEMMA ConsoleHandlesKeeps ==
    ASSUME OscInv, NEW b \in OscApps, ConsoleHandles(b)
    PROVE  OscInv'
<1> DEFINE m == Head(upstream[b])
<1>0. /\ upstream[b] # <<>> /\ upstream' = [upstream EXCEPT ![b] = Tail(upstream[b])]
      /\ UNCHANGED <<shown, subscribed, toBridge, toApp, timers, snapBacks, moves>>
  BY DEF ConsoleHandles, Drop
<1>1. /\ upstream \in [OscApps -> Seq(Relayed)] /\ upstream[b] \in Seq(Relayed) /\ onDesk \in [Controls -> Nat]
      /\ fromConsole \in Seq(Said) /\ moves \in Nat
  BY DEF OscInv, OscTypes
<1>2. m \in Relayed /\ Tail(upstream[b]) \in Seq(Relayed) /\ Range(upstream[b]) = {m} \cup Range(Tail(upstream[b]))
  BY <1>0, <1>1, QueueHas
<1>3. m.kind \in {"write", "read", "back"} /\ m.paths \in SUBSET Controls /\ m.value \in Nat
  BY <1>2 DEF Relayed
<1>4. /\ upstream' \in [OscApps -> Seq(Relayed)]
      /\ \A a \in OscApps : \A x \in Range(upstream[a]) \ Range(upstream'[a]) : a = b /\ x = m
  <2>1. /\ upstream' \in [OscApps -> Seq(Relayed)] /\ upstream'[b] = Tail(upstream[b])
        /\ \A a \in OscApps : a # b => upstream'[a] = upstream[a]
    BY <1>0, <1>1, <1>2
  <2>2. QED
    BY <1>2, <2>1
<1>5. CASE m.kind = "write"
  <2> DEFINE G == {[kind |-> "push", to |-> b, path |-> p, value |-> m.value] : p \in m.paths}
             g == SetToSeq(G)
  <2>1. onDesk' = [p \in Controls |-> IF p \in m.paths THEN m.value ELSE onDesk[p]] /\ fromConsole' = fromConsole \o g
    BY <1>5 DEF ConsoleHandles
  <2> HIDE DEF m
  <2>2. IsFiniteSet(G)
    <3> DEFINE f == [p \in m.paths |-> [kind |-> "push", to |-> b, path |-> p, value |-> m.value]]
    <3>1. DOMAIN f = m.paths /\ IsFiniteSet(m.paths)
      BY <1>3, BridgeOscAssumption, FS_Subset
    <3> HIDE DEF f
    <3>2. IsFiniteSet({f[p] : p \in m.paths})
      BY <3>1, ImageIsFinite
    <3>3. QED
      BY <3>2 DEF f
  <2>3. \A p \in m.paths : [kind |-> "push", to |-> b, path |-> p, value |-> m.value] \in Said
    BY <1>3 DEF Said
  <2>4. G \in SUBSET Said
    BY <2>3
  <2>5. \A x \in G : x.kind = "push" /\ x.value = m.value /\ x.path \in m.paths
    OBVIOUS
  <2>6. ASSUME NEW p \in m.paths PROVE \E x \in G : x.kind = "push" /\ x.path = p
    <3>1. [kind |-> "push", to |-> b, path |-> p, value |-> m.value] \in G
      OBVIOUS
    <3>2. QED
      BY <3>1
  <2> HIDE DEF G
  <2>7. g \in Seq(Said) /\ Range(g) = G
    BY <2>2, <2>4, ListHas
  <2> HIDE DEF g
  <2>8. onDesk' \in [Controls -> Nat] /\ \A p \in Controls : onDesk'[p] = IF p \in m.paths THEN m.value ELSE onDesk[p]
    BY <1>1, <1>3, <2>1
  <2>9. \A x \in Range(g) : x.value = onDesk'[x.path]
    BY <1>3, <2>5, <2>7, <2>8
  <2>10. \A p \in Controls : onDesk'[p] # onDesk[p] => \E x \in Range(g) : x.kind = "push" /\ x.path = p
    BY <2>6, <2>7, <2>8
  <2>11. \A a \in OscApps : \A x \in Range(upstream[a]) \ Range(upstream'[a]) : \A p \in x.paths :
               \E n \in Range(g) : /\ n.path = p
                                   /\ x.kind \in {"write", "read"} => Concerns(n, a, p)
                                   /\ x.kind \in {"read", "back"} => n.kind # "push" /\ n.to = a
    BY <1>4, <1>5, <2>6, <2>7 DEF Concerns
  <2>12. QED
    BY <1>0, <1>1, <1>4, <2>1, <2>7, <2>8, <2>9, <2>10, <2>11, SaidKeeps
<1>6. CASE m.kind # "write"
  <2> DEFINE G == {[kind |-> m.kind, to |-> b, path |-> p, value |-> onDesk[p]] : p \in m.paths}
             g == SetToSeq(G)
  <2>1. onDesk' = onDesk /\ fromConsole' = fromConsole \o g
    BY <1>6 DEF ConsoleHandles
  <2> HIDE DEF m
  <2>2. IsFiniteSet(G)
    <3> DEFINE f == [p \in m.paths |-> [kind |-> m.kind, to |-> b, path |-> p, value |-> onDesk[p]]]
    <3>1. DOMAIN f = m.paths /\ IsFiniteSet(m.paths)
      BY <1>3, BridgeOscAssumption, FS_Subset
    <3> HIDE DEF f
    <3>2. IsFiniteSet({f[p] : p \in m.paths})
      BY <3>1, ImageIsFinite
    <3>3. QED
      BY <3>2 DEF f
  <2>3. \A p \in m.paths : [kind |-> m.kind, to |-> b, path |-> p, value |-> onDesk[p]] \in Said
    BY <1>1, <1>3, <1>6 DEF Said
  <2>4. G \in SUBSET Said
    BY <2>3
  <2>5. \A x \in G : x.value = onDesk[x.path]
    OBVIOUS
  <2>6. ASSUME NEW p \in m.paths PROVE \E x \in G : x.kind = m.kind /\ x.path = p /\ x.to = b
    <3>1. [kind |-> m.kind, to |-> b, path |-> p, value |-> onDesk[p]] \in G
      OBVIOUS
    <3>2. QED
      BY <3>1
  <2> HIDE DEF G
  <2>7. g \in Seq(Said) /\ Range(g) = G
    BY <2>2, <2>4, ListHas
  <2> HIDE DEF g
  <2>8. \A a \in OscApps : \A x \in Range(upstream[a]) \ Range(upstream'[a]) : \A p \in x.paths :
               \E n \in Range(g) : /\ n.path = p
                                   /\ x.kind \in {"write", "read"} => Concerns(n, a, p)
                                   /\ x.kind \in {"read", "back"} => n.kind # "push" /\ n.to = a
    BY <1>3, <1>4, <1>6, <2>6, <2>7 DEF Concerns
  <2>9. onDesk' \in [Controls -> Nat] /\ moves' \in Nat /\ (\A x \in Range(g) : x.value = onDesk'[x.path])
        /\ \A p \in Controls : onDesk'[p] # onDesk[p] => \E x \in Range(g) : x.kind = "push" /\ x.path = p
    BY <1>0, <1>1, <2>1, <2>5, <2>7
  <2>10. QED
    BY <1>0, <1>4, <2>1, <2>7, <2>8, <2>9, SaidKeeps
<1>7. QED
  BY <1>5, <1>6

LEMMA SubscriptionEndsKeeps ==
    ASSUME OscInv, NEW b \in OscApps, SubscriptionEnds(b)
    PROVE  OscInv'
<1>1. /\ subscribed' = [subscribed EXCEPT ![b] = FALSE] /\ subscribed \in [OscApps -> BOOLEAN] /\ moves' \in Nat
      /\ UNCHANGED <<onDesk, shown, toBridge, toApp, upstream, fromConsole, timers, snapBacks>>
  BY DEF OscInv, OscTypes, SubscriptionEnds
<1>2. OscTypes'
  BY <1>1 DEF OscInv, OscTypes
<1>3. ASSUME NEW a \in OscApps, NEW p \in Controls PROVE Shows(a, p)' /\ Retrieved(a, p)'
  <2>1. Shows(a, p) /\ Retrieved(a, p)
    BY DEF OscInv
  <2>2. subscribed'[a] => subscribed[a]
    BY <1>1
  <2>3. QED
    BY <1>1, <2>1, <2>2 DEF Shows, Retrieved, Coming
<1>4. QED
  BY <1>1, <1>2, <1>3 DEF OscInv

LEMMA JoinAppends ==
    ASSUME NEW S, NEW q \in Seq(S), NEW y \in S, NEW x \in S
    PROVE  /\ q \o <<>> = q /\ q \o <<x>> = Append(q, x) /\ q \o (<<y>> \o <<>>) = Append(q, y)
           /\ q \o (<<y>> \o <<x>>) = Append(Append(q, y), x)
           /\ Append(q, x) \in Seq(S) /\ Append(q, y) \in Seq(S) /\ Append(Append(q, y), x) \in Seq(S)
<1>1. /\ <<x>> \in Seq(S) /\ <<y>> \in Seq(S) /\ Append(q, x) \in Seq(S) /\ Append(q, y) \in Seq(S) /\ Append(Append(q, y), x) \in Seq(S)
  OBVIOUS
<1>2. q \o <<>> = q /\ <<y>> \o <<>> = <<y>>
  BY <1>1, ConcatEmptySeq
<1>3. q \o <<x>> = Append(q, x) /\ q \o <<y>> = Append(q, y) /\ Append(q, y) \o <<x>> = Append(Append(q, y), x)
  BY <1>1, AppendIsConcat
<1>4. q \o (<<y>> \o <<x>>) = (q \o <<y>>) \o <<x>>
  BY <1>1, ConcatAssociative
<1>5. QED
  BY <1>1, <1>2, <1>3, <1>4

LEMMA FromConsoleKeeps ==
    ASSUME OscInv, FromConsole
    PROVE  OscInv'
<1> DEFINE m == Head(fromConsole)
           snap == m.kind # "push" /\ m.path \in snapBacks[m.to]
           x == [kind |-> "push", path |-> m.path, value |-> m.value]
           y == [kind |-> IF m.kind = "read" THEN "asked" ELSE "reply", path |-> m.path, value |-> m.value]
           sends(a) == IF m.kind = "push" THEN IF subscribed[a] THEN <<x>> ELSE <<>>
                       ELSE IF a # m.to THEN <<>> ELSE <<y>> \o IF snap /\ subscribed[a] THEN <<x>> ELSE <<>>
<1>0. /\ fromConsole # <<>> /\ fromConsole' = Tail(fromConsole) /\ toApp' = [a \in OscApps |-> toApp[a] \o sends(a)]
      /\ snapBacks' = (IF snap THEN [snapBacks EXCEPT ![m.to] = @ \ {m.path}] ELSE snapBacks)
      /\ UNCHANGED <<onDesk, shown, subscribed, toBridge, upstream, timers, moves>>
  BY DEF FromConsole
<1>1. /\ fromConsole \in Seq(Said) /\ toApp \in [OscApps -> Seq(Told)] /\ subscribed \in [OscApps -> BOOLEAN]
      /\ snapBacks \in [OscApps -> SUBSET Controls] /\ SaysLast(fromConsole, onDesk)
  BY DEF OscInv, OscTypes
<1>2. /\ m \in Said /\ fromConsole' \in Seq(Said) /\ Range(fromConsole) = {m} \cup Range(fromConsole')
  BY <1>0, <1>1, QueueHas
<1>3. /\ SaysLast(fromConsole', onDesk)
      /\ m.value = onDesk[m.path] \/ \E n \in Range(fromConsole') : n.kind = "push" /\ n.path = m.path
  BY <1>0, <1>1, SaysLastTail
<1>4. m.path \in Controls /\ m.value \in Nat /\ m.kind \in {"push", "read", "back"} /\ (m.kind # "push" => m.to \in OscApps)
  BY <1>2 DEF Said
<1>5. /\ x \in Told /\ y \in Told /\ (\A p : Speaks(x, p) <=> p = m.path) /\ x.value = m.value /\ y.value = m.value
      /\ (\A p : Speaks(y, p) => p = m.path) /\ (m.kind = "read" => Speaks(y, m.path))
  BY <1>4 DEF Told, Speaks
<1>6. ASSUME NEW a \in OscApps
      PROVE  /\ toApp'[a] \in Seq(Told) /\ toApp'[a] \in {toApp[a], Append(toApp[a], x), Append(toApp[a], y), Append(Append(toApp[a], y), x)}
             /\ subscribed[a] /\ (m.kind = "push" \/ (snap /\ a = m.to))
                  => toApp'[a] \in {Append(toApp[a], x), Append(Append(toApp[a], y), x)}
             /\ m.kind = "read" /\ m.to = a => toApp'[a] \in {Append(toApp[a], y), Append(Append(toApp[a], y), x)}
  <2> HIDE DEF m, x, y
  <2>1. toApp[a] \in Seq(Told) /\ toApp'[a] = toApp[a] \o sends(a)
    BY <1>0, <1>1
  <2>2. /\ toApp[a] \o <<>> = toApp[a] /\ toApp[a] \o <<x>> = Append(toApp[a], x) /\ toApp[a] \o (<<y>> \o <<>>) = Append(toApp[a], y)
        /\ toApp[a] \o (<<y>> \o <<x>>) = Append(Append(toApp[a], y), x)
        /\ Append(toApp[a], x) \in Seq(Told) /\ Append(toApp[a], y) \in Seq(Told) /\ Append(Append(toApp[a], y), x) \in Seq(Told)
    BY <1>5, <2>1, JoinAppends
  <2>3. CASE m.kind = "push" /\ subscribed[a]
    BY <2>1, <2>2, <2>3
  <2>4. CASE m.kind = "push" /\ ~subscribed[a]
    BY <2>1, <2>2, <2>4
  <2>5. CASE m.kind # "push" /\ a # m.to
    BY <2>1, <2>2, <2>5
  <2>6. CASE m.kind # "push" /\ a = m.to /\ ~(snap /\ subscribed[a])
    <3>1. sends(a) = <<y>> \o <<>>
      BY <2>6
    <3>2. QED
      BY <2>1, <2>2, <2>6, <3>1
  <2>7. CASE m.kind # "push" /\ a = m.to /\ snap /\ subscribed[a]
    <3>1. sends(a) = <<y>> \o <<x>>
      BY <2>7
    <3>2. QED
      BY <2>1, <2>2, <2>7, <3>1
  <2>8. QED
    BY <2>3, <2>4, <2>5, <2>6, <2>7
<1>7. DOMAIN toApp' = OscApps /\ toApp' = [a \in OscApps |-> toApp'[a]]
  BY <1>0
<1>8. /\ snapBacks' \in [OscApps -> SUBSET Controls]
      /\ \A a \in OscApps : snapBacks'[a] = IF snap /\ a = m.to THEN snapBacks[a] \ {m.path} ELSE snapBacks[a]
  <2> HIDE DEF m
  <2>1. CASE snap
    <3>1. m.to \in OscApps /\ snapBacks' = [snapBacks EXCEPT ![m.to] = @ \ {m.path}]
      BY <1>0, <1>4, <2>1
    <3>2. QED
      BY <1>1, <2>1, <3>1
  <2>2. CASE ~snap
    BY <1>0, <1>1, <2>2
  <2>3. QED
    BY <2>1, <2>2
<1> HIDE DEF x, y, sends
<1>9. OscTypes'
  <2>1. toApp' \in [OscApps -> Seq(Told)]
    BY <1>6, <1>7
  <2>2. QED
    BY <1>0, <1>2, <1>8, <2>1 DEF OscInv, OscTypes
<1>10. ASSUME NEW a \in OscApps, NEW p \in Controls, p = m.path => m.value = onDesk[p],
              Ends(toApp[a], p, shown[a][p], onDesk[p]) \/ (subscribed[a] /\ p = m.path /\ (Concerns(m, a, p) \/ (snap /\ a = m.to)))
       PROVE  Ends(toApp'[a], p, shown[a][p], onDesk[p])
  <2> DEFINE E(q) == Ends(q, p, shown[a][p], onDesk[p])
             q == toApp[a]
  <2>1. q \in Seq(Told) /\ Append(q, y) \in Seq(Told)
    BY <1>1, <1>5
  <2>2. \A r \in Seq(Told) : /\ (E(r) \/ p = m.path) => E(Append(r, x))
                             /\ (E(r) \/ (p = m.path /\ m.kind = "read")) => E(Append(r, y))
    <3> SUFFICES ASSUME NEW r \in Seq(Told)
                 PROVE  /\ (E(r) \/ p = m.path) => E(Append(r, x))
                        /\ (E(r) \/ (p = m.path /\ m.kind = "read")) => E(Append(r, y))
      OBVIOUS
    <3>1. ASSUME E(r) \/ p = m.path PROVE E(Append(r, x))
      <4>1. IF Speaks(x, p) THEN x.value = onDesk[p] ELSE Ends(r, p, shown[a][p], onDesk[p])
        BY <1>5, <1>10, <3>1
      <4>2. QED
        BY <1>5, <4>1, EndsAppend
    <3>2. ASSUME E(r) \/ (p = m.path /\ m.kind = "read") PROVE E(Append(r, y))
      <4>1. IF Speaks(y, p) THEN y.value = onDesk[p] ELSE Ends(r, p, shown[a][p], onDesk[p])
        BY <1>5, <1>10, <3>2
      <4>2. QED
        BY <1>5, <4>1, EndsAppend
    <3>3. QED
      BY <3>1, <3>2
  <2> HIDE DEF E, m
  <2>3. CASE E(q)
    BY <1>6, <2>1, <2>2, <2>3 DEF E
  <2>4. CASE subscribed[a] /\ p = m.path /\ (m.kind = "push" \/ (snap /\ a = m.to))
    BY <1>6, <2>1, <2>2, <2>4 DEF E
  <2>5. CASE p = m.path /\ m.kind = "read" /\ m.to = a
    BY <1>6, <2>1, <2>2, <2>5 DEF E
  <2>6. QED
    BY <1>10, <2>3, <2>4, <2>5 DEF E, Concerns
<1> HIDE DEF m
<1>11. ASSUME NEW a \in OscApps, NEW p \in Controls PROVE Shows(a, p)' /\ Retrieved(a, p)'
  <2>1. Shows(a, p) /\ Retrieved(a, p)
    BY DEF OscInv
  <2>2. Retrieved(a, p)'
    <3>1. p \in snapBacks'[a] => p \in snapBacks[a] /\ ~(snap /\ a = m.to /\ p = m.path)
      BY <1>8
    <3>2. p \in snapBacks'[a] => ~(m.kind # "push" /\ m.to = a /\ m.path = p)
      BY <3>1
    <3>3. QED
      BY <1>0, <1>2, <2>1, <3>1, <3>2 DEF Retrieved
  <2>3. CASE p = m.path /\ m.value # onDesk[p]
    <3>1. Coming(a, p)'
      BY <1>3, <2>3 DEF Coming, Concerns
    <3>2. QED
      BY <2>2, <3>1 DEF Shows
  <2>4. CASE p = m.path => m.value = onDesk[p]
    <3>1. SUFFICES ASSUME subscribed[a] PROVE Coming(a, p)' \/ Ends(toApp'[a], p, shown[a][p], onDesk[p])
      BY <1>0, <2>2 DEF Shows
    <3>2. ASSUME Coming(a, p) PROVE Coming(a, p)' \/ (p = m.path /\ (Concerns(m, a, p) \/ (snap /\ a = m.to)))
      <4>1. CASE p \in snapBacks[a]
        BY <1>8, <4>1 DEF Coming
      <4>2. CASE \E n \in Range(fromConsole) : Concerns(n, a, p)
        BY <1>2, <4>2 DEF Coming, Concerns
      <4>3. CASE AsksOf(toBridge[a], p) \/ (\E z \in Range(timers[a]) : p \in z) \/ AsksOf(upstream[a], p)
        BY <1>0, <4>3 DEF Coming
      <4>4. QED
        BY <3>2, <4>1, <4>2, <4>3 DEF Coming
    <3>3. QED
      BY <1>10, <2>1, <2>4, <3>1, <3>2 DEF Shows
  <2>5. QED
    BY <2>3, <2>4
<1>12. QED
  BY <1>0, <1>3, <1>9, <1>11 DEF OscInv

LEMMA OscInvKept == OscInv /\ [OscNext]_bridgeOscVars => OscInv'
<1> SUFFICES ASSUME OscInv, [OscNext]_bridgeOscVars PROVE OscInv'
  OBVIOUS
<1>1. CASE \E a \in OscApps : AppSubscribes(a) \/ AppReceives(a)
  BY <1>1, AppSubscribesKeeps, AppReceivesKeeps
<1>2. CASE \E a \in OscApps : ClientMessage(a) \/ SnapBackTimer(a)
  BY <1>2, ClientMessageKeeps, SnapBackTimerKeeps
<1>3. CASE \E a \in OscApps : ConsoleHandles(a) \/ SubscriptionEnds(a)
  BY <1>3, ConsoleHandlesKeeps, SubscriptionEndsKeeps
<1>4. CASE \E a \in OscApps : \E paths \in SUBSET Controls : UserMoves(a, paths)
  BY <1>4, UserMovesKeeps
<1>5. CASE \E p \in Controls : HandAtDesk(p)
  BY <1>5, HandAtDeskKeeps
<1>6. CASE FromConsole
  BY <1>6, FromConsoleKeeps
<1>7. CASE UNCHANGED bridgeOscVars
  BY <1>7 DEF bridgeOscVars, OscInv, OscTypes, Shows, Retrieved, Coming
<1>8. QED
  BY <1>1, <1>2, <1>3, <1>4, <1>5, <1>6, <1>7 DEF OscNext

LEMMA OscInvShows == OscInv => AppsShowTheConsole
<1> SUFFICES ASSUME OscInv, fromConsole = <<>>, NEW a \in OscApps, subscribed[a], NEW p \in Controls,
                    toBridge[a] = <<>>, toApp[a] = <<>>, upstream[a] = <<>>, timers[a] = <<>>
             PROVE  shown[a][p] = onDesk[p]
  BY DEF AppsShowTheConsole
<1>1. Range(<<>>) = {} /\ Len(<<>>) = 0 /\ 1..0 = {}
  BY DEF Range
<1>2. ~Coming(a, p)
  BY <1>1 DEF OscInv, Retrieved, Coming, AsksOf
<1>3. QED
  BY <1>1, <1>2 DEF OscInv, Shows, Ends

(* Once nothing is under way between the apps, the bridge and the console,  *)
(* every subscribed app shows what the console has, for any number of apps, *)
(* of nodes and of refused writes.                                          *)
THEOREM AppsShowWhatTheConsoleHas == OscSpec => []AppsShowTheConsole
<1>1. OscInit => OscInv
  BY OscInvInitially
<1>2. OscInv /\ [OscNext]_bridgeOscVars => OscInv'
  BY OscInvKept
<1>3. OscInv => AppsShowTheConsole
  BY OscInvShows
<1>4. QED
  BY <1>1, <1>2, <1>3, PTL DEF OscSpec

(* The apps, the queues and the console's replies keep their types, for any *)
(* number of apps and nodes.                                                *)
THEOREM OscTypesCorrect == OscSpec => []OscTypes
<1>1. OscInv => OscTypes
  BY DEF OscInv
<1>2. QED
  BY <1>1, OscInvInitially, OscInvKept, PTL DEF OscSpec

-----------------------------------------------------------------------------
(* WingNativeProxy *)

(* Induction over the naturals, with a set for the property.               *)

LEMMA LeastNumber ==
    ASSUME NEW T, T \subseteq Nat, T # {}
    PROVE  \E x \in T : \A y \in T : ~(y < x)
<1> DEFINE R == OpToRel(<, Nat)
<1>1. \A x, y \in Nat : <<y, x>> \in R <=> y < x
  BY DEF OpToRel
<1>2. IsWellFoundedOn(R, Nat)
  BY NatLessThanWellFounded, Zenon DEF R
<1> HIDE DEF R
<1>3. \E x \in T : \A y \in T : ~(<<y, x>> \in R)
  BY <1>2, WFMin
<1>4. QED
  BY <1>1, <1>3

LEMMA UpTo ==
    ASSUME NEW m \in Nat, NEW T, T \subseteq 0..m, 0 \in T, \A n \in T : n < m => n + 1 \in T
    PROVE  T = 0..m
<1> SUFFICES ASSUME (0..m) \ T # {} PROVE FALSE
  OBVIOUS
<1>1. (0..m) \ T \subseteq Nat
  OBVIOUS
<1>2. PICK x \in (0..m) \ T : \A y \in (0..m) \ T : ~(y < x)
  BY <1>1, LeastNumber
<1>3. x - 1 \in 0..m /\ x - 1 < x /\ x - 1 < m /\ (x - 1) + 1 = x
  BY <1>2
<1>4. x - 1 \in T
  BY <1>2, <1>3
<1>5. QED
  BY <1>3, <1>4

-----------------------------------------------------------------------------
(* What waits once a tablet has left.                                      *)

\* v is what h picks of the first n of w, in their order.
Picks(v, w, n, h) ==
    /\ h \in [1..Len(v) -> 1..n]
    /\ \A i, j \in 1..Len(v) : i < j => h[i] < h[j]
    /\ \A i \in 1..Len(v) : v[i] = w[h[i]]

Filtered(g, w, t, i) ==
    IF i = 0 THEN << >> ELSE IF w[i].by = t THEN g[i - 1] ELSE Append(g[i - 1], w[i])

FilteredTo(g, w, t, S, n) == g \in [0..n -> S] /\ \A i \in 0..n : g[i] = Filtered(g, w, t, i)

LEMMA WithoutIsDefined ==
    ASSUME NEW X, NEW w \in Seq(X), NEW t
    PROVE  \E g : Without(w, t) = g[Len(w)] /\ \A i \in 0..Len(w) : g[i] = Filtered(g, w, t, i)
<1> DEFINE m == Len(w)
           T == {n \in 0..m : \E g : FilteredTo(g, w, t, Seq(X), n)}
<1>1. m \in Nat
  OBVIOUS
<1>2. 0 \in T
  <2>1. PICK g : g = [i \in 0..0 |-> << >>]
    OBVIOUS
  <2>2. << >> \in Seq(X)
    OBVIOUS
  <2>3. FilteredTo(g, w, t, Seq(X), 0)
    BY <2>1, <2>2 DEF Filtered, FilteredTo
  <2>4. QED
    BY <1>1, <2>3
<1>3. ASSUME NEW n \in T, n < m PROVE n + 1 \in T
  <2>1. PICK g : FilteredTo(g, w, t, Seq(X), n)
    OBVIOUS
  <2>2. PICK e : e = IF w[n + 1].by = t THEN g[n] ELSE Append(g[n], w[n + 1])
    OBVIOUS
  <2>3. n \in Nat /\ n + 1 \in 1..m /\ w[n + 1] \in X
    BY <1>1, <1>3
  <2>4. e \in Seq(X)
    <3>1. g[n] \in Seq(X)
      BY <2>1, <2>3 DEF FilteredTo
    <3>2. QED
      BY <2>2, <2>3, <3>1, AppendProperties
  <2>5. PICK k : k = [i \in 0..n + 1 |-> IF i = n + 1 THEN e ELSE g[i]]
    OBVIOUS
  <2>6. k \in [0..n + 1 -> Seq(X)]
    BY <2>1, <2>3, <2>4, <2>5 DEF FilteredTo
  <2>7. \A i \in 0..n : k[i] = g[i]
    BY <2>3, <2>5
  <2>8. k[n + 1] = e
    BY <2>3, <2>5
  <2>9. ASSUME NEW i \in 0..n + 1 PROVE k[i] = Filtered(k, w, t, i)
    <3>1. CASE i = n + 1
      <4>1. i # 0 /\ i - 1 = n /\ k[i - 1] = g[n]
        BY <2>3, <2>7, <3>1
      <4>2. QED
        BY <2>2, <2>8, <3>1, <4>1 DEF Filtered
    <3>2. CASE i = 0
      <4>1. 0 \in 0..n /\ k[0] = g[0] /\ g[0] = Filtered(g, w, t, 0)
        BY <2>1, <2>3, <2>7 DEF FilteredTo
      <4>2. QED
        BY <3>2, <4>1 DEF Filtered
    <3>3. CASE i # n + 1 /\ i # 0
      <4>1. i \in 0..n /\ i - 1 \in 0..n
        BY <2>3, <3>3
      <4>2. k[i] = g[i] /\ k[i - 1] = g[i - 1]
        BY <2>7, <4>1
      <4>3. g[i] = Filtered(g, w, t, i)
        BY <2>1, <4>1 DEF FilteredTo
      <4>4. QED
        BY <3>3, <4>2, <4>3 DEF Filtered
    <3>4. QED
      BY <3>1, <3>2, <3>3
  <2>10. FilteredTo(k, w, t, Seq(X), n + 1)
    BY <2>6, <2>9 DEF FilteredTo
  <2>11. QED
    BY <2>3, <2>10
<1>4. T = 0..m
  <2> HIDE DEF T
  <2>1. T \subseteq 0..m
    BY DEF T
  <2>2. QED
    BY <1>1, <1>2, <1>3, <2>1, UpTo
<1>5. PICK g : FilteredTo(g, w, t, Seq(X), m)
  <2>1. m \in T
    BY <1>1, <1>4
  <2>2. QED
    BY <2>1
<1> DEFINE kept[i \in 0..Len(w)] ==
        IF i = 0 THEN << >> ELSE IF w[i].by = t THEN kept[i - 1] ELSE Append(kept[i - 1], w[i])
<1>6. \E f : f = [i \in 0..Len(w) |->
              IF i = 0 THEN << >> ELSE IF w[i].by = t THEN f[i - 1] ELSE Append(f[i - 1], w[i])]
  <2>1. g = [i \in 0..Len(w) |->
              IF i = 0 THEN << >> ELSE IF w[i].by = t THEN g[i - 1] ELSE Append(g[i - 1], w[i])]
    BY <1>5 DEF Filtered, FilteredTo
  <2>2. QED
    BY <2>1
<1>7. kept = [i \in 0..Len(w) |->
              IF i = 0 THEN << >> ELSE IF w[i].by = t THEN kept[i - 1] ELSE Append(kept[i - 1], w[i])]
  BY <1>6
<1>8. Without(w, t) = kept[Len(w)]
  BY DEF Without
<1>9. \A i \in 0..Len(w) : kept[i] = Filtered(kept, w, t, i)
  <2> HIDE DEF kept
  <2>1. QED
    BY <1>7 DEF Filtered
<1>10. QED
  <2> HIDE DEF kept
  <2>1. QED
    BY <1>8, <1>9

LEMMA WithoutPicks ==
    ASSUME NEW X, NEW w \in Seq(X), NEW t
    PROVE  Without(w, t) \in Seq(X) /\ \E h : Picks(Without(w, t), w, Len(w), h)
<1>1. PICK g : Without(w, t) = g[Len(w)] /\ \A i \in 0..Len(w) : g[i] = Filtered(g, w, t, i)
  BY WithoutIsDefined
<1> DEFINE m == Len(w)
           T == {n \in 0..m : g[n] \in Seq(X) /\ \E h : Picks(g[n], w, n, h)}
<1>2. m \in Nat
  OBVIOUS
<1>3. 0 \in T
  <2>1. g[0] = << >>
    BY <1>1, <1>2 DEF Filtered
  <2>2. PICK h : h = [i \in 1..0 |-> 0]
    OBVIOUS
  <2>3. Picks(<< >>, w, 0, h)
    BY <2>2 DEF Picks
  <2>4. g[0] \in Seq(X) /\ Picks(g[0], w, 0, h)
    BY <2>1, <2>3
  <2>5. QED
    BY <1>2, <2>4
<1>4. ASSUME NEW n \in T, n < m PROVE n + 1 \in T
  <2>1. PICK h : Picks(g[n], w, n, h)
    OBVIOUS
  <2>2. n \in Nat /\ n + 1 \in 0..m /\ n + 1 \in 1..m /\ w[n + 1] \in X /\ g[n] \in Seq(X)
    BY <1>2, <1>4
  <2>3. g[n + 1] = IF w[n + 1].by = t THEN g[n] ELSE Append(g[n], w[n + 1])
    <3>1. g[n + 1] = Filtered(g, w, t, n + 1)
      BY <1>1, <2>2
    <3>2. n + 1 # 0 /\ (n + 1) - 1 = n
      BY <2>2
    <3>3. QED
      BY <3>1, <3>2 DEF Filtered
  <2>4. PICK l \in Nat : l = Len(g[n])
    BY <2>2
  <2>5. /\ h \in [1..l -> 1..n]
        /\ \A i, j \in 1..l : i < j => h[i] < h[j]
        /\ \A i \in 1..l : g[n][i] = w[h[i]]
    BY <2>1, <2>4 DEF Picks
  <2>6. CASE g[n + 1] = g[n]
    <3>1. h \in [1..l -> 1..n + 1]
      BY <2>2, <2>5
    <3>2. Picks(g[n + 1], w, n + 1, h)
      BY <2>4, <2>5, <2>6, <3>1 DEF Picks
    <3>3. QED
      BY <2>2, <2>6, <3>2
  <2>7. CASE g[n + 1] = Append(g[n], w[n + 1])
    <3>1. PICK v : v = Append(g[n], w[n + 1])
      OBVIOUS
    <3>2. /\ v \in Seq(X) /\ Len(v) = l + 1 /\ v[l + 1] = w[n + 1]
          /\ \A i \in 1..l : v[i] = g[n][i]
      BY <2>2, <2>4, <3>1, AppendProperties
    <3>3. PICK k : k = [i \in 1..l + 1 |-> IF i = l + 1 THEN n + 1 ELSE h[i]]
      OBVIOUS
    <3>4. k \in [1..l + 1 -> 1..n + 1] /\ k[l + 1] = n + 1 /\ \A i \in 1..l : k[i] = h[i] /\ h[i] \in 1..n
      BY <2>2, <2>4, <2>5, <3>3
    <3>5. \A i \in 1..l + 1 : i \in 1..l \/ i = l + 1
      BY <2>4
    <3>6. \A i \in 1..l + 1 : v[i] = w[k[i]]
      BY <2>5, <3>2, <3>4, <3>5
    <3>7. \A i, j \in 1..l + 1 : i < j => k[i] < k[j]
      <4>1. TAKE i, j \in 1..l + 1
      <4>2. HAVE i < j
      <4>3. i \in 1..l
        BY <4>2, <2>4
      <4>4. CASE j = l + 1
        <5>1. k[i] \in 1..n /\ k[j] = n + 1
          BY <3>4, <4>3, <4>4
        <5>2. QED
          BY <2>2, <5>1
      <4>5. CASE j \in 1..l
        BY <2>5, <3>4, <4>2, <4>3, <4>5
      <4>6. QED
        BY <3>5, <4>4, <4>5
    <3>8. Picks(v, w, n + 1, k)
      BY <3>2, <3>4, <3>6, <3>7 DEF Picks
    <3>9. QED
      BY <2>2, <2>7, <3>1, <3>2, <3>8
  <2>8. QED
    BY <2>3, <2>6, <2>7
<1>5. T = 0..m
  <2> HIDE DEF T
  <2>1. T \subseteq 0..m
    BY DEF T
  <2>2. QED
    BY <1>2, <1>3, <1>4, <2>1, UpTo
<1>6. m \in T
  BY <1>2, <1>5
<1>7. QED
  BY <1>1, <1>6

-----------------------------------------------------------------------------
(* The map and its walk.                                                    *)

MapType ==
    [state : {"idle", "walking", "ready", "error"}, stale : BOOLEAN,
     walk : {"no", "dialing", "listing"}, awaits : SUBSET Nodes,
     targets : SUBSET Strips, late : SUBSET Tablets, complete : SUBSET Nodes,
     root : {"unknown", "right", "wrong"}]

\* A map that is ready, or will be when its walk ends, is of the safes S.
Fresh(m, S) == (m.state = "ready" \/ m.walk = "listing") /\ ~m.stale => S = {} \/ m.targets = S

Sound(m, S) == m \in MapType /\ (m.walk # "listing" => m.awaits = {}) /\ Fresh(m, S)

LEMMA FailedIsSound ==
    ASSUME NEW m \in MapType, NEW S
    PROVE  Sound(Failed(m), S) /\ Failed(m).awaits = {}
<1>1. Failed(m) \in MapType
  BY DEF Failed, MapType
<1>2. Failed(m).walk = "no" /\ Failed(m).state = "error" /\ Failed(m).awaits = {}
  BY DEF Failed, MapType
<1>3. QED
  BY <1>1, <1>2 DEF Sound, Fresh

LEMMA FinishedIsSound ==
    ASSUME NEW m, NEW S, m \in MapType, m.walk = "listing", m.awaits = {}, Fresh(m, S)
    PROVE  Sound(Finished(m), S) /\ Finished(m).awaits = {}
<1>1. Finished(m) \in MapType
  BY DEF Finished, MapType
<1>2. /\ Finished(m).walk = "no" /\ Finished(m).awaits = {} /\ Finished(m).targets = m.targets
      /\ Finished(m).state = IF m.stale THEN "walking" ELSE "ready"
  BY DEF Finished, MapType
<1>3. Finished(m).stale <=> m.stale
  BY DEF Finished, MapType
<1>4. QED
  BY <1>1, <1>2, <1>3 DEF Sound, Fresh

LEMMA ExpandIsSound ==
    ASSUME NEW m, NEW S, m \in MapType, m.walk = "listing", m.awaits = {}, Fresh(m, S)
    PROVE  Sound(Expand(m), S)
<1>1. CASE m.root # "right" \/ Root \notin learnt
  BY <1>1, FailedIsSound DEF Expand
<1>2. CASE ~(m.root # "right" \/ Root \notin learnt) /\ m.targets \subseteq m.complete
  BY <1>2, FinishedIsSound DEF Expand
<1>3. CASE ~(m.root # "right" \/ Root \notin learnt) /\ ~(m.targets \subseteq m.complete)
  <2>1. PICK e : e = [m EXCEPT !.awaits = m.targets \ m.complete]
    OBVIOUS
  <2>2. e \in MapType
    BY <2>1 DEF MapType, Nodes
  <2>3. e.walk = "listing" /\ e.state = m.state /\ e.targets = m.targets
    BY <2>1 DEF MapType
  <2>4. e.stale <=> m.stale
    BY <2>1 DEF MapType
  <2>5. Sound(e, S)
    BY <2>2, <2>3, <2>4 DEF Sound, Fresh
  <2>6. QED
    BY <1>3, <2>1, <2>5 DEF Expand
<1>4. QED
  BY <1>1, <1>2, <1>3

LEMMA ListingIsSound ==
    ASSUME NEW m, NEW S, m \in MapType, m.awaits = {}, S \subseteq Strips
    PROVE  Sound(Listing(m, S), S)
<1>1. PICK b : b = [m EXCEPT !.state = "walking", !.walk = "listing", !.stale = FALSE, !.targets = S, !.late = {}]
  OBVIOUS
<1>2. b \in MapType /\ b.walk = "listing" /\ b.targets = S /\ b.awaits = {}
  BY <1>1 DEF MapType
<1>3. Fresh(b, S)
  BY <1>2 DEF Fresh
<1>4. CASE S = {}
  <2>1. Listing(m, S) = Finished(b)
    BY <1>1, <1>4 DEF Listing
  <2>2. QED
    BY <1>2, <1>3, <2>1, FinishedIsSound
<1>5. CASE S # {} /\ Root \in m.complete
  <2>1. Listing(m, S) = Expand(b)
    BY <1>1, <1>5 DEF Listing
  <2>2. QED
    BY <1>2, <1>3, <2>1, ExpandIsSound
<1>6. CASE S # {} /\ Root \notin m.complete
  <2>1. PICK e : e = [b EXCEPT !.awaits = {Root}]
    OBVIOUS
  <2>2. e \in MapType /\ e.walk = "listing" /\ e.targets = S
    BY <1>2, <2>1 DEF MapType, Nodes
  <2>3. Listing(m, S) = e
    BY <1>1, <1>6, <2>1 DEF Listing
  <2>4. QED
    BY <2>2, <2>3 DEF Sound, Fresh
<1>7. QED
  BY <1>4, <1>5, <1>6

LEMMA EnsuredIsSound ==
    ASSUME NEW m, NEW S, Sound(m, S), S \subseteq Strips, NEW connected \in BOOLEAN
    PROVE  Sound(Ensured(m, S, connected), S) /\ m.awaits \subseteq Ensured(m, S, connected).awaits
<1>1. m \in MapType /\ (m.walk # "listing" => m.awaits = {})
  BY DEF Sound
<1>2. CASE S = {}
  <2>1. PICK e : e = [m EXCEPT !.state = "ready", !.stale = FALSE]
    OBVIOUS
  <2>2. e \in MapType /\ e.walk = m.walk /\ e.awaits = m.awaits
    BY <1>1, <2>1 DEF MapType
  <2>3. Ensured(m, S, connected) = e
    BY <1>2, <2>1 DEF Ensured
  <2>4. QED
    BY <1>1, <1>2, <2>2, <2>3 DEF Sound, Fresh
<1>3. CASE S # {} /\ (m.walk # "no" \/ (m.state = "ready" /\ ~m.stale))
  <2>1. Ensured(m, S, connected) = m
    BY <1>3 DEF Ensured
  <2>2. QED
    BY <2>1
<1>4. CASE S # {} /\ ~(m.walk # "no" \/ (m.state = "ready" /\ ~m.stale))
  <2>1. m.walk = "no" /\ m.awaits = {}
    BY <1>1, <1>4
  <2>2. CASE connected
    <3>1. Ensured(m, S, connected) = Listing(m, S)
      BY <1>4, <2>2 DEF Ensured
    <3>2. QED
      BY <1>1, <2>1, <3>1, ListingIsSound
  <2>3. CASE ~connected
    <3>1. PICK e : e = [m EXCEPT !.state = "walking", !.walk = "dialing"]
      OBVIOUS
    <3>2. e \in MapType /\ e.walk = "dialing" /\ e.state = "walking" /\ e.awaits = {}
      BY <1>1, <2>1, <3>1 DEF MapType
    <3>3. Ensured(m, S, connected) = e
      BY <1>4, <2>3, <3>1 DEF Ensured
    <3>4. QED
      BY <2>1, <3>2, <3>3 DEF Sound, Fresh
  <2>4. QED
    BY <2>2, <2>3
<1>5. QED
  BY <1>2, <1>3, <1>4

LEMMA RewalkedIsSound ==
    ASSUME NEW m, Sound(m, safes), safes \subseteq Strips
    PROVE  Sound(Rewalked(m), safes) /\ m.awaits \subseteq Rewalked(m).awaits
<1>1. Rewalked(m) = m \/ Rewalked(m) = Ensured(m, safes, TRUE)
  BY DEF Rewalked
<1>2. TRUE \in BOOLEAN
  OBVIOUS
<1>3. QED
  BY <1>1, <1>2, EnsuredIsSound

LEMMA ResolvedIsSound ==
    ASSUME NEW m, NEW S, Sound(m, S), m.walk = "listing", NEW n \in Nodes
    PROVE  Sound(Resolved(m, n), S) /\ m.awaits \ {n} \subseteq Resolved(m, n).awaits
<1>1. PICK done : done = [m EXCEPT !.complete = @ \cup {n}, !.awaits = @ \ {n},
                                  !.root = IF n = Root /\ @ = "unknown" THEN "right" ELSE @]
  OBVIOUS
<1>2. m \in MapType /\ Fresh(m, S)
  BY DEF Sound
<1>3. done \in MapType
  BY <1>1, <1>2 DEF MapType
<1>4. done.walk = "listing" /\ done.awaits = m.awaits \ {n} /\ done.state = m.state /\ done.targets = m.targets
  BY <1>1, <1>2 DEF MapType
<1>5. done.stale <=> m.stale
  BY <1>1, <1>2 DEF MapType
<1>6. Fresh(done, S)
  BY <1>2, <1>4, <1>5 DEF Fresh
<1>7. Resolved(m, n) = IF done.awaits # {} THEN done ELSE IF n = Root THEN Expand(done) ELSE Finished(done)
  BY <1>1 DEF Resolved
<1>8. CASE done.awaits # {}
  BY <1>3, <1>4, <1>6, <1>7, <1>8 DEF Sound
<1>9. CASE done.awaits = {}
  <2>1. Sound(Expand(done), S) /\ Sound(Finished(done), S)
    BY <1>3, <1>4, <1>6, <1>9, ExpandIsSound, FinishedIsSound
  <2>2. QED
    BY <1>4, <1>7, <1>9, <2>1
<1>10. QED
  BY <1>8, <1>9

-----------------------------------------------------------------------------
(* The pipeline.                                                            *)

LEMMA SetToSeqLists ==
    ASSUME NEW A, IsFiniteSet(A)
    PROVE  /\ Cardinality(A) \in Nat /\ SetToSeq(A) \in [1..Cardinality(A) -> A]
           /\ \A i, j \in 1..Cardinality(A) : SetToSeq(A)[i] = SetToSeq(A)[j] => i = j
<1>1. PICK f \in [1..Cardinality(A) -> A] : IsInjective(f)
  BY FS_CardinalityType DEF ExistsBijection, Bijection, Injection, IsInjective
<1>2. SetToSeq(A) \in [1..Cardinality(A) -> A] /\ IsInjective(SetToSeq(A))
  BY <1>1 DEF SetToSeq
<1>3. QED
  BY <1>2, FS_CardinalityType DEF IsInjective

Owed == [req : Requests, told : BOOLEAN]

LEMMA NodesAreFinite == IsFiniteSet(Nodes)
<1>1. IsFiniteSet({Root})
  BY FS_Singleton
<1>2. QED
  BY <1>1, LimitsAssumption, FS_Union DEF Nodes

LEMMA AsksAreNew ==
    ASSUME NEW m \in MapType, NEW m2 \in MapType
    PROVE  /\ Asks(m, m2) \in Seq(Requests)
           /\ \A i \in 1..Len(Asks(m, m2)) :
                 Asks(m, m2)[i].by = Walker /\ Asks(m, m2)[i].node \in m2.awaits \ m.awaits
           /\ \A i, j \in 1..Len(Asks(m, m2)) : Asks(m, m2)[i].node = Asks(m, m2)[j].node => i = j
<1>1. PICK A : A = m2.awaits \ m.awaits
  OBVIOUS
<1>2. A \subseteq Nodes /\ IsFiniteSet(A)
  <2>1. A \subseteq Nodes
    BY <1>1 DEF MapType
  <2>2. QED
    BY <2>1, NodesAreFinite, FS_Subset
<1>3. PICK k, new : /\ k \in Nat /\ new = SetToSeq(A) /\ new \in [1..k -> A]
                    /\ \A i, j \in 1..k : new[i] = new[j] => i = j
  BY <1>2, SetToSeqLists
<1>4. Len(new) = k
  BY <1>3
<1>5. PICK q : q = [i \in 1..k |-> [by |-> Walker, kind |-> "def", node |-> new[i], n |-> 0]]
  OBVIOUS
<1>6. Asks(m, m2) = q
  BY <1>1, <1>3, <1>4, <1>5 DEF Asks
<1>7. \A i \in 1..k : q[i].by = Walker /\ q[i].node = new[i] /\ new[i] \in A
  BY <1>3, <1>5
<1>8. \A i \in 1..k : q[i] \in Requests
  <2>1. TAKE i \in 1..k
  <2>2. new[i] \in Nodes
    BY <1>2, <1>3
  <2>3. q[i] \in [by : {Walker}, kind : {"def"}, node : Nodes, n : {0}]
    BY <1>5, <2>2
  <2>4. QED
    BY <2>3 DEF Requests
<1>9. q \in [1..k -> Requests]
  BY <1>5, <1>8
<1>10. q \in Seq(Requests) /\ Len(q) = k
  <2> HIDE DEF Requests
  <2>1. QED
    BY <1>3, <1>9
<1>11. \A i, j \in 1..Len(q) : q[i].node = q[j].node => i = j
  BY <1>3, <1>7, <1>10
<1>12. \A i \in 1..Len(q) : q[i].by = Walker /\ q[i].node \in m2.awaits \ m.awaits
  BY <1>1, <1>7, <1>10
<1>13. QED
  BY <1>6, <1>10, <1>11, <1>12

\* What the console owes is what is in flight.
Match(f, o) == Len(f) = Len(o) /\ \A i \in 1..Len(f) : o[i].req = f[i]

(* Appending is associative. *)
LEMMA Regrouped == \A a, b, c \in Seq(Requests) : (a \o b) \o c = a \o (b \o c)
<1>1. PICK S : S = Requests
  OBVIOUS
<1>2. ASSUME NEW a \in Seq(S), NEW b \in Seq(S), NEW c \in Seq(S) PROVE (a \o b) \o c = a \o (b \o c)
  BY ONLY a \in Seq(S), b \in Seq(S), c \in Seq(S), ConcatAssociative
<1>3. QED
  BY <1>1, <1>2

LEMMA PumpMoves ==
    ASSUME NEW w \in Seq(Requests), NEW f \in Seq(Requests), NEW o \in Seq(Owed), Len(f) <= Window, Pump(w, f, o)
    PROVE  /\ waiting' \in Seq(Requests) /\ inFlight' \in Seq(Requests) /\ owed' \in Seq(Owed)
           /\ Len(inFlight') <= Window
           /\ inFlight' \o waiting' = f \o w
           /\ Match(f, o) => Match(inFlight', owed')
<1>1. Len(w) \in Nat /\ Len(f) \in Nat /\ Window \in Nat
  BY LimitsAssumption
<1>2. PICK k \in 0..Len(w) : /\ Len(f) + k <= Window
                             /\ waiting' = SubSeq(w, k + 1, Len(w)) /\ inFlight' = f \o SubSeq(w, 1, k)
                             /\ owed' = o \o [i \in 1..k |-> [req |-> SubSeq(w, 1, k)[i], told |-> SubSeq(w, 1, k)[i].kind = "data"]]
  <2>1. PICK k : k = IF Len(w) < Window - Len(f) THEN Len(w) ELSE IF Window - Len(f) > 0 THEN Window - Len(f) ELSE 0
    OBVIOUS
  <2>2. k \in 0..Len(w) /\ Len(f) + k <= Window
    BY <1>1, <2>1
  <2>3. QED
    BY <2>1, <2>2 DEF Pump
<1>3. PICK s : s = SubSeq(w, 1, k)
  OBVIOUS
<1>4. PICK r : r = SubSeq(w, k + 1, Len(w))
  OBVIOUS
<1>5. s \in Seq(Requests) /\ Len(s) = k /\ r \in Seq(Requests) /\ s \o r = w
  <2>1. \A i \in 1..k : w[i] \in Requests
    BY <1>1, <1>2
  <2>2. s \in Seq(Requests) /\ Len(s) = IF 1 <= k THEN k - 1 + 1 ELSE 0
    BY <1>2, <1>3, <2>1, SubSeqProperties
  <2>3. \A i \in k + 1..Len(w) : w[i] \in Requests
    BY <1>1, <1>2
  <2>4. r \in Seq(Requests)
    BY <1>1, <1>2, <1>4, <2>3, SubSeqProperties
  <2>5. SubSeq(w, 1, Len(w)) = w
    BY SubSeqFull
  <2>6. SubSeq(w, 1, k) \o SubSeq(w, k + 1, Len(w)) = SubSeq(w, 1, Len(w))
    <3>1. 1 \in 1..Len(w) + 1 /\ k \in 1 - 1..Len(w) /\ Len(w) \in k..Len(w)
      BY <1>1, <1>2
    <3>2. QED
      BY <3>1, ConcatAdjacentSubSeq
  <2>7. s \o r = w
    BY <1>3, <1>4, <2>5, <2>6, Zenon
  <2>8. Len(s) = k
    BY <1>1, <1>2, <2>2
  <2>9. QED
    BY <2>2, <2>4, <2>7, <2>8
<1>6. inFlight' \in Seq(Requests) /\ Len(inFlight') = Len(f) + k
  BY <1>2, <1>3, <1>5, ConcatProperties
<1>7. inFlight' \o waiting' = f \o w
  <2>1. inFlight' \o waiting' = (f \o s) \o r
    BY <1>2, <1>3, <1>4
  <2>2. (f \o s) \o r = f \o (s \o r)
    <3>1. f \in Seq(Requests) /\ s \in Seq(Requests) /\ r \in Seq(Requests)
      BY <1>5
    <3>2. QED
      BY ONLY <3>1, Regrouped, Zenon
  <2>3. QED
    BY <1>5, <2>1, <2>2
<1>8. PICK t : t = [i \in 1..k |-> [req |-> s[i], told |-> s[i].kind = "data"]]
  OBVIOUS
<1>9. t \in Seq(Owed) /\ Len(t) = k /\ \A i \in 1..k : t[i].req = s[i]
  <2>1. \A i \in 1..k : s[i] \in Requests
    BY <1>2, <1>5
  <2>2. \A i \in 1..k : t[i].req = s[i]
    BY <1>8
  <2>3. \A i \in 1..k : t[i] \in Owed
    <3>1. TAKE i \in 1..k
    <3>2. t[i] = [req |-> s[i], told |-> s[i].kind = "data"] /\ s[i] \in Requests
      BY <1>8, <2>1
    <3>3. (s[i].kind = "data") \in BOOLEAN
      OBVIOUS
    <3>4. QED
      BY <3>2, <3>3 DEF Owed
  <2>4. t \in [1..k -> Owed]
    BY <1>8, <2>3
  <2> HIDE DEF Owed
  <2>5. QED
    BY <1>2, <2>2, <2>4
<1>10. owed' \in Seq(Owed) /\ Len(owed') = Len(o) + k
       /\ \A i \in 1..Len(o) + k : owed'[i] = IF i <= Len(o) THEN o[i] ELSE t[i - Len(o)]
  <2>1. owed' = o \o t
    BY <1>2, <1>3, <1>8, Zenon
  <2>2. QED
    BY <1>9, <2>1, ConcatProperties
<1>11. \A i \in 1..Len(f) + k : inFlight'[i] = IF i <= Len(f) THEN f[i] ELSE s[i - Len(f)]
  BY <1>2, <1>3, <1>5, ConcatProperties
<1>12. ASSUME Match(f, o) PROVE Match(inFlight', owed')
  <2>1. Len(f) = Len(o) /\ \A i \in 1..Len(f) : o[i].req = f[i]
    BY <1>12 DEF Match
  <2>2. ASSUME NEW i \in 1..Len(f) + k PROVE owed'[i].req = inFlight'[i]
    <3>1. CASE i <= Len(f)
      BY <1>1, <1>2, <1>10, <1>11, <2>1, <2>2, <3>1
    <3>2. CASE ~(i <= Len(f))
      <4>1. i - Len(f) \in 1..k
        BY <1>1, <1>2, <2>2, <3>2
      <4>2. QED
        BY <1>9, <1>10, <1>11, <2>1, <2>2, <3>2, <4>1
    <3>3. QED
      BY <3>1, <3>2
  <2>3. QED
    BY <1>6, <1>10, <2>1, <2>2 DEF Match
<1>13. waiting' \in Seq(Requests)
  BY <1>2, <1>4, <1>5
<1>14. QED
  BY <1>1, <1>2, <1>6, <1>7, <1>10, <1>12, <1>13

\* The walker has asked for each of the nodes A at most once, and for no other.
Walkers(Q, A) ==
    /\ \A i \in 1..Len(Q) : Q[i].by = Walker => Q[i].node \in A
    /\ \A i, j \in 1..Len(Q) : Q[i].by = Walker /\ Q[j].by = Walker /\ Q[i].node = Q[j].node => i = j

LEMMA WalkersGrow ==
    ASSUME NEW Q \in Seq(Requests), NEW q \in Seq(Requests), NEW A, NEW A0, NEW A2, Walkers(Q, A0),
           A0 \subseteq A, A0 \subseteq A2, Walkers(q, A2 \ A)
    PROVE  Walkers(Q \o q, A2)
<1>1. /\ Len(Q \o q) = Len(Q) + Len(q) /\ Len(Q) \in Nat /\ Len(q) \in Nat
      /\ \A i \in 1..Len(Q) + Len(q) : (Q \o q)[i] = IF i <= Len(Q) THEN Q[i] ELSE q[i - Len(Q)]
  BY ConcatProperties
<1>2. PICK R : R = Q \o q
  OBVIOUS
<1>3. ASSUME NEW i \in 1..Len(Q) + Len(q)
      PROVE  (i \in 1..Len(Q) /\ R[i] = Q[i]) \/ (i - Len(Q) \in 1..Len(q) /\ R[i] = q[i - Len(Q)])
  BY <1>1, <1>2
<1>4. ASSUME NEW i \in 1..Len(Q) + Len(q), R[i].by = Walker
      PROVE  \/ i \in 1..Len(Q) /\ R[i] = Q[i] /\ R[i].node \in A0
             \/ i - Len(Q) \in 1..Len(q) /\ R[i] = q[i - Len(Q)] /\ R[i].node \in A2 \ A
  BY <1>3, <1>4 DEF Walkers
<1>5. ASSUME NEW i \in 1..Len(Q) + Len(q), NEW j \in 1..Len(Q) + Len(q),
             R[i].by = Walker, R[j].by = Walker, R[i].node = R[j].node
      PROVE  i = j
  <2>1. CASE R[i].node \in A0
    <3>1. i \in 1..Len(Q) /\ R[i] = Q[i] /\ j \in 1..Len(Q) /\ R[j] = Q[j]
      BY <1>4, <1>5, <2>1
    <3>2. QED
      BY <1>5, <3>1 DEF Walkers
  <2>2. CASE R[i].node \notin A0
    <3>1. /\ i - Len(Q) \in 1..Len(q) /\ R[i] = q[i - Len(Q)]
          /\ j - Len(Q) \in 1..Len(q) /\ R[j] = q[j - Len(Q)]
      BY <1>4, <1>5, <2>2
    <3>2. i - Len(Q) = j - Len(Q)
      BY <1>5, <3>1 DEF Walkers
    <3>3. QED
      BY <1>1, <3>2
  <2>3. QED
    BY <2>1, <2>2
<1>6. \A i \in 1..Len(R) : R[i].by = Walker => R[i].node \in A2
  BY <1>1, <1>2, <1>4
<1>7. \A i, j \in 1..Len(R) : R[i].by = Walker /\ R[j].by = Walker /\ R[i].node = R[j].node => i = j
  BY <1>1, <1>2, <1>5
<1>8. Walkers(R, A2)
  BY <1>6, <1>7 DEF Walkers
<1>9. QED
  BY <1>2, <1>8

LEMMA WalkersAsk == ASSUME NEW m \in MapType, NEW m2 \in MapType PROVE Walkers(Asks(m, m2), m2.awaits \ m.awaits)
<1>1. PICK q : q = Asks(m, m2)
  OBVIOUS
<1>2. /\ \A i \in 1..Len(q) : q[i].by = Walker /\ q[i].node \in m2.awaits \ m.awaits
      /\ \A i, j \in 1..Len(q) : q[i].node = q[j].node => i = j
  BY <1>1, AsksAreNew
<1>3. QED
  BY <1>1, <1>2 DEF Walkers

\* Any part of a queue, each request of it once.
LEMMA WalkersOfPart ==
    ASSUME NEW Q, NEW R, NEW A, Walkers(Q, A), NEW h \in [1..Len(R) -> 1..Len(Q)],
           \A i, j \in 1..Len(R) : h[i] = h[j] => i = j, \A i \in 1..Len(R) : R[i] = Q[h[i]]
    PROVE  Walkers(R, A)
<1>1. \A i \in 1..Len(R) : h[i] \in 1..Len(Q) /\ R[i] = Q[h[i]]
  OBVIOUS
<1>2. /\ \A i \in 1..Len(Q) : Q[i].by = Walker => Q[i].node \in A
      /\ \A i, j \in 1..Len(Q) : Q[i].by = Walker /\ Q[j].by = Walker /\ Q[i].node = Q[j].node => i = j
  BY DEF Walkers
<1>3. ASSUME NEW i \in 1..Len(R), R[i].by = Walker PROVE R[i].node \in A
  BY <1>1, <1>2, <1>3
<1>4. ASSUME NEW i \in 1..Len(R), NEW j \in 1..Len(R), R[i].by = Walker, R[j].by = Walker, R[i].node = R[j].node PROVE i = j
  <2>1. h[i] = h[j]
    BY <1>1, <1>2, <1>4
  <2>2. QED
    BY <2>1
<1>5. QED
  BY <1>3, <1>4 DEF Walkers

LEMMA WalkersTail ==
    ASSUME NEW f \in Seq(Requests), NEW w \in Seq(Requests), f # << >>, NEW A, Walkers(f \o w, A)
    PROVE  /\ Walkers(Tail(f) \o w, A)
           /\ Head(f).by = Walker => Head(f).node \in A /\ Walkers(Tail(f) \o w, A \ {Head(f).node})
<1>1. /\ Len(f \o w) = Len(f) + Len(w) /\ Len(f) \in Nat /\ Len(w) \in Nat /\ Len(f) # 0
      /\ \A i \in 1..Len(f) + Len(w) : (f \o w)[i] = IF i <= Len(f) THEN f[i] ELSE w[i - Len(f)]
  BY ConcatProperties, EmptySeq
<1>2. /\ Tail(f) \in Seq(Requests) /\ Len(Tail(f)) = Len(f) - 1 /\ \A i \in 1..Len(Tail(f)) : Tail(f)[i] = f[i + 1]
      /\ Head(f) = f[1]
  BY HeadTailProperties
<1>3. /\ Len(Tail(f) \o w) = Len(f) - 1 + Len(w)
      /\ \A i \in 1..Len(f) - 1 + Len(w) : (Tail(f) \o w)[i] = IF i <= Len(f) - 1 THEN Tail(f)[i] ELSE w[i - (Len(f) - 1)]
  BY <1>2, ConcatProperties
<1>4. PICK Q, R : Q = f \o w /\ R = Tail(f) \o w
  OBVIOUS
<1>5. ASSUME NEW i \in 1..Len(R) PROVE R[i] = Q[i + 1] /\ i + 1 \in 1..Len(Q)
  <2>1. i \in 1..Len(f) - 1 + Len(w) /\ i + 1 \in 1..Len(f) + Len(w)
    BY <1>1, <1>3, <1>4
  <2>2. CASE i <= Len(f) - 1
    BY <1>1, <1>2, <1>3, <1>4, <2>1, <2>2
  <2>3. CASE ~(i <= Len(f) - 1)
    <3>1. i - (Len(f) - 1) = (i + 1) - Len(f) /\ ~(i + 1 <= Len(f))
      BY <1>1, <2>1, <2>3
    <3>2. QED
      BY <1>1, <1>3, <1>4, <2>1, <2>3, <3>1
  <2>4. QED
    BY <2>2, <2>3
<1>6. Q[1] = Head(f) /\ 1 \in 1..Len(Q)
  BY <1>1, <1>2, <1>4
<1>7. Len(R) \in Nat /\ Len(Q) \in Nat
  BY <1>1, <1>3, <1>4
<1>8. Walkers(Q, A)
  BY <1>4
<1>9. \A i \in 1..Len(R) : R[i].by = Walker => R[i].node \in A
  BY <1>5, <1>8 DEF Walkers
<1>10. ASSUME NEW i \in 1..Len(R), NEW j \in 1..Len(R), R[i].by = Walker, R[j].by = Walker, R[i].node = R[j].node
       PROVE  i = j
  <2>1. i + 1 = j + 1
    BY <1>5, <1>8, <1>10 DEF Walkers
  <2>2. QED
    BY <2>1
<1>11. ASSUME Head(f).by = Walker PROVE Head(f).node \in A /\ \A i \in 1..Len(R) : R[i].by = Walker => R[i].node # Head(f).node
  <2>1. Head(f).node \in A
    BY <1>6, <1>8, <1>11 DEF Walkers
  <2>2. ASSUME NEW i \in 1..Len(R), R[i].by = Walker, R[i].node = Head(f).node PROVE FALSE
    <3>1. i + 1 = 1
      BY <1>5, <1>6, <1>8, <1>11, <2>2 DEF Walkers
    <3>2. QED
      BY <3>1
  <2>3. QED
    BY <2>1, <2>2
<1>12. Walkers(R, A) /\ (Head(f).by = Walker => Head(f).node \in A /\ Walkers(R, A \ {Head(f).node}))
  BY <1>9, <1>10, <1>11 DEF Walkers
<1>13. QED
  BY <1>4, <1>12

LEMMA WalkersLeft ==
    ASSUME NEW f \in Seq(Requests), NEW w \in Seq(Requests), NEW t, NEW A, Walkers(f \o w, A)
    PROVE  Walkers(f \o Without(w, t), A) /\ Without(w, t) \in Seq(Requests)
<1>1. PICK v, h : v = Without(w, t) /\ Picks(v, w, Len(w), h) /\ v \in Seq(Requests)
  BY WithoutPicks
<1>2. /\ Len(f \o w) = Len(f) + Len(w) /\ Len(f) \in Nat /\ Len(w) \in Nat /\ Len(v) \in Nat
      /\ \A i \in 1..Len(f) + Len(w) : (f \o w)[i] = IF i <= Len(f) THEN f[i] ELSE w[i - Len(f)]
  BY <1>1, ConcatProperties
<1>3. /\ Len(f \o v) = Len(f) + Len(v)
      /\ \A i \in 1..Len(f) + Len(v) : (f \o v)[i] = IF i <= Len(f) THEN f[i] ELSE v[i - Len(f)]
  BY <1>1, ConcatProperties
<1>4. /\ h \in [1..Len(v) -> 1..Len(w)]
      /\ \A i, j \in 1..Len(v) : i < j => h[i] < h[j]
      /\ \A i \in 1..Len(v) : v[i] = w[h[i]]
  BY <1>1 DEF Picks
<1>5. PICK n, m, l : n = Len(f) /\ m = Len(w) /\ l = Len(v) /\ n \in Nat /\ m \in Nat /\ l \in Nat
  BY <1>2
<1>6. PICK Q, R : Q = f \o w /\ R = f \o v
  OBVIOUS
<1>7. PICK k : k = [i \in 1..n + l |-> IF i <= n THEN i ELSE n + h[i - n]]
  OBVIOUS
<1>8. ASSUME NEW i \in 1..n + l
      PROVE  /\ k[i] \in 1..n + m /\ R[i] = Q[k[i]] /\ (i <= n => k[i] = i)
             /\ ~(i <= n) => i - n \in 1..l /\ k[i] = n + h[i - n] /\ h[i - n] \in 1..m
  <2>1. CASE i <= n
    <3>1. k[i] = i /\ i \in 1..n + m
      BY <1>5, <1>7, <2>1
    <3>2. R[i] = f[i] /\ Q[i] = f[i]
      BY <1>2, <1>3, <1>5, <1>6, <2>1, <3>1
    <3>3. QED
      BY <2>1, <3>1, <3>2
  <2>2. CASE ~(i <= n)
    <3>1. i - n \in 1..l /\ k[i] = n + h[i - n]
      BY <1>5, <1>7, <2>2
    <3>2. h[i - n] \in 1..m /\ v[i - n] = w[h[i - n]]
      BY <1>4, <1>5, <3>1
    <3>3. k[i] \in 1..n + m /\ ~(k[i] <= n) /\ k[i] - n = h[i - n]
      BY <1>5, <3>1, <3>2
    <3>4. Q[k[i]] = w[h[i - n]]
      BY <1>2, <1>5, <1>6, <3>3
    <3>5. R[i] = v[i - n]
      BY <1>3, <1>5, <1>6, <2>2
    <3>6. QED
      BY <2>2, <3>1, <3>2, <3>3, <3>4, <3>5
  <2>3. QED
    BY <2>1, <2>2
<1>9. ASSUME NEW i \in 1..n + l, NEW j \in 1..n + l, k[i] = k[j] PROVE i = j
  <2>0. PICK a, b : a = k[i] /\ b = k[j]
    OBVIOUS
  <2>1. CASE i <= n \/ j <= n
    <3>1. (i <= n => a = i) /\ (j <= n => b = j)
      BY <1>8, <2>0
    <3>2. (~(i <= n) => a \in n + 1..n + m) /\ (~(j <= n) => b \in n + 1..n + m)
      <4>1. ASSUME NEW x \in 1..m PROVE n + x \in n + 1..n + m
        BY <1>5
      <4>2. QED
        BY <1>8, <2>0, <4>1
    <3>3. a = b
      BY <1>9, <2>0
    <3>4. QED
      BY <1>5, <2>1, <3>1, <3>2, <3>3
  <2>2. CASE ~(i <= n) /\ ~(j <= n)
    <3>1. /\ i - n \in 1..l /\ k[i] = n + h[i - n] /\ h[i - n] \in 1..m
          /\ j - n \in 1..l /\ k[j] = n + h[j - n] /\ h[j - n] \in 1..m
      BY <1>8, <2>2
    <3>2. h[i - n] = h[j - n]
      <4>1. PICK x \in 1..m, y \in 1..m : x = h[i - n] /\ y = h[j - n]
        BY <3>1
      <4>2. n + x = n + y
        BY <1>9, <3>1, <4>1
      <4>3. x = y
        BY <1>5, <4>2
      <4>4. QED
        BY <4>1, <4>3
    <3>3. ~(i - n < j - n) /\ ~(j - n < i - n)
      <4>1. PICK x \in 1..l, y \in 1..l : x = i - n /\ y = j - n
        BY <3>1
      <4>2. ~(x < y) /\ ~(y < x)
        <5>1. h[x] = h[y] /\ h[x] \in Int
          BY <3>1, <3>2, <4>1
        <5>2. (x < y => h[x] < h[y]) /\ (y < x => h[y] < h[x])
          BY <1>4, <1>5
        <5>3. QED
          BY ONLY <5>1, <5>2
      <4>3. QED
        BY <4>1, <4>2
    <3>4. QED
      BY <1>5, <3>3
  <2>3. QED
    BY <2>1, <2>2
<1>10. k \in [1..Len(R) -> 1..Len(Q)]
  BY <1>2, <1>3, <1>5, <1>6, <1>7, <1>8
<1>11. Walkers(R, A)
  <2>1. Len(R) = n + l
    BY <1>3, <1>5, <1>6
  <2>2. Walkers(Q, A)
    BY <1>6
  <2>3. (\A i, j \in 1..Len(R) : k[i] = k[j] => i = j) /\ \A i \in 1..Len(R) : R[i] = Q[k[i]]
    BY <1>8, <1>9, <2>1
  <2>4. QED
    BY <1>10, <2>2, <2>3, WalkersOfPart
<1>12. QED
  BY <1>1, <1>6, <1>11

-----------------------------------------------------------------------------
(* The invariant.                                                           *)

LinkTypes ==
    /\ up \in {"disconnected", "connecting", "connected"}
    /\ dialing \in {"no", "pending", "dead"} /\ linger \in BOOLEAN
    /\ timeouts \in 0 .. MaxTimeouts
    /\ tablet \in [Tablets -> {"new", "open", "closed"}]
    /\ asked \in [Tablets -> 0 .. MaxAsks]
    /\ safes \subseteq Strips /\ changes \in 0 .. MaxChanges
    /\ learnt \subseteq Nodes
    /\ clean \in BOOLEAN /\ stray \in BOOLEAN

PipeTypes ==
    /\ waiting \in Seq(Requests) /\ inFlight \in Seq(Requests) /\ owed \in Seq(Owed)
    /\ Len(inFlight) <= Window /\ armed = (inFlight # << >>)

LinkInv ==
    /\ up # "connected" => inFlight = << >> /\ owed = << >>
    /\ dialing = "pending" => up # "connected"

MatchInv == clean => ~stray /\ Match(inFlight, owed)

MapInv == Walkers(inFlight \o waiting, map.awaits) /\ Sound(map, safes)

ProxyInv == LinkTypes /\ PipeTypes /\ LinkInv /\ MatchInv /\ MapInv

LEMMA EmptyQueue == \A A : Walkers(<< >> \o << >>, A) /\ Match(<< >>, << >>)
<1>1. << >> \o << >> = << >>
  OBVIOUS
<1>2. Len(<< >>) = 0 /\ 1..0 = {}
  OBVIOUS
<1>3. QED
  BY <1>1, <1>2 DEF Walkers, Match

LEMMA SameWalkIsSound ==
    ASSUME NEW m, NEW S, Sound(m, S), NEW m2 \in MapType,
           m2.walk = m.walk, m2.awaits = m.awaits, m2.targets = m.targets, m2.state = m.state, m2.stale <=> m.stale
    PROVE  Sound(m2, S)
  BY DEF Sound, Fresh

LEMMA StaleIsSound ==
    ASSUME NEW m, NEW S, NEW T, Sound(m, S), NEW m2, m2 = [m EXCEPT !.stale = TRUE]
    PROVE  Sound(m2, T) /\ m2.awaits = m.awaits
<1>1. m \in MapType /\ (m.walk # "listing" => m.awaits = {})
  BY DEF Sound
<1>2. m2 \in MapType /\ m2.walk = m.walk /\ m2.awaits = m.awaits
  BY <1>1 DEF MapType
<1>3. m2.stale
  BY <1>1 DEF MapType
<1>4. QED
  BY <1>1, <1>2, <1>3 DEF Sound, Fresh

LEMMA RequestKeeps ==
    ASSUME PipeTypes, NEW q \in Seq(Requests), Request(q)
    PROVE  /\ PipeTypes' /\ (Match(inFlight, owed) => Match(inFlight, owed)')
           /\ up # "connected" => UNCHANGED <<inFlight, owed>>
           /\ \A A0, A, A2 : A0 \subseteq A /\ A0 \subseteq A2 /\ Walkers(inFlight \o waiting, A0) /\ Walkers(q, A2 \ A) =>
                 Walkers(inFlight' \o waiting', A2)
<1>1. waiting \o q \in Seq(Requests)
  BY ConcatProperties DEF PipeTypes
<1>2. /\ PipeTypes' /\ inFlight' \o waiting' = inFlight \o (waiting \o q)
      /\ (Match(inFlight, owed) => Match(inFlight', owed'))
      /\ up # "connected" => UNCHANGED <<inFlight, owed>>
  <2>1. CASE up = "connected"
    <3>1. Pump(waiting \o q, inFlight, owed) /\ armed' = (inFlight' # << >>)
      BY <2>1 DEF Request
    <3>2. PICK w : w = waiting \o q
      OBVIOUS
    <3>3. PICK f, o : f = inFlight /\ o = owed
      OBVIOUS
    <3>4. Pump(w, f, o) /\ w \in Seq(Requests) /\ f \in Seq(Requests) /\ o \in Seq(Owed) /\ Len(f) <= Window
      BY <1>1, <3>1, <3>2, <3>3 DEF PipeTypes
    <3>5. /\ waiting' \in Seq(Requests) /\ inFlight' \in Seq(Requests) /\ owed' \in Seq(Owed)
          /\ Len(inFlight') <= Window
          /\ inFlight' \o waiting' = f \o w
          /\ Match(f, o) => Match(inFlight', owed')
      BY <3>4, PumpMoves
    <3>6. PipeTypes'
      BY <3>1, <3>5 DEF PipeTypes
    <3>7. QED
      BY <2>1, <3>2, <3>3, <3>5, <3>6
  <2>2. CASE up # "connected"
    <3>1. waiting' = waiting \o q /\ UNCHANGED <<inFlight, owed, armed>>
      BY <2>2 DEF Request
    <3>2. PipeTypes'
      BY <1>1, <3>1 DEF PipeTypes
    <3>3. QED
      BY <3>1, <3>2
  <2>3. QED
    BY <2>1, <2>2
<1>3. Match(inFlight, owed)' = Match(inFlight', owed')
  BY DEF Match
<1>4. PICK Q, S : Q = inFlight \o waiting /\ S = Requests
  OBVIOUS
<1>5. Q \in Seq(Requests)
  BY <1>4, ConcatProperties DEF PipeTypes
<1>6. inFlight' \o waiting' = Q \o q
  <2>1. inFlight \in Seq(S) /\ waiting \in Seq(S) /\ q \in Seq(S)
    BY <1>4 DEF PipeTypes
  <2>2. (inFlight \o waiting) \o q = inFlight \o (waiting \o q)
    BY <2>1, ConcatAssociative
  <2>3. QED
    BY <1>2, <1>4, <2>2
<1>7. ASSUME NEW A0, NEW A, NEW A2, A0 \subseteq A, A0 \subseteq A2, Walkers(Q, A0), Walkers(q, A2 \ A)
      PROVE  Walkers(inFlight' \o waiting', A2)
  BY <1>5, <1>6, <1>7, WalkersGrow
<1>8. QED
  BY <1>2, <1>3, <1>4, <1>7

\* What the walk asks for is what the map comes to wait for.
LEMMA AskingKeeps ==
    ASSUME PipeTypes, MapInv, NEW m2, Sound(m2, safes'), map.awaits \subseteq m2.awaits, map' = m2,
           Request(Asks(map, map'))
    PROVE  /\ PipeTypes' /\ (Match(inFlight, owed) => Match(inFlight, owed)') /\ MapInv'
           /\ up # "connected" => UNCHANGED <<inFlight, owed>>
<1>1. PICK m, q : m = map /\ q = Asks(m, m2)
  OBVIOUS
<1>2. m \in MapType /\ m2 \in MapType
  BY <1>1 DEF MapInv, Sound
<1>3. q \in Seq(Requests) /\ Walkers(q, m2.awaits \ m.awaits)
  BY <1>1, <1>2, AsksAreNew, WalkersAsk
<1>4. Request(q)
  BY <1>1
<1>5. m.awaits \subseteq m2.awaits /\ Walkers(inFlight \o waiting, m.awaits)
  BY <1>1 DEF MapInv
<1>6. PICK A, A2 : A = m.awaits /\ A2 = m2.awaits
  OBVIOUS
<1>7. Walkers(inFlight' \o waiting', A2)
  BY <1>3, <1>4, <1>5, <1>6, RequestKeeps
<1>8. MapInv'
  BY <1>6, <1>7 DEF MapInv
<1>9. QED
  BY <1>3, <1>4, <1>8, RequestKeeps

LEMMA DialLinks ==
    ASSUME LinkTypes, LinkInv, Dial, (inFlight' = inFlight /\ owed' = owed) \/ up = "connected"
    PROVE  /\ up' \in {"disconnected", "connecting", "connected"} /\ dialing' \in {"no", "pending", "dead"} /\ LinkInv'
           /\ up = "connected" <=> up' = "connected"
  BY DEF Dial, LinkTypes, LinkInv

LEMMA AcceptKeeps == ASSUME ProxyInv, NEW t \in Tablets, Accept(t) PROVE ProxyInv'
<1>1. /\ tablet' = [tablet EXCEPT ![t] = "open"] /\ linger' = FALSE /\ Dial
      /\ map' = IF up = "connected" THEN Ensured(map, safes, TRUE)
                ELSE IF map.walk = "dialing" THEN [map EXCEPT !.late = @ \cup {t}] ELSE map
      /\ Request(Asks(map, map'))
      /\ UNCHANGED <<timeouts, asked, safes, changes, learnt, clean, stray>>
  BY DEF Accept
<1>2. LinkTypes /\ PipeTypes /\ LinkInv /\ MatchInv /\ MapInv /\ Sound(map, safes) /\ safes \subseteq Strips
  BY DEF ProxyInv, MapInv, LinkTypes
<1>3. Sound(map', safes) /\ map.awaits \subseteq map'.awaits
  <2>1. CASE up = "connected"
    BY <1>1, <1>2, <2>1, TRUE \in BOOLEAN, EnsuredIsSound
  <2>2. CASE up # "connected" /\ map.walk = "dialing"
    <3>1. PICK m, m2 : m = map /\ m2 = [m EXCEPT !.late = @ \cup {t}]
      OBVIOUS
    <3>2. m \in MapType /\ m2 \in MapType
      BY <1>2, <3>1 DEF Sound, MapType
    <3>3. m2.walk = m.walk /\ m2.awaits = m.awaits /\ m2.targets = m.targets /\ m2.state = m.state
      BY <3>1, <3>2 DEF MapType
    <3>4. m2.stale <=> m.stale
      BY <3>1, <3>2 DEF MapType
    <3>5. Sound(m2, safes)
      BY <1>2, <3>1, <3>2, <3>3, <3>4, SameWalkIsSound
    <3>6. QED
      BY <1>1, <2>2, <3>1, <3>3, <3>5
  <2>3. CASE up # "connected" /\ map.walk # "dialing"
    BY <1>1, <1>2, <2>3
  <2>4. QED
    BY <2>1, <2>2, <2>3
<1>4. PICK m2 : m2 = map'
  OBVIOUS
<1>5. /\ PipeTypes' /\ (Match(inFlight, owed) => Match(inFlight, owed)') /\ MapInv'
      /\ up # "connected" => UNCHANGED <<inFlight, owed>>
  <2>1. Sound(m2, safes') /\ map.awaits \subseteq m2.awaits /\ map' = m2
    BY <1>1, <1>3, <1>4
  <2>2. Request(Asks(map, map'))
    BY <1>1
  <2>3. QED
    BY <1>2, <2>1, <2>2, AskingKeeps
<1>6. up' \in {"disconnected", "connecting", "connected"} /\ dialing' \in {"no", "pending", "dead"} /\ LinkInv'
  BY <1>1, <1>2, <1>5, DialLinks
<1>7. LinkTypes'
  BY <1>1, <1>2, <1>6 DEF LinkTypes
<1>8. MatchInv'
  BY <1>1, <1>2, <1>5 DEF MatchInv
<1>9. QED
  BY <1>5, <1>6, <1>7, <1>8 DEF ProxyInv

LEMMA AskKeeps ==
    ASSUME ProxyInv, NEW t \in Tablets, NEW kind \in {"def", "data"}, NEW node \in Nodes, Ask(t, kind, node)
    PROVE  ProxyInv'
<1>1. /\ asked[t] < MaxAsks /\ asked' = [asked EXCEPT ![t] = @ + 1]
      /\ Request(<<[by |-> t, kind |-> kind, node |-> node, n |-> asked[t] + 1]>>)
      /\ UNCHANGED <<up, dialing, linger, timeouts, tablet, safes, changes, learnt, map, clean, stray>>
  BY DEF Ask, link
<1>2. LinkTypes /\ PipeTypes /\ LinkInv /\ MatchInv /\ MapInv
  BY DEF ProxyInv
<1>3. asked[t] \in 0..MaxAsks /\ asked[t] + 1 \in 1..MaxAsks /\ asked[t] + 1 \in 0..MaxAsks
  BY <1>1, <1>2, LimitsAssumption DEF LinkTypes
<1>4. PICK r : r = [by |-> t, kind |-> kind, node |-> node, n |-> asked[t] + 1]
  OBVIOUS
<1>5. r \in Requests /\ r.by # Walker
  <2>1. r \in [by : Tablets, kind : {"def", "data"}, node : Nodes, n : 1 .. MaxAsks]
    BY <1>3, <1>4
  <2>2. r.by = t /\ t # Walker
    BY <1>4, NamesAssumption
  <2>3. QED
    BY <2>1, <2>2 DEF Requests
<1>6. PICK q : q = <<r>>
  OBVIOUS
<1>7. q \in Seq(Requests) /\ Len(q) = 1 /\ q[1] = r
  <2> HIDE DEF Requests
  <2>1. QED
    BY <1>5, <1>6
<1>8. \A i \in 1..Len(q) : q[i].by # Walker
  <2>1. \A i \in 1..1 : i = 1
    OBVIOUS
  <2>2. QED
    BY <1>5, <1>7, <2>1
<1>9. \A A : Walkers(q, A)
  BY <1>8 DEF Walkers
<1>10. Request(q)
  BY <1>1, <1>4, <1>6
<1>11. PICK A : A = map.awaits
  OBVIOUS
<1>12. /\ PipeTypes' /\ (Match(inFlight, owed) => Match(inFlight, owed)')
       /\ up # "connected" => UNCHANGED <<inFlight, owed>>
       /\ Walkers(inFlight' \o waiting', A)
  BY <1>2, <1>7, <1>9, <1>10, <1>11, RequestKeeps DEF MapInv
<1>13. MapInv'
  BY <1>1, <1>2, <1>11, <1>12 DEF MapInv
<1>14. LinkInv' /\ MatchInv'
  BY <1>1, <1>2, <1>12 DEF LinkInv, MatchInv
<1>15. LinkTypes'
  BY <1>1, <1>2, <1>3 DEF LinkTypes
<1>16. QED
  BY <1>12, <1>13, <1>14, <1>15 DEF ProxyInv

LEMMA LeaveKeeps == ASSUME ProxyInv, NEW t \in Tablets, Leave(t) PROVE ProxyInv'
<1>1. /\ tablet' = [tablet EXCEPT ![t] = "closed"] /\ linger' = (linger \/ Open = {t})
      /\ waiting' = Without(waiting, t)
      /\ UNCHANGED <<up, dialing, inFlight, armed, timeouts, owed, asked, safes, changes, learnt, map, clean, stray>>
  BY DEF Leave, Gone
<1>2. LinkTypes /\ PipeTypes /\ LinkInv /\ MatchInv /\ MapInv
  BY DEF ProxyInv
<1>3. Walkers(inFlight \o Without(waiting, t), map.awaits) /\ Without(waiting, t) \in Seq(Requests)
  BY <1>2, WalkersLeft DEF PipeTypes, MapInv
<1>4. PipeTypes' /\ MapInv'
  BY <1>1, <1>2, <1>3 DEF PipeTypes, MapInv
<1>5. LinkInv' /\ MatchInv'
  BY <1>1, <1>2 DEF LinkInv, MatchInv
<1>6. LinkTypes'
  BY <1>1, <1>2 DEF LinkTypes
<1>7. QED
  BY <1>4, <1>5, <1>6 DEF ProxyInv

\* The connection is there, or the head has ended: what waits moves on.
LEMMA PumpKeeps ==
    ASSUME NEW w \in Seq(Requests), NEW f \in Seq(Requests), NEW o \in Seq(Owed), Len(f) <= Window,
           NEW m \in MapType, NEW m2, Sound(m2, safes'), map' = m2,
           NEW A0, Walkers(f \o w, A0), A0 \subseteq m.awaits, A0 \subseteq m2.awaits,
           Pump(w \o Asks(m, m2), f, o), armed' = (inFlight' # << >>)
    PROVE  PipeTypes' /\ MapInv' /\ (Match(f, o) => Match(inFlight', owed'))
<1>1. PICK q : q = Asks(m, m2)
  OBVIOUS
<1>2. m2 \in MapType
  BY DEF Sound
<1>3. q \in Seq(Requests) /\ Walkers(q, m2.awaits \ m.awaits)
  BY <1>1, <1>2, AsksAreNew, WalkersAsk
<1>4. PICK S : S = Requests
  OBVIOUS
<1>5. w \o q \in Seq(Requests) /\ f \o w \in Seq(Requests)
  BY <1>3, ConcatProperties
<1>6. (f \o w) \o q = f \o (w \o q)
  <2>1. f \in Seq(S) /\ w \in Seq(S) /\ q \in Seq(S)
    BY <1>3, <1>4
  <2>2. QED
    BY <2>1, ConcatAssociative
<1>7. PICK v : v = w \o q /\ Pump(v, f, o)
  BY <1>1
<1>8. /\ waiting' \in Seq(Requests) /\ inFlight' \in Seq(Requests) /\ owed' \in Seq(Owed)
      /\ Len(inFlight') <= Window /\ inFlight' \o waiting' = f \o v
      /\ Match(f, o) => Match(inFlight', owed')
  <2>1. v \in Seq(Requests)
    BY <1>5, <1>7
  <2>2. QED
    BY <1>7, <2>1, PumpMoves
<1>9. PICK A, A2 : A = m.awaits /\ A2 = m2.awaits
  OBVIOUS
<1>10. Walkers((f \o w) \o q, A2)
  <2>1. PICK Q : Q = f \o w
    OBVIOUS
  <2>2. Q \in Seq(Requests) /\ Walkers(Q, A0) /\ Walkers(q, A2 \ A) /\ A0 \subseteq A /\ A0 \subseteq A2
    BY <1>3, <1>5, <1>9, <2>1
  <2>3. Walkers(Q \o q, A2)
    BY <1>3, <2>2, WalkersGrow
  <2>4. QED
    BY <2>1, <2>3
<1>11. Walkers(inFlight' \o waiting', A2)
  BY <1>6, <1>7, <1>8, <1>10
<1>12. MapInv'
  BY <1>9, <1>11 DEF MapInv
<1>13. PipeTypes'
  BY <1>8 DEF PipeTypes
<1>14. QED
  BY <1>8, <1>12, <1>13

LEMMA FinishHeadKeeps ==
    ASSUME PipeTypes, MapInv, inFlight # << >>, NEW m2, Sound(m2, safes), safes' = safes,
           NEW o \in Seq(Owed), FinishHead(m2, o),
           IF Head(inFlight).by = Walker THEN map.awaits \ {Head(inFlight).node} \subseteq m2.awaits
           ELSE map.awaits \subseteq m2.awaits
    PROVE  PipeTypes' /\ MapInv' /\ (Match(Tail(inFlight), o) => Match(inFlight', owed'))
<1>1. PICK f, w, m, h : f = inFlight /\ w = waiting /\ m = map /\ h = Head(f)
  OBVIOUS
<1>2. f \in Seq(Requests) /\ w \in Seq(Requests) /\ f # << >> /\ Len(f) <= Window
  BY <1>1 DEF PipeTypes
<1>3. Walkers(f \o w, m.awaits) /\ m \in MapType
  BY <1>1 DEF MapInv, Sound
<1>4. /\ Walkers(Tail(f) \o w, m.awaits)
      /\ h.by = Walker => h.node \in m.awaits /\ Walkers(Tail(f) \o w, m.awaits \ {h.node})
  BY <1>1, <1>2, <1>3, WalkersTail
<1>5. PICK A0 : A0 = IF h.by = Walker THEN m.awaits \ {h.node} ELSE m.awaits
  OBVIOUS
<1>6. Walkers(Tail(f) \o w, A0) /\ A0 \subseteq m.awaits /\ A0 \subseteq m2.awaits
  BY <1>1, <1>4, <1>5
<1>7. PICK g : g = Tail(f)
  OBVIOUS
<1>8. g \in Seq(Requests) /\ Len(g) <= Window
  <2>1. Len(f) \in Nat /\ g \in Seq(Requests) /\ Len(g) = Len(f) - 1
    BY <1>2, <1>7, HeadTailProperties
  <2>2. QED
    BY <1>2, <2>1, LimitsAssumption
<1>9. map' = m2 /\ Pump(w \o Asks(m, m2), g, o) /\ armed' = (inFlight' # << >>)
  BY <1>1, <1>7 DEF FinishHead
<1>10. Sound(m2, safes') /\ Walkers(g \o w, A0)
  BY <1>6, <1>7
<1>11. PipeTypes' /\ MapInv' /\ (Match(g, o) => Match(inFlight', owed'))
  BY <1>2, <1>3, <1>6, <1>8, <1>9, <1>10, PumpKeeps
<1>12. QED
  BY <1>1, <1>7, <1>11

\* The walk goes on when its request has ended.
LEMMA WalkGoesOn ==
    ASSUME PipeTypes, MapInv, safes \subseteq Strips, inFlight # << >>, Head(inFlight).by = Walker
    PROVE  /\ Sound(Rewalked(Resolved(map, Head(inFlight).node)), safes)
           /\ map.awaits \ {Head(inFlight).node} \subseteq Rewalked(Resolved(map, Head(inFlight).node)).awaits
<1>1. PICK f, w, m, n : f = inFlight /\ w = waiting /\ m = map /\ n = Head(f).node
  OBVIOUS
<1>2. f \in Seq(Requests) /\ w \in Seq(Requests) /\ f # << >> /\ Head(f).by = Walker
  BY <1>1 DEF PipeTypes
<1>3. Walkers(f \o w, m.awaits) /\ Sound(m, safes)
  BY <1>1 DEF MapInv
<1>4. n \in m.awaits
  BY <1>1, <1>2, <1>3, WalkersTail
<1>5. m.walk = "listing" /\ n \in Nodes
  BY <1>3, <1>4 DEF Sound, MapType
<1>6. PICK r : r = Resolved(m, n)
  OBVIOUS
<1>7. Sound(r, safes) /\ m.awaits \ {n} \subseteq r.awaits
  <2>1. Sound(Resolved(m, n), safes) /\ m.awaits \ {n} \subseteq Resolved(m, n).awaits
    BY <1>3, <1>5, ResolvedIsSound
  <2>2. QED
    BY <1>6, <2>1
<1>8. Sound(Rewalked(r), safes) /\ r.awaits \subseteq Rewalked(r).awaits
  BY <1>7, RewalkedIsSound
<1>9. QED
  BY <1>1, <1>6, <1>7, <1>8

LEMMA ConnectedKeeps == ASSUME ProxyInv, Connected PROVE ProxyInv'
<1>1. /\ dialing = "pending" /\ dialing' = "no" /\ up' = "connected"
      /\ map' = IF map.walk = "dialing" THEN Listing(map, safes) ELSE Ensured(map, safes, TRUE)
      /\ Pump(waiting \o Asks(map, map'), inFlight, << >>)
      /\ armed' = (inFlight' # << >>) /\ clean' = TRUE /\ stray' = FALSE
      /\ UNCHANGED <<linger, timeouts, tablet, asked, safes, changes, learnt>>
  BY DEF Connected
<1>2. LinkTypes /\ PipeTypes /\ LinkInv /\ MapInv /\ Sound(map, safes) /\ safes \subseteq Strips
  BY DEF ProxyInv, MapInv, LinkTypes
<1>3. inFlight = << >>
  BY <1>1, <1>2 DEF LinkInv
<1>4. PICK m, m2 : m = map /\ m2 = map'
  OBVIOUS
<1>5. Sound(m2, safes) /\ m.awaits \subseteq m2.awaits
  <2>1. CASE m.walk = "dialing"
    <3>1. m \in MapType /\ m.awaits = {}
      BY <1>2, <1>4, <2>1 DEF Sound
    <3>2. Sound(Listing(m, safes), safes)
      BY <1>2, <3>1, ListingIsSound
    <3>3. QED
      BY <1>1, <1>4, <2>1, <3>1, <3>2
  <2>2. CASE m.walk # "dialing"
    <3>1. Sound(Ensured(m, safes, TRUE), safes) /\ m.awaits \subseteq Ensured(m, safes, TRUE).awaits
      BY <1>2, <1>4, TRUE \in BOOLEAN, EnsuredIsSound
    <3>2. QED
      BY <1>1, <1>4, <2>2, <3>1
  <2>3. QED
    BY <2>1, <2>2
<1>6. PICK f, w, o : f = inFlight /\ w = waiting /\ o = << >>
  OBVIOUS
<1>7. f \in Seq(Requests) /\ w \in Seq(Requests) /\ o \in Seq(Owed) /\ Len(f) <= Window /\ Match(f, o)
  BY <1>2, <1>3, <1>6, EmptyQueue DEF PipeTypes
<1>8. m \in MapType /\ Walkers(f \o w, m.awaits)
  BY <1>2, <1>4, <1>6 DEF MapInv, Sound
<1>9. Sound(m2, safes') /\ map' = m2 /\ Pump(w \o Asks(m, m2), f, o) /\ armed' = (inFlight' # << >>)
  BY <1>1, <1>4, <1>5, <1>6
<1>10. PICK A0 : A0 = m.awaits
  OBVIOUS
<1>11. Walkers(f \o w, A0) /\ A0 \subseteq m.awaits /\ A0 \subseteq m2.awaits
  BY <1>5, <1>8, <1>10
<1>12. PipeTypes' /\ MapInv' /\ Match(inFlight', owed')
  BY <1>7, <1>8, <1>9, <1>11, PumpKeeps
<1>13. MatchInv'
  BY <1>1, <1>12 DEF MatchInv, Match
<1>14. LinkInv' /\ LinkTypes'
  BY <1>1, <1>2 DEF LinkInv, LinkTypes
<1>15. QED
  BY <1>12, <1>13, <1>14 DEF ProxyInv

LEMMA MatchedHead ==
    ASSUME NEW f \in Seq(Requests), NEW o \in Seq(Owed), Match(f, o), o # << >>
    PROVE  f # << >> /\ Head(o).req = Head(f) /\ Match(Tail(f), Tail(o))
<1>1. Len(f) = Len(o) /\ \A i \in 1..Len(f) : o[i].req = f[i]
  BY DEF Match
<1>2. Len(o) \in Nat /\ Len(o) # 0
  BY EmptySeq
<1>3. f # << >>
  BY <1>1, <1>2
<1>4. /\ Len(Tail(f)) = Len(f) - 1 /\ Head(f) = f[1] /\ \A i \in 1..Len(Tail(f)) : Tail(f)[i] = f[i + 1]
      /\ Len(Tail(o)) = Len(o) - 1 /\ Head(o) = o[1] /\ \A i \in 1..Len(Tail(o)) : Tail(o)[i] = o[i + 1]
  BY <1>3, HeadTailProperties
<1>5. 1 \in 1..Len(f) /\ Head(o).req = Head(f)
  BY <1>1, <1>2, <1>4
<1>6. \A i \in 1..Len(Tail(f)) : i + 1 \in 1..Len(f) /\ i \in 1..Len(Tail(o))
  BY <1>1, <1>2, <1>4
<1>7. \A i \in 1..Len(Tail(f)) : Tail(o)[i].req = Tail(f)[i]
  BY <1>1, <1>4, <1>6
<1>8. Match(Tail(f), Tail(o))
  BY <1>1, <1>4, <1>7 DEF Match
<1>9. QED
  BY <1>3, <1>5, <1>8

LEMMA ToldHead ==
    ASSUME NEW f, NEW o \in Seq(Owed), o # << >>, NEW o2, o2 = [o EXCEPT ![1].told = TRUE]
    PROVE  o2 \in Seq(Owed) /\ (Match(f, o) => Match(f, o2))
<1>1. PICK n : n = Len(o) /\ n \in Nat /\ n # 0 /\ 1 \in 1..n
  <2>1. Len(o) \in Nat /\ Len(o) # 0
    BY EmptySeq
  <2>2. QED
    BY <2>1
<1>2. o \in [1..n -> Owed]
  BY <1>1
<1>3. o2 = [i \in 1..n |-> IF i = 1 THEN [o[1] EXCEPT !.told = TRUE] ELSE o[i]]
  BY <1>1, <1>2
<1>4. o[1] \in Owed /\ [o[1] EXCEPT !.told = TRUE] \in Owed /\ [o[1] EXCEPT !.told = TRUE].req = o[1].req
  <2>1. o[1] \in Owed
    BY <1>1, <1>2
  <2>2. QED
    BY <2>1 DEF Owed
<1>5. \A i \in 1..n : o2[i] \in Owed /\ o2[i].req = o[i].req
  BY <1>2, <1>3, <1>4
<1>6. o2 \in [1..n -> Owed]
  BY <1>3, <1>5
<1>7. o2 \in Seq(Owed) /\ Len(o2) = n
  <2> HIDE DEF Owed
  <2>1. QED
    BY <1>1, <1>6
<1>8. ASSUME Match(f, o) PROVE Match(f, o2)
  <2>1. Len(f) = n /\ \A i \in 1..n : o[i].req = f[i]
    BY <1>1, <1>8 DEF Match
  <2>2. QED
    BY <1>5, <1>7, <2>1 DEF Match
<1>9. QED
  BY <1>7, <1>8

LEMMA DefinitionsKeeps == ASSUME ProxyInv, Definitions PROVE ProxyInv'
<1>1. PICK q, heard : q = Head(owed).req /\ heard = (inFlight # << >> /\ Head(inFlight).kind = "def")
  OBVIOUS
<1>2. /\ owed # << >> /\ owed' = [owed EXCEPT ![1].told = TRUE] /\ learnt' = learnt \cup {q.node}
      /\ stray' = (stray \/ (heard /\ Misled(q)))
      /\ map' = IF heard /\ Head(inFlight).by = Walker /\ Head(inFlight).node = Root
                THEN [map EXCEPT !.root = IF @ # "unknown" THEN @ ELSE IF q.node = Root THEN "right" ELSE "wrong"]
                ELSE map
      /\ UNCHANGED <<up, dialing, linger, waiting, inFlight, armed, timeouts, tablet, asked, safes, changes, clean>>
  BY <1>1 DEF Definitions, link
<1>3. LinkTypes /\ PipeTypes /\ LinkInv /\ MatchInv /\ MapInv /\ Sound(map, safes)
  BY DEF ProxyInv, MapInv
<1>4. PICK f, o, o2 : f = inFlight /\ o = owed /\ o2 = owed'
  OBVIOUS
<1>5. f \in Seq(Requests) /\ o \in Seq(Owed) /\ o # << >> /\ o2 = [o EXCEPT ![1].told = TRUE]
  BY <1>2, <1>3, <1>4 DEF PipeTypes
<1>6. o2 \in Seq(Owed) /\ (Match(f, o) => Match(f, o2))
  BY <1>5, ToldHead
<1>7. PipeTypes'
  BY <1>2, <1>3, <1>4, <1>6 DEF PipeTypes
<1>8. ASSUME clean PROVE ~stray' /\ Match(f, o2)
  <2>1. ~stray /\ Match(f, o)
    BY <1>3, <1>4, <1>8 DEF MatchInv
  <2>2. q = Head(inFlight)
    BY <1>1, <1>4, <1>5, <2>1, MatchedHead
  <2>3. ~Misled(q)
    BY <2>2 DEF Misled
  <2>4. QED
    BY <1>2, <1>6, <2>1, <2>3
<1>9. MatchInv'
  <2>1. Match(inFlight, owed)' = Match(f, o2)
    BY <1>2, <1>4 DEF Match
  <2>2. QED
    BY <1>2, <1>8, <2>1 DEF MatchInv
<1>10. q \in Requests /\ q.node \in Nodes
  <2>1. Head(o) \in Owed
    BY <1>5
  <2>2. q \in Requests
    BY <1>1, <1>4, <2>1 DEF Owed
  <2>3. QED
    BY <2>2 DEF Requests
<1>11. (heard /\ Misled(q)) \in BOOLEAN
  OBVIOUS
<1>12. stray' \in BOOLEAN
  BY <1>2
<1>13. LinkTypes'
  BY <1>2, <1>3, <1>10, <1>12 DEF LinkTypes
<1>14. PICK m, m2 : m = map /\ m2 = map'
  OBVIOUS
<1>15. m \in MapType
  BY <1>3, <1>14 DEF Sound
<1>16. Sound(m2, safes) /\ m2.awaits = m.awaits
  <2>1. CASE m2 = m
    BY <1>3, <1>14, <2>1
  <2>2. CASE m2 = [m EXCEPT !.root = IF @ # "unknown" THEN @ ELSE IF q.node = Root THEN "right" ELSE "wrong"]
    <3>1. m2 \in MapType
      BY <1>15, <2>2 DEF MapType
    <3>2. m2.walk = m.walk /\ m2.awaits = m.awaits /\ m2.targets = m.targets /\ m2.state = m.state
      BY <1>15, <2>2 DEF MapType
    <3>3. m2.stale <=> m.stale
      BY <1>15, <2>2 DEF MapType
    <3>4. QED
      BY <1>3, <1>14, <3>1, <3>2, <3>3, SameWalkIsSound
  <2>3. QED
    BY <1>2, <1>14, <2>1, <2>2
<1>17. MapInv'
  BY <1>2, <1>3, <1>14, <1>16 DEF MapInv
<1>18. LinkInv'
  BY <1>2, <1>3, <1>4, <1>5 DEF LinkInv
<1>19. QED
  BY <1>7, <1>9, <1>13, <1>17, <1>18 DEF ProxyInv

\* What becomes of the map when the head has ended.
LEMMA EndedIsSound ==
    ASSUME PipeTypes, MapInv, safes \subseteq Strips, inFlight # << >>
    PROVE  /\ Sound(Ended(Head(inFlight)), safes)
           /\ IF Head(inFlight).by = Walker THEN map.awaits \ {Head(inFlight).node} \subseteq Ended(Head(inFlight)).awaits
              ELSE map.awaits \subseteq Ended(Head(inFlight)).awaits
<1>1. PICK m, h : m = map /\ h = Head(inFlight)
  OBVIOUS
<1>2. Sound(m, safes) /\ m \in MapType
  BY <1>1 DEF MapInv, Sound
<1>3. h \in Requests /\ h.node \in Nodes
  <2>1. h \in Requests
    BY <1>1 DEF PipeTypes
  <2>2. QED
    BY <2>1 DEF Requests
<1>4. CASE h.by = Walker
  <2>1. Ended(h) = Rewalked(Resolved(map, h.node))
    BY <1>4 DEF Ended
  <2>2. QED
    BY <1>1, <1>4, <2>1, WalkGoesOn
<1>5. CASE h.by # Walker /\ h.kind = "def" /\ h.node # Root
  <2>1. PICK m2 : m2 = [m EXCEPT !.complete = @ \cup {h.node}]
    OBVIOUS
  <2>2. m2 \in MapType /\ m2.walk = m.walk /\ m2.awaits = m.awaits /\ m2.targets = m.targets /\ m2.state = m.state
    BY <1>2, <1>3, <2>1 DEF MapType
  <2>3. m2.stale <=> m.stale
    BY <1>2, <2>1 DEF MapType
  <2>4. Sound(m2, safes)
    BY <1>2, <2>2, <2>3, SameWalkIsSound
  <2>5. Ended(h) = m2
    BY <1>1, <1>5, <2>1 DEF Ended
  <2>6. QED
    BY <1>1, <1>5, <2>2, <2>4, <2>5
<1>6. CASE h.by # Walker /\ ~(h.kind = "def" /\ h.node # Root)
  <2>1. Ended(h) = m
    BY <1>1, <1>6 DEF Ended
  <2>2. QED
    BY <1>1, <1>2, <1>6, <2>1
<1>7. QED
  BY <1>4, <1>5, <1>6

LEMMA EndKeeps == ASSUME ProxyInv, End PROVE ProxyInv'
<1>1. /\ owed # << >> /\ timeouts' = 0 /\ stray' = (stray \/ Misled(Head(owed).req))
      /\ IF inFlight = << >> THEN owed' = Tail(owed) /\ UNCHANGED <<waiting, inFlight, armed, map>>
         ELSE FinishHead(Ended(Head(inFlight)), Tail(owed))
      /\ UNCHANGED <<up, dialing, linger, tablet, asked, safes, changes, learnt, clean>>
  BY DEF End, link
<1>2. LinkTypes /\ PipeTypes /\ LinkInv /\ MatchInv /\ MapInv /\ safes \subseteq Strips
  BY DEF ProxyInv, LinkTypes
<1>3. PICK f, o, o2 : f = inFlight /\ o = owed /\ o2 = Tail(o)
  OBVIOUS
<1>4. f \in Seq(Requests) /\ o \in Seq(Owed) /\ o # << >>
  BY <1>1, <1>2, <1>3 DEF PipeTypes
<1>5. o2 \in Seq(Owed)
  BY <1>3, <1>4, HeadTailProperties
<1>6. PipeTypes' /\ MapInv' /\ (f # << >> /\ Match(Tail(f), o2) => Match(inFlight', owed'))
  <2>1. CASE f = << >>
    <3>1. UNCHANGED <<waiting, inFlight, armed, map, safes>> /\ owed' = o2
      BY <1>1, <1>3, <2>1
    <3>2. QED
      BY <1>2, <1>5, <2>1, <3>1 DEF PipeTypes, MapInv
  <2>2. CASE f # << >>
    <3>1. PICK m2 : m2 = Ended(Head(inFlight))
      OBVIOUS
    <3>2. /\ Sound(m2, safes)
          /\ IF Head(inFlight).by = Walker THEN map.awaits \ {Head(inFlight).node} \subseteq m2.awaits
             ELSE map.awaits \subseteq m2.awaits
      BY <1>2, <1>3, <2>2, <3>1, EndedIsSound
    <3>3. FinishHead(m2, o2) /\ safes' = safes /\ inFlight # << >>
      BY <1>1, <1>3, <2>2, <3>1
    <3>4. QED
      BY <1>2, <1>3, <1>5, <3>2, <3>3, FinishHeadKeeps
  <2>3. QED
    BY <2>1, <2>2
<1>7. Match(inFlight, owed)' = Match(inFlight', owed')
  BY DEF Match
<1>8. ASSUME clean PROVE ~stray' /\ Match(inFlight, owed)'
  <2>1. ~stray /\ Match(f, o)
    BY <1>2, <1>3, <1>8 DEF MatchInv
  <2>2. f # << >> /\ Head(o).req = Head(f) /\ Match(Tail(f), o2)
    BY <1>3, <1>4, <2>1, MatchedHead
  <2>3. ~Misled(Head(owed).req)
    BY <1>3, <2>2 DEF Misled
  <2>4. QED
    BY <1>1, <1>6, <1>7, <2>1, <2>2, <2>3
<1>9. MatchInv'
  BY <1>1, <1>8 DEF MatchInv
<1>10. up = "connected" /\ LinkInv'
  BY <1>1, <1>2 DEF LinkInv
<1>11. stray' \in BOOLEAN
  BY <1>1
<1>12. LinkTypes'
  BY <1>1, <1>2, <1>11, LimitsAssumption DEF LinkTypes
<1>13. QED
  BY <1>6, <1>9, <1>10, <1>12 DEF ProxyInv

LEMMA IgnoredKeeps == ASSUME ProxyInv, Ignored PROVE ProxyInv'
<1>1. /\ owed # << >> /\ owed' = Tail(owed) /\ clean' = FALSE
      /\ UNCHANGED <<up, dialing, linger, waiting, inFlight, armed, timeouts, tablet, asked, safes, changes, learnt, map, stray>>
  BY DEF Ignored, link
<1>2. LinkTypes /\ PipeTypes /\ LinkInv /\ MapInv
  BY DEF ProxyInv
<1>3. owed' \in Seq(Owed)
  BY <1>1, <1>2, HeadTailProperties DEF PipeTypes
<1>4. PipeTypes' /\ MapInv' /\ LinkTypes' /\ MatchInv'
  BY <1>1, <1>2, <1>3 DEF PipeTypes, MapInv, LinkTypes, MatchInv
<1>5. LinkInv'
  BY <1>1, <1>2 DEF LinkInv
<1>6. QED
  BY <1>4, <1>5 DEF ProxyInv

LEMMA ClosedTabletsTyped ==
    ASSUME LinkTypes, CloseTablets
    PROVE  tablet' \in [Tablets -> {"new", "open", "closed"}] /\ linger' \in BOOLEAN
<1>1. tablet' = [t \in Tablets |-> IF t \in Open THEN "closed" ELSE tablet[t]] /\ linger' = (linger \/ Open # {})
  BY DEF CloseTablets
<1>2. tablet \in [Tablets -> {"new", "open", "closed"}]
  BY DEF LinkTypes
<1>3. QED
  BY <1>1, <1>2

\* Nothing is kept of a connection that is closed, and the walk ends.
LEMMA ClosedKeeps ==
    ASSUME PipeTypes, MapInv, NEW gone \in SUBSET Nodes, Closed(gone), safes' = safes
    PROVE  PipeTypes' /\ MapInv' /\ up' = "disconnected" /\ inFlight' = << >> /\ owed' = << >>
<1>1. PICK d : d = inFlight \o waiting
  OBVIOUS
<1>2. PICK nodes : nodes = {(inFlight \o waiting)[i].node :
                            i \in {j \in DOMAIN (inFlight \o waiting) : (inFlight \o waiting)[j].by = Walker}} \cup gone
  OBVIOUS
<1>3. PICK m : m = map
  OBVIOUS
<1>4. PICK cut : cut = [map EXCEPT !.stale = TRUE, !.complete = @ \cup nodes, !.awaits = {},
                                !.root = IF Root \in nodes /\ @ = "unknown" THEN "right" ELSE @]
  OBVIOUS
<1>5. /\ up' = "disconnected" /\ waiting' = << >> /\ inFlight' = << >> /\ owed' = << >> /\ armed' = FALSE
      /\ (m.walk # "listing" /\ map' = cut) \/ (m.walk = "listing" /\ (map' = Finished(cut) \/ map' = Failed(cut)))
  <2>1. up' = "disconnected" /\ waiting' = << >> /\ inFlight' = << >> /\ owed' = << >> /\ armed' = FALSE
    BY Zenon DEF Closed
  <2>2. PICK over : map' = IF map.walk # "listing" THEN cut ELSE IF over THEN Finished(cut) ELSE Failed(cut)
    BY <1>2, <1>4, Zenon DEF Closed
  <2>3. QED
    BY <1>3, <2>1, <2>2
<1>6. d \in Seq(Requests)
  BY <1>1, ConcatProperties DEF PipeTypes
<1>7. nodes \subseteq Nodes
  <2>1. \A i \in DOMAIN d : d[i] \in Requests
    BY <1>6
  <2>2. \A i \in DOMAIN d : d[i].node \in Nodes
    BY <2>1 DEF Requests
  <2>3. QED
    BY <1>1, <1>2, <2>2
<1>8. m \in MapType
  BY <1>3 DEF MapInv, Sound
<1>9. cut \in MapType /\ cut.walk = m.walk /\ cut.awaits = {}
  BY <1>3, <1>4, <1>7, <1>8 DEF MapType
<1>10. cut.stale
  BY <1>3, <1>4, <1>8 DEF MapType
<1>11. Fresh(cut, safes)
  BY <1>10 DEF Fresh
<1>12. PICK m2 : m2 = map'
  OBVIOUS
<1>13. Sound(m2, safes)
  <2>1. CASE m2 = Failed(cut)
    BY <1>9, <2>1, FailedIsSound
  <2>2. CASE m2 = Finished(cut) /\ m.walk = "listing"
    BY <1>9, <1>11, <2>2, FinishedIsSound
  <2>3. CASE m2 = cut /\ m.walk # "listing"
    BY <1>9, <1>11, <2>3 DEF Sound
  <2>4. QED
    BY <1>5, <1>12, <2>1, <2>2, <2>3
<1>14. Walkers(<< >> \o << >>, m2.awaits)
  BY EmptyQueue
<1>15. MapInv'
  BY <1>5, <1>12, <1>13, <1>14 DEF MapInv
<1>16. << >> \in Seq(Requests) /\ << >> \in Seq(Owed) /\ Len(<< >>) = 0
  OBVIOUS
<1>17. Len(<< >>) <= Window
  BY <1>16, LimitsAssumption
<1>18. PipeTypes'
  BY <1>5, <1>16, <1>17 DEF PipeTypes
<1>19. QED
  BY <1>5, <1>15, <1>18

LEMMA ConnectionLostKeeps == ASSUME ProxyInv, ConnectionLost PROVE ProxyInv'
<1>1. /\ Closed({}) /\ CloseTablets
      /\ UNCHANGED <<dialing, timeouts, asked, safes, changes, learnt, clean, stray>>
  BY DEF ConnectionLost
<1>2. LinkTypes /\ PipeTypes /\ LinkInv /\ MatchInv /\ MapInv
  BY DEF ProxyInv
<1>3. {} \in SUBSET Nodes
  OBVIOUS
<1>4. PipeTypes' /\ MapInv' /\ up' = "disconnected" /\ inFlight' = << >> /\ owed' = << >>
  BY <1>1, <1>2, <1>3, ClosedKeeps
<1>5. LinkTypes'
  BY <1>1, <1>2, <1>4, ClosedTabletsTyped DEF LinkTypes
<1>6. LinkInv' /\ MatchInv'
  BY <1>1, <1>2, <1>4, EmptyQueue DEF LinkInv, MatchInv
<1>7. QED
  BY <1>4, <1>5, <1>6 DEF ProxyInv

LEMMA LingerKeeps == ASSUME ProxyInv, LingerFires PROVE ProxyInv'
<1>1. /\ linger' = FALSE
      /\ Closed({}) \/ UNCHANGED <<up, waiting, inFlight, armed, owed, map>>
      /\ UNCHANGED <<dialing, timeouts, tablet, asked, safes, changes, learnt, clean, stray>>
  BY DEF LingerFires
<1>2. LinkTypes /\ PipeTypes /\ LinkInv /\ MatchInv /\ MapInv
  BY DEF ProxyInv
<1>3. CASE Closed({})
  <2>1. {} \in SUBSET Nodes
    OBVIOUS
  <2>2. PipeTypes' /\ MapInv' /\ up' = "disconnected" /\ inFlight' = << >> /\ owed' = << >>
    BY <1>1, <1>2, <1>3, <2>1, ClosedKeeps
  <2>3. LinkTypes' /\ LinkInv' /\ MatchInv'
    BY <1>1, <1>2, <2>2, EmptyQueue DEF LinkTypes, LinkInv, MatchInv
  <2>4. QED
    BY <2>2, <2>3 DEF ProxyInv
<1>4. CASE UNCHANGED <<up, waiting, inFlight, armed, owed, map>>
  <2>1. PipeTypes' /\ MapInv' /\ MatchInv'
    BY <1>1, <1>2, <1>4 DEF PipeTypes, MapInv, MatchInv
  <2>2. LinkTypes' /\ LinkInv'
    BY <1>1, <1>2, <1>4 DEF LinkTypes, LinkInv
  <2>3. QED
    BY <2>1, <2>2 DEF ProxyInv
<1>5. QED
  BY <1>1, <1>3, <1>4

LEMMA TimeoutKeeps == ASSUME ProxyInv, Timeout PROVE ProxyInv'
<1>1. PICK h : h = Head(inFlight)
  OBVIOUS
<1>2. /\ armed /\ timeouts' = IF timeouts < MaxTimeouts THEN timeouts + 1 ELSE timeouts
      /\ \/ Closed(IF h.by = Walker THEN {h.node} ELSE {}) /\ CloseTablets
         \/ /\ FinishHead(IF h.by = Walker THEN Rewalked(Resolved(map, h.node)) ELSE map, owed)
            /\ UNCHANGED <<up, tablet, linger>>
      /\ clean' = FALSE
      /\ UNCHANGED <<dialing, asked, safes, changes, learnt, stray>>
  BY <1>1 DEF Timeout
<1>3. LinkTypes /\ PipeTypes /\ LinkInv /\ MapInv /\ safes \subseteq Strips /\ Sound(map, safes)
  BY DEF ProxyInv, LinkTypes, MapInv
<1>4. inFlight # << >> /\ up = "connected"
  BY <1>2, <1>3 DEF PipeTypes, LinkInv
<1>5. timeouts' \in 0..MaxTimeouts
  BY <1>2, <1>3, LimitsAssumption DEF LinkTypes
<1>6. h.node \in Nodes
  <2>1. h \in Requests
    BY <1>1, <1>3, <1>4 DEF PipeTypes
  <2>2. QED
    BY <2>1 DEF Requests
<1>7. MatchInv'
  BY <1>2 DEF MatchInv
<1>8. CASE Closed(IF h.by = Walker THEN {h.node} ELSE {}) /\ CloseTablets
  <2>1. PICK gone : gone = IF h.by = Walker THEN {h.node} ELSE {}
    OBVIOUS
  <2>2. gone \in SUBSET Nodes /\ Closed(gone) /\ safes' = safes
    BY <1>2, <1>6, <1>8, <2>1
  <2>3. PipeTypes' /\ MapInv' /\ up' = "disconnected" /\ inFlight' = << >> /\ owed' = << >>
    BY <1>3, <2>2, ClosedKeeps
  <2>4. LinkTypes'
    BY <1>2, <1>3, <1>5, <1>8, <2>3, ClosedTabletsTyped DEF LinkTypes
  <2>5. LinkInv'
    BY <2>3 DEF LinkInv
  <2>6. QED
    BY <1>7, <2>3, <2>4, <2>5 DEF ProxyInv
<1>9. CASE /\ FinishHead(IF h.by = Walker THEN Rewalked(Resolved(map, h.node)) ELSE map, owed)
           /\ UNCHANGED <<up, tablet, linger>>
  <2>1. PICK m2, o : m2 = (IF h.by = Walker THEN Rewalked(Resolved(map, h.node)) ELSE map) /\ o = owed
    OBVIOUS
  <2>2. /\ Sound(m2, safes)
        /\ IF Head(inFlight).by = Walker THEN map.awaits \ {Head(inFlight).node} \subseteq m2.awaits
           ELSE map.awaits \subseteq m2.awaits
    <3>1. CASE h.by = Walker
      BY <1>1, <1>3, <1>4, <2>1, <3>1, WalkGoesOn
    <3>2. CASE h.by # Walker
      BY <1>1, <1>3, <2>1, <3>2
    <3>3. QED
      BY <3>1, <3>2
  <2>3. FinishHead(m2, o) /\ safes' = safes /\ o \in Seq(Owed)
    BY <1>2, <1>3, <1>9, <2>1 DEF PipeTypes
  <2>4. PipeTypes' /\ MapInv'
    BY <1>3, <1>4, <2>2, <2>3, FinishHeadKeeps
  <2>5. LinkTypes' /\ LinkInv'
    BY <1>2, <1>3, <1>4, <1>5, <1>9 DEF LinkTypes, LinkInv
  <2>6. QED
    BY <1>7, <2>4, <2>5 DEF ProxyInv
<1>10. QED
  BY <1>2, <1>8, <1>9

LEMMA DialFailsKeeps == ASSUME ProxyInv, DialFails PROVE ProxyInv'
<1>1. PICK m, m2 : m = map /\ m2 = map'
  OBVIOUS
<1>2. /\ dialing = "pending"
      /\ \/ /\ dialing' \in {"pending", "no"} /\ up' = "disconnected" /\ waiting' = << >>
            /\ m2 \in {[m EXCEPT !.stale = TRUE], [m EXCEPT !.late = {}], [Failed(m) EXCEPT !.stale = TRUE]}
            /\ CloseTablets
         \/ dialing' = "dead" /\ UNCHANGED <<up, waiting, map, tablet, linger>>
      /\ UNCHANGED <<inFlight, armed, timeouts, owed, asked, safes, changes, learnt, clean, stray>>
  BY <1>1 DEF DialFails
<1>3. LinkTypes /\ PipeTypes /\ LinkInv /\ MatchInv /\ MapInv /\ Sound(m, safes) /\ m \in MapType
  BY <1>1 DEF ProxyInv, MapInv, Sound
<1>4. inFlight = << >> /\ owed = << >>
  BY <1>2, <1>3 DEF LinkInv
<1>5. MatchInv'
  BY <1>2, <1>3 DEF MatchInv
<1>6. CASE /\ dialing' \in {"pending", "no"} /\ up' = "disconnected" /\ waiting' = << >>
           /\ m2 \in {[m EXCEPT !.stale = TRUE], [m EXCEPT !.late = {}], [Failed(m) EXCEPT !.stale = TRUE]}
           /\ CloseTablets
  <2>1. Sound(m2, safes)
    <3>1. CASE m2 = [m EXCEPT !.stale = TRUE]
      BY <1>3, <3>1, StaleIsSound
    <3>2. CASE m2 = [m EXCEPT !.late = {}]
      <4>1. m2 \in MapType /\ m2.walk = m.walk /\ m2.awaits = m.awaits /\ m2.targets = m.targets /\ m2.state = m.state
        BY <1>3, <3>2 DEF MapType
      <4>2. m2.stale <=> m.stale
        BY <1>3, <3>2 DEF MapType
      <4>3. QED
        BY <1>3, <4>1, <4>2, SameWalkIsSound
    <3>3. CASE m2 = [Failed(m) EXCEPT !.stale = TRUE]
      <4>1. PICK e : e = Failed(m)
        OBVIOUS
      <4>2. Sound(e, safes)
        BY <1>3, <4>1, FailedIsSound
      <4>3. m2 = [e EXCEPT !.stale = TRUE]
        BY <3>3, <4>1
      <4>4. QED
        BY <4>2, <4>3, StaleIsSound
    <3>4. QED
      BY <1>6, <3>1, <3>2, <3>3
  <2>2. Walkers(<< >> \o << >>, m2.awaits)
    BY EmptyQueue
  <2>3. MapInv'
    BY <1>1, <1>2, <1>4, <1>6, <2>1, <2>2 DEF MapInv
  <2>4. waiting' \in Seq(Requests)
    BY <1>6
  <2>5. PipeTypes'
    BY <1>2, <1>3, <2>4 DEF PipeTypes
  <2>6. LinkTypes' /\ LinkInv'
    BY <1>2, <1>3, <1>4, <1>6, ClosedTabletsTyped DEF LinkTypes, LinkInv
  <2>7. QED
    BY <1>5, <2>3, <2>5, <2>6 DEF ProxyInv
<1>7. CASE dialing' = "dead" /\ UNCHANGED <<up, waiting, map, tablet, linger>>
  <2>1. PipeTypes' /\ MapInv'
    BY <1>2, <1>3, <1>7 DEF PipeTypes, MapInv
  <2>2. LinkTypes' /\ LinkInv'
    BY <1>2, <1>3, <1>7 DEF LinkTypes, LinkInv
  <2>3. QED
    BY <1>5, <2>1, <2>2 DEF ProxyInv
<1>8. QED
  BY <1>2, <1>6, <1>7

LEMMA ChangeSafesKeeps == ASSUME ProxyInv, NEW S \in SUBSET Strips, ChangeSafes(S) PROVE ProxyInv'
<1>1. PICK stale, c : stale = [map EXCEPT !.stale = TRUE] /\ c = (up = "connected")
  OBVIOUS
<1>2. PICK m2 : m2 = IF Open = {} THEN stale ELSE Ensured(stale, S, c)
  OBVIOUS
<1>3. /\ changes < MaxChanges /\ changes' = changes + 1 /\ safes' = S
      /\ map' = m2 /\ Request(Asks(map, m2))
      /\ Dial \/ UNCHANGED <<up, dialing>>
      /\ UNCHANGED <<linger, timeouts, tablet, asked, learnt, clean, stray>>
  BY <1>1, <1>2 DEF ChangeSafes
<1>4. LinkTypes /\ PipeTypes /\ LinkInv /\ MatchInv /\ MapInv /\ Sound(map, safes)
  BY DEF ProxyInv, MapInv
<1>5. PICK m : m = map
  OBVIOUS
<1>6. Sound(stale, S) /\ stale.awaits = m.awaits
  <2>1. Sound(m, safes) /\ stale = [m EXCEPT !.stale = TRUE]
    BY <1>1, <1>4, <1>5
  <2>2. QED
    BY <2>1, StaleIsSound
<1>7. Sound(m2, S) /\ m.awaits \subseteq m2.awaits
  <2>1. c \in BOOLEAN
    BY <1>1
  <2>2. Sound(Ensured(stale, S, c), S) /\ stale.awaits \subseteq Ensured(stale, S, c).awaits
    BY <1>6, <2>1, EnsuredIsSound
  <2>3. QED
    BY <1>2, <1>6, <2>2
<1>8. /\ PipeTypes' /\ (Match(inFlight, owed) => Match(inFlight, owed)') /\ MapInv'
      /\ up # "connected" => UNCHANGED <<inFlight, owed>>
  <2>1. Sound(m2, safes') /\ map.awaits \subseteq m2.awaits /\ map' = m2
    BY <1>3, <1>5, <1>7
  <2>2. Request(Asks(map, map'))
    BY <1>3
  <2>3. QED
    BY <1>4, <2>1, <2>2, AskingKeeps
<1>9. up' \in {"disconnected", "connecting", "connected"} /\ dialing' \in {"no", "pending", "dead"} /\ LinkInv'
  <2>1. CASE Dial
    BY <1>4, <1>8, <2>1, DialLinks
  <2>2. CASE UNCHANGED <<up, dialing>>
    BY <1>4, <1>8, <2>2 DEF LinkTypes, LinkInv
  <2>3. QED
    BY <1>3, <2>1, <2>2
<1>10. changes' \in 0..MaxChanges
  BY <1>3, <1>4, LimitsAssumption DEF LinkTypes
<1>11. LinkTypes'
  BY <1>3, <1>4, <1>9, <1>10 DEF LinkTypes
<1>12. MatchInv'
  BY <1>3, <1>4, <1>8 DEF MatchInv
<1>13. QED
  BY <1>8, <1>9, <1>11, <1>12 DEF ProxyInv

LEMMA InitIsSound == Init => ProxyInv
<1> SUFFICES ASSUME Init PROVE ProxyInv
  OBVIOUS
<1>1. LinkTypes
  <2>1. 0 \in 0..MaxAsks /\ 0 \in 0..MaxChanges /\ 0 \in 0..MaxTimeouts
    BY LimitsAssumption
  <2>2. tablet \in [Tablets -> {"new", "open", "closed"}] /\ asked \in [Tablets -> 0..MaxAsks]
    BY <2>1 DEF Init
  <2>3. safes \subseteq Strips /\ learnt \subseteq Nodes
    BY DEF Init
  <2>4. /\ up \in {"disconnected", "connecting", "connected"} /\ dialing \in {"no", "pending", "dead"}
        /\ linger \in BOOLEAN /\ clean \in BOOLEAN /\ stray \in BOOLEAN
    BY DEF Init
  <2>5. timeouts \in 0..MaxTimeouts /\ changes \in 0..MaxChanges
    BY <2>1 DEF Init
  <2>6. QED
    BY <2>2, <2>3, <2>4, <2>5 DEF LinkTypes
<1>2. << >> \in Seq(Requests) /\ << >> \in Seq(Owed) /\ Len(<< >>) = 0
  OBVIOUS
<1>3. Len(<< >>) <= Window
  BY <1>2, LimitsAssumption
<1>4. PipeTypes
  BY <1>2, <1>3 DEF Init, PipeTypes
<1>5. LinkInv
  BY DEF Init, LinkInv
<1>6. MatchInv
  BY EmptyQueue DEF Init, MatchInv
<1>7. PICK m : m = map
  OBVIOUS
<1>8. m = [state |-> "idle", stale |-> FALSE, walk |-> "no", awaits |-> {},
           targets |-> {}, late |-> {}, complete |-> {}, root |-> "unknown"]
  BY <1>7 DEF Init
<1>9. m \in MapType /\ m.walk = "no" /\ m.state = "idle" /\ m.awaits = {}
  BY <1>8 DEF MapType
<1>10. Sound(m, safes)
  BY <1>9 DEF Sound, Fresh
<1>11. Walkers(<< >> \o << >>, m.awaits)
  BY EmptyQueue
<1>12. MapInv
  BY <1>7, <1>10, <1>11 DEF Init, MapInv
<1>13. QED
  BY <1>1, <1>4, <1>5, <1>6, <1>12 DEF ProxyInv

LEMMA ProxyStep == ASSUME ProxyInv, [Next]_vars PROVE ProxyInv'
<1>1. ASSUME NEW t \in Tablets, Accept(t) PROVE ProxyInv'
  BY <1>1, AcceptKeeps
<1>2. ASSUME NEW t \in Tablets, Leave(t) PROVE ProxyInv'
  BY <1>2, LeaveKeeps
<1>3. ASSUME NEW t \in Tablets, NEW node \in Nodes, Ask(t, "def", node) PROVE ProxyInv'
  <2>1. PICK kind : kind = "def"
    OBVIOUS
  <2>2. Ask(t, kind, node) /\ kind \in {"def", "data"}
    BY <1>3, <2>1
  <2>3. QED
    BY <2>2, AskKeeps
<1>4. ASSUME NEW t \in Tablets, Ask(t, "data", Root) PROVE ProxyInv'
  <2>1. PICK kind : kind = "data"
    OBVIOUS
  <2>2. Ask(t, kind, Root) /\ kind \in {"def", "data"} /\ Root \in Nodes
    BY <1>4, <2>1 DEF Nodes
  <2>3. QED
    BY <2>2, AskKeeps
<1>5. ASSUME NEW S \in SUBSET Strips, ChangeSafes(S) PROVE ProxyInv'
  BY <1>5, ChangeSafesKeeps
<1>6. CASE Connected
  BY <1>6, ConnectedKeeps
<1>7. CASE DialFails
  BY <1>7, DialFailsKeeps
<1>8. CASE ConnectionLost
  BY <1>8, ConnectionLostKeeps
<1>9. CASE LingerFires
  BY <1>9, LingerKeeps
<1>10. CASE Definitions
  BY <1>10, DefinitionsKeeps
<1>11. CASE End
  BY <1>11, EndKeeps
<1>12. CASE Timeout
  BY <1>12, TimeoutKeeps
<1>13. CASE Ignored
  BY <1>13, IgnoredKeeps
<1>14. CASE UNCHANGED vars
  <2>1. UNCHANGED <<up, dialing, linger, waiting, inFlight, armed, timeouts, owed, tablet, asked,
                    safes, changes, learnt, map, clean, stray>>
    BY <1>14 DEF vars, link, pipe
  <2>2. LinkTypes' /\ PipeTypes' /\ LinkInv' /\ MatchInv' /\ MapInv'
    BY <2>1 DEF ProxyInv, LinkTypes, PipeTypes, LinkInv, MatchInv, MapInv
  <2>3. QED
    BY <2>2 DEF ProxyInv
<1>15. QED
  BY <1>1, <1>2, <1>3, <1>4, <1>5, <1>6, <1>7, <1>8, <1>9, <1>10, <1>11, <1>12, <1>13, <1>14 DEF Next

LEMMA AlwaysSound == Spec => []ProxyInv
<1>1. QED
  BY InitIsSound, ProxyStep, PTL DEF Spec

-----------------------------------------------------------------------------
(* What is proved.                                                          *)

\* Every part of the proxy keeps to its type, and never more requests are in flight
\* than IN_FLIGHT_WINDOW.
THEOREM ProxyTypes == Spec => []TypeOK
<1>1. ProxyInv => TypeOK
  BY DEF ProxyInv, LinkTypes, PipeTypes, Owed, MapInv, Sound, MapType, TypeOK
<1>2. QED
  BY <1>1, AlwaysSound, PTL

\* While the console answers in time, what it owes is exactly what is in flight, in
\* order, so that each answer goes to the tablet (or the walk) that asked for it: however
\* many tablets share the connection, and whichever leave or lose it meanwhile.
THEOREM AnswersGoHome == Spec => []RepliesGoHome
<1>1. ProxyInv => RepliesGoHome
  BY DEF ProxyInv, MatchInv, RepliesGoHome
<1>2. QED
  BY <1>1, AlwaysSound, PTL

\* A map that is ready, and not marked stale, was walked for the safes now in force:
\* however often they change, with a walk under way, no tablet open or no connection.
THEOREM ReadyMapIsCurrent == Spec => []ReadyIsCurrent
<1>1. ProxyInv => ReadyIsCurrent
  BY DEF ProxyInv, MapInv, Sound, Fresh, ReadyIsCurrent
<1>2. QED
  BY <1>1, AlwaysSound, PTL
=============================================================================
