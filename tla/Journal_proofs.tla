-------------------------- MODULE Journal_proofs --------------------------
(***************************************************************************)
(* Proofs about the write journal that several processes share             *)
(* (WingWriteJournal), and about what a tool call records in it and what   *)
(* its undo puts back on the console (WingUndo).                           *)
(***************************************************************************)
EXTENDS WingWriteJournal, WingUndo, SequenceTheorems, FiniteSetTheorems, WellFoundedInduction, TLAPS
-----------------------------------------------------------------------------
(* WingWriteJournal: what its lists hold.                                   *)

Distinct(list) == \A i, j \in 1..Len(list) : list[i] = list[j] => i = j

LEMMA ItemsOfAppend ==
    ASSUME NEW S, NEW q \in Seq(S), NEW x \in S
    PROVE  /\ Append(q, x) \in Seq(S) /\ Len(Append(q, x)) = Len(q) + 1 /\ Items(Append(q, x)) = Items(q) \cup {x}
           /\ Distinct(q) /\ x \notin Items(q) => Distinct(Append(q, x))
<1> DEFINE r == Append(q, x)
<1>1. /\ Len(q) \in Nat /\ DOMAIN q = 1..Len(q) /\ r \in Seq(S) /\ Len(r) = Len(q) + 1 /\ DOMAIN r = 1..(Len(q) + 1)
      /\ r[Len(q) + 1] = x /\ \A i \in 1..Len(q) : r[i] = q[i]
  OBVIOUS
<1> HIDE DEF r
<1>2. /\ \A i \in 1..(Len(q) + 1) : i \in 1..Len(q) \/ i = Len(q) + 1
      /\ Len(q) + 1 \in 1..(Len(q) + 1) /\ \A i \in 1..Len(q) : i \in 1..(Len(q) + 1)
  BY <1>1
<1>3. Items(r) = Items(q) \cup {x}
  BY <1>1, <1>2 DEF Items
<1>4. ASSUME Distinct(q), x \notin Items(q), NEW i \in 1..Len(r), NEW j \in 1..Len(r), r[i] = r[j] PROVE i = j
  <2>1. \A k \in 1..Len(q) : q[k] # x
    BY <1>1, <1>4 DEF Items
  <2>2. QED
    BY <1>1, <1>2, <1>4, <2>1 DEF Distinct
<1>5. QED
  BY <1>1, <1>3, <1>4 DEF Distinct, r

LEMMA ItemsOfTail ==
    ASSUME NEW S, NEW q \in Seq(S), q # <<>>
    PROVE  /\ Tail(q) \in Seq(S) /\ Len(q) \in Nat /\ Len(Tail(q)) = Len(q) - 1 /\ Items(Tail(q)) \subseteq Items(q)
           /\ Distinct(q) => Distinct(Tail(q))
<1>1. /\ Tail(q) \in Seq(S) /\ Len(q) \in Nat /\ Len(q) > 0 /\ Len(Tail(q)) = Len(q) - 1
      /\ \A i \in 1..(Len(q) - 1) : Tail(q)[i] = q[i + 1]
  BY HeadTailProperties
<1>2. DOMAIN q = 1..Len(q) /\ DOMAIN Tail(q) = 1..(Len(q) - 1)
  BY <1>1
<1>3. ASSUME NEW i \in 1..(Len(q) - 1) PROVE Tail(q)[i] = q[i + 1] /\ i + 1 \in 1..Len(q)
  BY <1>1
<1>4. Items(Tail(q)) \subseteq Items(q)
  BY <1>2, <1>3 DEF Items
<1>5. ASSUME Distinct(q), NEW i \in 1..Len(Tail(q)), NEW j \in 1..Len(Tail(q)), Tail(q)[i] = Tail(q)[j] PROVE i = j
  <2>1. i + 1 = j + 1
    BY <1>1, <1>3, <1>5 DEF Distinct
  <2>2. QED
    BY <2>1
<1>6. QED
  BY <1>1, <1>4, <1>5 DEF Distinct

LEMMA DistinctCounts ==
    ASSUME NEW S, NEW q \in Seq(S), Distinct(q)
    PROVE  IsFiniteSet(Items(q)) /\ Cardinality(Items(q)) = Len(q) /\ Len(q) \in Nat
<1>1. Len(q) \in Nat /\ DOMAIN q = 1..Len(q) /\ q \in [1..Len(q) -> Items(q)]
  BY DEF Items
<1>2. q \in Bijection(1..Len(q), Items(q))
  BY <1>1 DEF Bijection, Injection, IsInjective, Surjection, Distinct, Items
<1>3. IsFiniteSet(1..Len(q)) /\ Cardinality(1..Len(q)) = Len(q)
  <2>1. 1 \in Int /\ Len(q) \in Int
    BY <1>1
  <2>2. IsFiniteSet(1..Len(q)) /\ Cardinality(1..Len(q)) = IF 1 > Len(q) THEN 0 ELSE Len(q) - 1 + 1
    BY ONLY <2>1, FS_Interval
  <2>3. QED
    BY <1>1, <2>2
<1>4. ExistsBijection(1..Len(q), Items(q))
  BY <1>2 DEF ExistsBijection
<1>5. QED
  BY <1>1, <1>3, <1>4, FS_Bijection

-----------------------------------------------------------------------------
(* The numbers in order. *)
LEMMA LeastNumber ==
    ASSUME NEW T, T \subseteq Nat, T # {}
    PROVE  \E x \in T : \A y \in T : ~(y < x)
<1> DEFINE R == OpToRel(<, Nat)
<1>1. \A x, y \in Nat : <<y, x>> \in R <=> y < x
  BY DEF OpToRel
<1>2. IsWellFoundedOn(R, Nat)
  BY NatLessThanWellFounded, Zenon DEF R
<1> HIDE DEF R
<1>3. \E x \in T : \A y \in T : ~(<<y, x>> \in R)
  BY <1>2, WFMin
<1>4. QED
  BY <1>1, <1>3

(* Induction up to a number, with a set for the property. *)
LEMMA UpTo ==
    ASSUME NEW m \in Nat, NEW T, T \subseteq 0..m, 0 \in T, \A n \in T : n < m => n + 1 \in T
    PROVE  T = 0..m
<1> SUFFICES ASSUME (0..m) \ T # {} PROVE FALSE
  OBVIOUS
<1>1. (0..m) \ T \subseteq Nat
  OBVIOUS
<1>2. PICK x \in (0..m) \ T : \A y \in (0..m) \ T : ~(y < x)
  BY <1>1, LeastNumber
<1>3. x - 1 \in 0..m /\ x - 1 < x /\ x - 1 < m /\ (x - 1) + 1 = x
  BY <1>2
<1>4. x - 1 \in T
  BY <1>2, <1>3
<1>5. QED
  BY <1>3, <1>4

(* g lists what S has of the first n numbers. *)
ListedBy(g, S, i) == IF i = 0 THEN <<>> ELSE IF i \in S THEN Append(g[i - 1], i) ELSE g[i - 1]
Lists(g, S, n) ==
    /\ g \in [0..n -> Seq(Ids)] /\ \A i \in 0..n : g[i] = ListedBy(g, S, i)
    /\ \A i \in 0..n : Items(g[i]) = S \cap (1..i) /\ Distinct(g[i])

LEMMA InStartOrderLists ==
    ASSUME NEW S \in SUBSET Ids
    PROVE  InStartOrder(S) \in Seq(Ids) /\ Items(InStartOrder(S)) = S /\ Distinct(InStartOrder(S))
<1> DEFINE T == {n \in 0..MaxIds : \E g : Lists(g, S, n)}
<1>1. MaxIds \in Nat /\ Ids = 1..MaxIds
  BY BoundsAssumption DEF Ids
<1>2. 0 \in T
  <2>1. PICK g : g = [i \in 0..0 |-> <<>>]
    OBVIOUS
  <2>2. <<>> \in Seq(Ids) /\ g \in [0..0 -> Seq(Ids)] /\ Items(<<>>) = {} /\ Distinct(<<>>)
    BY <2>1 DEF Items, Distinct
  <2>3. Lists(g, S, 0)
    BY <2>1, <2>2 DEF Lists, ListedBy
  <2>4. QED
    BY <1>1, <2>3
<1>3. ASSUME NEW n \in T, n < MaxIds PROVE n + 1 \in T
  <2>1. PICK g : Lists(g, S, n)
    OBVIOUS
  <2>2. n \in Nat /\ n \in 0..n /\ n + 1 \in Ids
    BY <1>1, <1>3
  <2>3. g[n] \in Seq(Ids) /\ Items(g[n]) = S \cap (1..n) /\ Distinct(g[n])
    BY <2>1, <2>2 DEF Lists
  <2>4. PICK e : e = IF n + 1 \in S THEN Append(g[n], n + 1) ELSE g[n]
    OBVIOUS
  <2>5. e \in Seq(Ids) /\ Items(e) = S \cap (1..(n + 1)) /\ Distinct(e)
    <3>1. CASE n + 1 \in S
      <4>1. n + 1 \notin Items(g[n])
        BY <2>2, <2>3
      <4>2. e \in Seq(Ids) /\ Items(e) = Items(g[n]) \cup {n + 1} /\ Distinct(e)
        BY <2>2, <2>3, <2>4, <3>1, <4>1, ItemsOfAppend
      <4>3. QED
        BY <2>2, <2>3, <3>1, <4>2
    <3>2. CASE n + 1 \notin S
      BY <2>2, <2>3, <2>4, <3>2
    <3>3. QED
      BY <3>1, <3>2
  <2>6. PICK k : k = [i \in 0..(n + 1) |-> IF i = n + 1 THEN e ELSE g[i]]
    OBVIOUS
  <2>7. k \in [0..(n + 1) -> Seq(Ids)] /\ k[n + 1] = e /\ \A i \in 0..n : k[i] = g[i]
    BY <2>1, <2>2, <2>5, <2>6 DEF Lists
  <2>8. ASSUME NEW i \in 0..(n + 1) PROVE k[i] = ListedBy(k, S, i) /\ Items(k[i]) = S \cap (1..i) /\ Distinct(k[i])
    <3>1. CASE i = n + 1
      <4>1. i # 0 /\ i - 1 = n /\ k[i - 1] = g[n]
        BY <2>2, <2>7, <3>1
      <4>2. QED
        BY <2>4, <2>5, <2>7, <3>1, <4>1 DEF ListedBy
    <3>2. CASE i # n + 1
      <4>1. i \in 0..n /\ k[i] = g[i] /\ (i # 0 => i - 1 \in 0..n /\ k[i - 1] = g[i - 1])
        BY <2>2, <2>7, <3>2
      <4>2. g[i] = ListedBy(g, S, i) /\ Items(g[i]) = S \cap (1..i) /\ Distinct(g[i])
        BY <2>1, <4>1 DEF Lists
      <4>3. QED
        BY <4>1, <4>2 DEF ListedBy
    <3>3. QED
      BY <3>1, <3>2
  <2>9. Lists(k, S, n + 1)
    BY <2>7, <2>8 DEF Lists
  <2>10. QED
    BY <1>1, <2>2, <2>9
<1>4. T = 0..MaxIds
  <2> HIDE DEF T
  <2>1. T \subseteq 0..MaxIds
    BY DEF T
  <2>2. QED
    BY <1>1, <1>2, <1>3, <2>1, UpTo
<1>5. PICK g : Lists(g, S, MaxIds)
  <2>1. MaxIds \in T
    BY <1>1, <1>4
  <2>2. QED
    BY <2>1
<1> DEFINE upTo[i \in 0 .. MaxIds] ==
            IF i = 0 THEN << >> ELSE IF i \in S THEN Append(upTo[i - 1], i) ELSE upTo[i - 1]
<1>6. g = [i \in 0 .. MaxIds |-> IF i = 0 THEN << >> ELSE IF i \in S THEN Append(g[i - 1], i) ELSE g[i - 1]]
  BY <1>5 DEF Lists, ListedBy
<1>7. \E f : f = [i \in 0 .. MaxIds |-> IF i = 0 THEN << >> ELSE IF i \in S THEN Append(f[i - 1], i) ELSE f[i - 1]]
  BY <1>6
<1>8. upTo = [i \in 0 .. MaxIds |-> IF i = 0 THEN << >> ELSE IF i \in S THEN Append(upTo[i - 1], i) ELSE upTo[i - 1]]
  BY <1>7
<1>9. InStartOrder(S) = upTo[MaxIds]
  BY DEF InStartOrder
<1>10. \A i \in 0..MaxIds : upTo[i] = ListedBy(upTo, S, i)
  <2> HIDE DEF upTo
  <2>1. QED
    BY <1>8 DEF ListedBy
<1> HIDE DEF upTo
<1> DEFINE Q == {n \in 0..MaxIds : upTo[n] = g[n]}
<1>11. \A i \in 0..MaxIds : g[i] = ListedBy(g, S, i)
  BY <1>5 DEF Lists
<1>12. 0 \in Q
  BY <1>1, <1>10, <1>11 DEF ListedBy
<1>13. ASSUME NEW n \in Q, n < MaxIds PROVE n + 1 \in Q
  <2>1. n + 1 \in 0..MaxIds /\ n + 1 # 0 /\ (n + 1) - 1 = n /\ upTo[n] = g[n]
    BY <1>1, <1>13
  <2>2. upTo[n + 1] = ListedBy(upTo, S, n + 1) /\ g[n + 1] = ListedBy(g, S, n + 1)
    BY <1>10, <1>11, <2>1
  <2>3. QED
    BY <2>1, <2>2 DEF ListedBy
<1>14. Q = 0..MaxIds
  <2> HIDE DEF Q
  <2>1. Q \subseteq 0..MaxIds
    BY DEF Q
  <2>2. QED
    BY <1>1, <1>12, <1>13, <2>1, UpTo
<1>15. InStartOrder(S) = g[MaxIds]
  <2>1. MaxIds \in Q
    BY <1>1, <1>14
  <2>2. QED
    BY <1>9, <2>1
<1>16. MaxIds \in 0..MaxIds /\ S \cap (1..MaxIds) = S
  <2>1. MaxIds \in 0..MaxIds
    BY <1>1
  <2>2. S \cap Ids = S
    OBVIOUS
  <2>3. QED
    BY <1>1, <2>1, <2>2
<1>17. g[MaxIds] \in Seq(Ids) /\ Items(g[MaxIds]) = S /\ Distinct(g[MaxIds])
  BY <1>5, <1>16 DEF Lists
<1>18. QED
  BY <1>15, <1>17
-----------------------------------------------------------------------------
(* The newest of a set. *)
LEMMA NewestFill ==
    ASSUME NEW S \in SUBSET Ids
    PROVE  /\ Newest(S) \subseteq S /\ IsFiniteSet(Newest(S)) /\ Cardinality(Newest(S)) <= MaxBatches /\ Cardinality(Newest(S)) \in Nat
           /\ S \subseteq Newest(S) \/ Cardinality(Newest(S)) = MaxBatches
<1> DEFINE above(b) == {c \in S : c > b}
           r == [b \in S |-> Cardinality(above(b))]
           N == Newest(S)
<1>1. MaxIds \in Nat /\ MaxBatches \in Nat /\ MaxBatches > 0 /\ S \subseteq Nat /\ Ids = 1..MaxIds
  BY BoundsAssumption DEF Ids
<1>2. IsFiniteSet(S) /\ Cardinality(S) \in Nat
  <2>1. IsFiniteSet(Ids)
    BY <1>1, FS_Interval
  <2>2. QED
    BY <2>1, FS_Subset, FS_CardinalityType
<1>3. \A b \in S : IsFiniteSet(above(b)) /\ r[b] = Cardinality(above(b)) /\ r[b] \in Nat
  <2> SUFFICES ASSUME NEW b \in S PROVE IsFiniteSet(above(b)) /\ r[b] = Cardinality(above(b)) /\ r[b] \in Nat
    OBVIOUS
  <2>1. above(b) \in SUBSET S
    OBVIOUS
  <2> HIDE DEF above
  <2>2. IsFiniteSet(above(b)) /\ Cardinality(above(b)) \in Nat
    BY <1>2, <2>1, FS_Subset, FS_CardinalityType
  <2>3. QED
    BY <2>2
<1>4. ASSUME NEW b \in S, NEW c \in S, b < c PROVE r[c] < r[b]
  <2>0. b \in Nat /\ c \in Nat /\ b < c /\ \A x \in S : x \in Nat
    BY <1>1, <1>4
  <2>1. c \in above(b) /\ c \notin above(c) /\ above(c) \subseteq above(b)
    <3>1. \A x \in S : x > c => x > b
      BY <2>0
    <3>2. c \in S /\ c > b /\ ~(c > c)
      BY <2>0
    <3> HIDE DEF r, N
    <3>3. above(c) \subseteq above(b)
      BY <3>1
    <3>4. QED
      BY <3>2, <3>3
  <2> HIDE DEF above, r
  <2>2. Cardinality(above(c)) <= Cardinality(above(b)) /\ (Cardinality(above(b)) = Cardinality(above(c)) => above(b) = above(c))
    BY <1>3, <2>1, FS_Subset
  <2>3. QED
    BY <1>3, <2>1, <2>2
<1>5. ASSUME NEW b \in S PROVE r[b] \in 0..(Cardinality(S) - 1)
  <2>1. b \notin above(b) /\ above(b) \subseteq S
    BY <1>1
  <2> HIDE DEF above, r
  <2>2. Cardinality(above(b)) <= Cardinality(S) /\ Cardinality(above(b)) # Cardinality(S)
    BY <1>2, <2>1, FS_Subset
  <2>3. QED
    BY <1>2, <1>3, <2>2
<1>6. N = {b \in S : r[b] < MaxBatches}
  BY DEF Newest
<1>7. DOMAIN r = S /\ r = [b \in S |-> r[b]]
  OBVIOUS
<1> HIDE DEF above, r, N
<1>8. \A b, c \in S : r[b] = r[c] => b = c
  <2> SUFFICES ASSUME NEW b \in S, NEW c \in S, b # c PROVE r[b] # r[c]
    OBVIOUS
  <2>1. b < c \/ c < b
    BY <1>1
  <2>2. QED
    BY <1>3, <1>4, <2>1
<1> DEFINE s == [b \in N |-> r[b]]
           top == 0..(MaxBatches - 1)
<1>9. s \in [N -> top] /\ (\A b \in N : s[b] = r[b]) /\ N \subseteq S
  <2>1. N \subseteq S /\ \A b \in N : r[b] \in Nat /\ r[b] < MaxBatches
    BY <1>3, <1>6
  <2>2. \A b \in N : r[b] \in top
    BY <1>1, <2>1
  <2> HIDE DEF top
  <2>3. QED
    BY <2>1, <2>2
<1>10. s \in Injection(N, top)
  BY <1>8, <1>9 DEF Injection, IsInjective
<1>11. IsFiniteSet(top) /\ Cardinality(top) = MaxBatches
  BY <1>1, FS_Interval
<1> HIDE DEF s, top
<1>12. IsFiniteSet(N) /\ Cardinality(N) <= MaxBatches /\ Cardinality(N) \in Nat
  BY <1>10, <1>11, FS_Injection, FS_CardinalityType
<1>13. ASSUME NEW b \in S, b \notin N PROVE Cardinality(N) = MaxBatches
  <2> DEFINE all == 0..(Cardinality(S) - 1)
  <2>1. r \in Injection(S, all)
    BY <1>5, <1>7, <1>8 DEF Injection, IsInjective
  <2>2. IsFiniteSet(all) /\ Cardinality(all) = Cardinality(S)
    <3>1. PICK z : z = Cardinality(S) - 1
      OBVIOUS
    <3>2. 0 \in Int /\ z \in Int
      BY <1>2, <3>1
    <3>3. IsFiniteSet(0..z) /\ Cardinality(0..z) = IF 0 > z THEN 0 ELSE z - 0 + 1
      BY ONLY <3>2, FS_Interval
    <3>4. QED
      BY <1>2, <3>1, <3>3
  <2>3. r[b] \in all /\ ~(r[b] < MaxBatches)
    BY <1>5, <1>6, <1>13
  <2>4. \A n \in top : n \in all
    BY <1>1, <1>2, <2>3 DEF top
  <2> HIDE DEF all
  <2>5. r \in Surjection(S, all)
    BY <2>1, <2>2, FS_Injection
  <2>6. ASSUME NEW n \in top PROVE \E c \in N : s[c] = n
    <3>1. PICK c \in S : r[c] = n
      BY <2>4, <2>5 DEF Surjection
    <3>2. n < MaxBatches
      BY <1>1 DEF top
    <3>3. QED
      BY <1>6, <1>9, <3>1, <3>2
  <2>7. s \in Surjection(N, top)
    BY <1>9, <2>6 DEF Surjection
  <2>8. QED
    BY <1>10, <1>11, <2>7, FS_Injection
<1>14. QED
  BY <1>9, <1>12, <1>13 DEF N

-----------------------------------------------------------------------------
(* The invariant. *)

SoundList(list) == Distinct(list) /\ Len(list) <= MaxBatches
Listed(b) == b \in Items(file.list) \/ \E p \in Procs : b \in Items(batches[p])

(* Batches get the next number when their call starts, and are listed when  *)
(* it is over.                                                              *)
NumbersInv ==
    /\ \A b \in Ids : Listed(b) => b < nextId
    /\ \A p \in Procs : \A c \in calls[p] : c.id < nextId /\ (c.stage = "writing" => ~Listed(c.id))
    /\ \A p, q \in Procs : \A c \in calls[p], d \in calls[q] : c.id = d.id => p = q /\ c = d

JournalInv ==
    /\ TypeOK /\ ReadMeansHeld /\ NumbersInv
    /\ SoundList(file.list) /\ (\A p \in Procs : SoundList(batches[p])) /\ file.undone \subseteq Items(file.list)

LEMMA MergedListHas ==
    ASSUME file.list \in Seq(Ids), NEW p \in Procs, NEW list \in Seq(Ids), SoundList(list)
    PROVE  /\ MergedList(p, list) \in Seq(Ids) /\ SoundList(MergedList(p, list))
           /\ Items(MergedList(p, list)) \subseteq Items(list) \cup Items(file.list)
           /\ ~seen[p] => Items(file.list) \subseteq Items(MergedList(p, list)) \/ Full(MergedList(p, list))
           /\ seen[p] => MergedList(p, list) = list
<1>1. CASE Incoming(p) = {}
  BY <1>1 DEF MergedList, Incoming
<1>2. CASE Incoming(p) # {}
  <2> DEFINE S == Items(list) \cup Items(file.list)
             m == InStartOrder(Newest(S))
  <2>1. ~seen[p] /\ Incoming(p) = Items(file.list) /\ MergedList(p, list) = m
    BY <1>2 DEF Incoming, MergedList
  <2>2. S \in SUBSET Ids
    BY DEF Items
  <2> HIDE DEF S
  <2>3. /\ Newest(S) \subseteq S /\ Cardinality(Newest(S)) <= MaxBatches
        /\ S \subseteq Newest(S) \/ Cardinality(Newest(S)) = MaxBatches
    BY <2>2, NewestFill
  <2>4. Newest(S) \in SUBSET Ids
    BY <2>2, <2>3
  <2>5. m \in Seq(Ids) /\ Items(m) = Newest(S) /\ Distinct(m)
    BY <2>4, InStartOrderLists
  <2> HIDE DEF m
  <2>6. Cardinality(Items(m)) = Len(m)
    BY <2>5, DistinctCounts
  <2>7. Items(file.list) \subseteq S /\ S = Items(list) \cup Items(file.list)
    BY DEF S
  <2>8. QED
    BY <2>1, <2>3, <2>5, <2>6, <2>7 DEF SoundList, Full
<1>3. QED
  BY <1>1, <1>2

(* What is true of a process once it has folded the file into a list.       *)
LEMMA FoldKeeps ==
    ASSUME JournalInv, NEW p \in Procs, NEW list \in Seq(Ids), SoundList(list), NEW marks \in SUBSET Ids, file' = file,
           seen[p] /\ ~behind[p] => Covers(list, marks), Fold(p, list, marks)
    PROVE  /\ batches' \in [Procs -> Seq(Ids)] /\ undone' \in [Procs -> SUBSET Ids] /\ seen' \in [Procs -> BOOLEAN]
           /\ behind' \in [Procs -> BOOLEAN] /\ (\A q \in Procs : SoundList(batches'[q]) /\ undone'[q] \subseteq Items(batches'[q]))
           /\ ReadMeansHeld' /\ Items(batches'[p]) \subseteq Items(list) \cup Items(file.list)
           /\ (\A q \in Procs : q # p => batches'[q] = batches[q]) /\ (behind'[p] <=> behind[p] /\ seen[p])
<1> DEFINE l == MergedList(p, list)
           k == MergedMarks(p, list, marks)
<1>1. /\ file.list \in Seq(Ids) /\ file.undone \subseteq Items(file.list) /\ seen \in [Procs -> BOOLEAN] /\ behind \in [Procs -> BOOLEAN]
      /\ batches \in [Procs -> Seq(Ids)] /\ undone \in [Procs -> SUBSET Ids]
      /\ \A q \in Procs : undone[q] \subseteq Items(batches[q]) /\ SoundList(batches[q]) /\ (~behind[q] => Covers(batches[q], undone[q]))
  BY DEF JournalInv, TypeOK, ReadMeansHeld
<1>2. /\ batches' = [batches EXCEPT ![p] = l] /\ undone' = [undone EXCEPT ![p] = k] /\ seen' = [seen EXCEPT ![p] = TRUE]
      /\ behind' = [behind EXCEPT ![p] = behind[p] /\ seen[p]]
  BY DEF Fold
<1>3. /\ l \in Seq(Ids) /\ SoundList(l) /\ Items(l) \subseteq Items(list) \cup Items(file.list)
      /\ ~seen[p] => Items(file.list) \subseteq Items(l) \/ Full(l)
      /\ seen[p] => l = list
  BY <1>1, MergedListHas
<1>4. k = (marks \cup (file.undone \cap Incoming(p))) \cap Items(l)
  BY DEF MergedMarks
<1>5. k \in SUBSET Ids /\ k \subseteq Items(l)
  <2>1. Items(l) \subseteq Ids
    BY <1>3 DEF Items
  <2> HIDE DEF k, l
  <2>2. QED
    BY <1>4, <2>1
<1> HIDE DEF l, k
<1>6. ASSUME ~(behind[p] /\ seen[p]) PROVE Covers(l, k)
  <2>1. CASE seen[p]
    BY <1>3, <1>4, <1>6, <2>1 DEF Covers
  <2>2. CASE ~seen[p]
    BY <1>1, <1>3, <1>4, <2>2 DEF Covers, Incoming
  <2>3. QED
    BY <2>1, <2>2
<1>7. /\ batches' \in [Procs -> Seq(Ids)] /\ undone' \in [Procs -> SUBSET Ids] /\ seen' \in [Procs -> BOOLEAN] /\ behind' \in [Procs -> BOOLEAN]
      /\ batches'[p] = l /\ undone'[p] = k /\ (behind'[p] <=> behind[p] /\ seen[p])
      /\ \A q \in Procs : q # p => batches'[q] = batches[q] /\ undone'[q] = undone[q] /\ behind'[q] = behind[q]
  BY <1>1, <1>2, <1>3, <1>5
<1>8. ASSUME NEW q \in Procs PROVE ~behind'[q] => Covers(batches[q], undone[q])'
  <2>1. CASE q = p
    BY <1>6, <1>7, <2>1 DEF Covers, Full
  <2>2. CASE q # p
    BY <1>1, <1>7, <2>2 DEF Covers, Full
  <2>3. QED
    BY <2>1, <2>2
<1>9. ReadMeansHeld'
  BY <1>8 DEF ReadMeansHeld
<1>10. \A q \in Procs : SoundList(batches'[q]) /\ undone'[q] \subseteq Items(batches'[q])
  BY <1>1, <1>3, <1>5, <1>7
<1>11. QED
  BY <1>3, <1>7, <1>9, <1>10

LEMMA JournalInvInitially == Init => JournalInv
<1> SUFFICES ASSUME Init PROVE JournalInv
  OBVIOUS
<1>1. <<>> \in Seq(Ids) /\ Len(<<>>) = 0 /\ Items(<<>>) = {} /\ MaxBatches \in Nat /\ MaxIds \in Nat
  BY BoundsAssumption DEF Items
<1>2. SoundList(<<>>)
  BY <1>1 DEF SoundList, Distinct
<1>3. 1 \in 1..(MaxIds + 1)
  BY <1>1
<1>4. TypeOK
  BY <1>1, <1>3 DEF Init, TypeOK
<1>5. ReadMeansHeld
  BY <1>1 DEF Init, ReadMeansHeld, Covers
<1>6. NumbersInv
  BY <1>1 DEF Init, NumbersInv, Listed
<1>7. QED
  BY <1>1, <1>2, <1>4, <1>5, <1>6 DEF Init, JournalInv

(* Calls that only end, or go on, with lists that hold nothing new.         *)
LEMMA NumbersKept ==
    ASSUME NumbersInv, nextId \in Nat, nextId' = nextId, NEW f \in [Procs -> SUBSET Calls], calls' = f,
           \A b \in Ids : Listed(b)' => Listed(b), calls \in [Procs -> SUBSET Calls],
           \A p \in Procs : calls'[p] \subseteq calls[p]
    PROVE  NumbersInv'
<1>1. ASSUME NEW p \in Procs, NEW c \in calls'[p] PROVE c.id < nextId' /\ (c.stage = "writing" => ~Listed(c.id)')
  <2>1. c \in calls[p] /\ c.id \in Ids
    BY DEF Calls
  <2>2. QED
    BY <2>1 DEF NumbersInv
<1>2. \A b \in Ids : Listed(b)' => b < nextId'
  BY DEF NumbersInv
<1>3. \A p, q \in Procs : \A c \in calls'[p], d \in calls'[q] : c.id = d.id => p = q /\ c = d
  BY DEF NumbersInv
<1>4. QED
  BY <1>1, <1>2, <1>3 DEF NumbersInv

LEMMA RestartKeeps ==
    ASSUME JournalInv, NEW p \in Procs, Restart(p)
    PROVE  JournalInv'
<1> DEFINE S == Items(file.list)
           l == InStartOrder(Newest(S))
           k == file.undone \cap Newest(S)
<1>1. /\ TypeOK /\ ReadMeansHeld /\ NumbersInv /\ SoundList(file.list) /\ (\A q \in Procs : SoundList(batches[q])) /\ file.undone \subseteq S
      /\ file' = file /\ nextId' = nextId /\ restored' = restored
      /\ batches' = [batches EXCEPT ![p] = l] /\ undone' = [undone EXCEPT ![p] = k]
      /\ own' = [own EXCEPT ![p] = {}] /\ seen' = [seen EXCEPT ![p] = TRUE] /\ saving' = [saving EXCEPT ![p] = "idle"]
      /\ calls' = [calls EXCEPT ![p] = {}] /\ behind' = [behind EXCEPT ![p] = FALSE]
  BY DEF JournalInv, Restart
<1>2. S \in SUBSET Ids
  BY <1>1 DEF TypeOK, Items
<1> HIDE DEF S
<1>3. /\ Newest(S) \subseteq S /\ Cardinality(Newest(S)) <= MaxBatches
      /\ S \subseteq Newest(S) \/ Cardinality(Newest(S)) = MaxBatches
  BY <1>2, NewestFill
<1>4. Newest(S) \in SUBSET Ids
  BY <1>2, <1>3
<1>5. l \in Seq(Ids) /\ Items(l) = Newest(S) /\ Distinct(l)
  BY <1>4, InStartOrderLists
<1>6. k \in SUBSET Ids /\ k \subseteq Newest(S)
  BY <1>4
<1>7. file.undone \cap Newest(S) \subseteq k
  OBVIOUS
<1> HIDE DEF l, k
<1>8. Cardinality(Items(l)) = Len(l)
  BY <1>5, DistinctCounts
<1>9. SoundList(l)
  BY <1>3, <1>5, <1>8 DEF SoundList
<1>10. S \subseteq Items(l) \/ Full(l)
  BY <1>3, <1>5, <1>8 DEF Full
<1>11. /\ batches' \in [Procs -> Seq(Ids)] /\ undone' \in [Procs -> SUBSET Ids] /\ batches'[p] = l /\ undone'[p] = k /\ calls'[p] = {}
       /\ own' \in [Procs -> SUBSET Ids] /\ seen' \in [Procs -> BOOLEAN] /\ saving' \in [Procs -> {"idle", "folded", "renamed"}]
       /\ calls' \in [Procs -> SUBSET Calls] /\ behind' \in [Procs -> BOOLEAN] /\ calls \in [Procs -> SUBSET Calls] /\ nextId \in Nat
       /\ \A q \in Procs : q # p => batches'[q] = batches[q] /\ undone'[q] = undone[q] /\ behind'[q] = behind[q] /\ calls'[q] = calls[q]
  BY <1>1, <1>5, <1>6 DEF TypeOK
<1>12. \A q \in Procs : undone'[q] \subseteq Items(batches'[q]) /\ SoundList(batches'[q])
  BY <1>1, <1>5, <1>6, <1>9, <1>11 DEF TypeOK
<1>13. TypeOK'
  BY <1>1, <1>11, <1>12 DEF TypeOK
<1>14. ASSUME NEW q \in Procs, ~behind'[q] PROVE Covers(batches[q], undone[q])'
  <2>1. CASE q = p
    BY <1>1, <1>5, <1>7, <1>10, <1>11, <2>1 DEF Covers, Full, S
  <2>2. CASE q # p
    BY <1>1, <1>11, <1>14, <2>2 DEF ReadMeansHeld, Covers, Full
  <2>3. QED
    BY <2>1, <2>2
<1>15. \A b \in Ids : Listed(b)' => Listed(b)
  <2> SUFFICES ASSUME NEW b \in Ids, NEW q \in Procs, b \in Items(batches'[q]) PROVE Listed(b)
    BY <1>1 DEF Listed
  <2>1. QED
    BY <1>3, <1>5, <1>11 DEF Listed, S
<1>16. NumbersInv'
  BY <1>1, <1>11, <1>15, NumbersKept
<1>17. QED
  BY <1>1, <1>12, <1>13, <1>14, <1>16 DEF JournalInv, ReadMeansHeld, S

(* No save changes what is held, or who is behind.                          *)
LEMMA StepsAside ==
    ASSUME JournalInv, UNCHANGED <<batches, undone, file, behind>>, TypeOK', NumbersInv'
    PROVE  JournalInv'
BY DEF JournalInv, ReadMeansHeld, Covers, Full

LEMMA RefreshKeeps ==
    ASSUME JournalInv, NEW p \in Procs, Refresh(p)
    PROVE  JournalInv'
<1>1. /\ TypeOK /\ ReadMeansHeld /\ NumbersInv /\ SoundList(file.list) /\ file.undone \subseteq Items(file.list)
      /\ batches[p] \in Seq(Ids) /\ SoundList(batches[p]) /\ undone[p] \in SUBSET Ids
      /\ Fold(p, batches[p], undone[p]) /\ UNCHANGED <<own, saving, calls, file, nextId, restored>>
  BY DEF JournalInv, TypeOK, Refresh
<1>2. seen[p] /\ ~behind[p] => Covers(batches[p], undone[p])
  BY <1>1 DEF ReadMeansHeld
<1>3. /\ batches' \in [Procs -> Seq(Ids)] /\ undone' \in [Procs -> SUBSET Ids] /\ seen' \in [Procs -> BOOLEAN]
      /\ behind' \in [Procs -> BOOLEAN] /\ (\A q \in Procs : SoundList(batches'[q]) /\ undone'[q] \subseteq Items(batches'[q]))
      /\ ReadMeansHeld' /\ Items(batches'[p]) \subseteq Items(batches[p]) \cup Items(file.list)
      /\ (\A q \in Procs : q # p => batches'[q] = batches[q]) /\ (behind'[p] <=> behind[p] /\ seen[p])
  BY <1>1, <1>2, FoldKeeps
<1>4. TypeOK'
  BY <1>1, <1>3 DEF TypeOK
<1>5. \A b \in Ids : Listed(b)' => Listed(b)
  <2> SUFFICES ASSUME NEW b \in Ids, NEW q \in Procs, b \in Items(batches'[q]) PROVE Listed(b)
    BY <1>1 DEF Listed
  <2>1. QED
    BY <1>1, <1>3 DEF Listed
<1>6. NumbersInv'
  BY <1>1, <1>5, NumbersKept DEF TypeOK
<1>7. QED
  BY <1>1, <1>3, <1>4, <1>6 DEF JournalInv

(* A call begins. *)
LEMMA BeginKeeps ==
    ASSUME NumbersInv, TypeOK, NEW p \in Procs, NEW n \in 0..MaxIds, Begin(p, n), \A b \in Ids : Listed(b)' => Listed(b)
    PROVE  NumbersInv' /\ calls' \in [Procs -> SUBSET Calls] /\ nextId' \in 1..(MaxIds + 1)
<1> DEFINE d == [id |-> nextId, undoOf |-> n, stage |-> "writing"]
<1>1. nextId \in Ids /\ nextId' = nextId + 1 /\ nextId' \in 1..(MaxIds + 1) /\ nextId \in Nat /\ (\A b \in Ids : b \in Nat)
  BY BoundsAssumption DEF Begin, TypeOK, Ids
<1>2. calls' = [calls EXCEPT ![p] = calls[p] \cup {d}] /\ calls \in [Procs -> SUBSET Calls]
  BY DEF Begin, TypeOK
<1>3. d \in Calls /\ d.id = nextId
  BY <1>1 DEF Calls
<1> HIDE DEF d
<1>4. /\ calls' \in [Procs -> SUBSET Calls]
      /\ \A q \in Procs : \A c \in calls'[q] : (c \in calls[q] /\ c.id \in Ids /\ c.id < nextId) \/ (q = p /\ c = d)
  BY <1>2, <1>3 DEF NumbersInv, Calls
<1>5. \A b \in Ids : Listed(b)' => b < nextId /\ b < nextId'
  BY <1>1 DEF NumbersInv
<1>6. ASSUME NEW q \in Procs, NEW c \in calls'[q] PROVE c.id < nextId' /\ (c.stage = "writing" => ~Listed(c.id)')
  <2>1. CASE c \in calls[q] /\ c.id \in Ids /\ c.id < nextId
    <3>1. c.stage = "writing" => ~Listed(c.id)
      BY <2>1 DEF NumbersInv
    <3>2. Listed(c.id)' => Listed(c.id)
      BY <2>1
    <3>3. c.id < nextId'
      <4>1. c.id \in Nat /\ c.id < nextId
        BY <1>1, <2>1
      <4>2. QED
        BY <1>1, <4>1
    <3>4. QED
      BY <3>1, <3>2, <3>3
  <2>2. CASE c = d
    BY <1>1, <1>3, <1>5, <2>2
  <2>3. QED
    BY <1>4, <2>1, <2>2
<1>7. ASSUME NEW q \in Procs, NEW r \in Procs, NEW c \in calls'[q], NEW e \in calls'[r], c.id = e.id PROVE q = r /\ c = e
  <2>1. CASE c \in calls[q] /\ e \in calls[r]
    BY <1>7, <2>1 DEF NumbersInv
  <2>2. CASE ~(c \in calls[q] /\ e \in calls[r])
    BY <1>1, <1>3, <1>4, <1>7, <2>2
  <2>3. QED
    BY <2>1, <2>2
<1>8. QED
  BY <1>1, <1>4, <1>5, <1>6, <1>7 DEF NumbersInv

LEMMA StartWriteKeeps ==
    ASSUME JournalInv, NEW p \in Procs, StartWrite(p)
    PROVE  JournalInv'
<1>1. TypeOK /\ NumbersInv /\ Begin(p, 0) /\ UNCHANGED <<batches, undone, own, seen, saving, file, behind, restored>>
  BY DEF JournalInv, StartWrite
<1>2. 0 \in 0..MaxIds
  BY BoundsAssumption
<1>3. \A b \in Ids : Listed(b)' => Listed(b)
  BY <1>1 DEF Listed
<1>4. NumbersInv' /\ calls' \in [Procs -> SUBSET Calls] /\ nextId' \in 1..(MaxIds + 1)
  BY <1>1, <1>2, <1>3, BeginKeeps
<1>5. TypeOK'
  BY <1>1, <1>4 DEF TypeOK
<1>6. QED
  BY <1>1, <1>4, <1>5, StepsAside

LEMMA StartUndoKeeps ==
    ASSUME JournalInv, NEW p \in Procs, StartUndo(p)
    PROVE  JournalInv'
<1>1. /\ TypeOK /\ ReadMeansHeld /\ NumbersInv /\ SoundList(file.list) /\ file.undone \subseteq Items(file.list)
      /\ batches[p] \in Seq(Ids) /\ SoundList(batches[p]) /\ undone[p] \in SUBSET Ids
      /\ Fold(p, batches[p], undone[p]) /\ UNCHANGED <<own, saving, file, restored>>
  BY DEF JournalInv, TypeOK, StartUndo
<1>2. seen[p] /\ ~behind[p] => Covers(batches[p], undone[p])
  BY <1>1 DEF ReadMeansHeld
<1>3. /\ batches' \in [Procs -> Seq(Ids)] /\ undone' \in [Procs -> SUBSET Ids] /\ seen' \in [Procs -> BOOLEAN]
      /\ behind' \in [Procs -> BOOLEAN] /\ (\A q \in Procs : SoundList(batches'[q]) /\ undone'[q] \subseteq Items(batches'[q]))
      /\ ReadMeansHeld' /\ Items(batches'[p]) \subseteq Items(batches[p]) \cup Items(file.list)
      /\ (\A q \in Procs : q # p => batches'[q] = batches[q]) /\ (behind'[p] <=> behind[p] /\ seen[p])
  BY <1>1, <1>2, FoldKeeps
<1>4. PICK n \in Items(batches'[p]) \ undone'[p] : Begin(p, n)
  BY DEF StartUndo
<1>5. n \in 0..MaxIds
  <2>1. batches'[p] \in Seq(Ids) /\ n \in Items(batches'[p])
    BY <1>3, <1>4
  <2>2. n \in Ids
    BY <2>1 DEF Items
  <2>3. QED
    BY <2>2, BoundsAssumption DEF Ids
<1>6. \A b \in Ids : Listed(b)' => Listed(b)
  <2> SUFFICES ASSUME NEW b \in Ids, NEW q \in Procs, b \in Items(batches'[q]) PROVE Listed(b)
    BY <1>1 DEF Listed
  <2>1. QED
    BY <1>1, <1>3 DEF Listed
<1>7. NumbersInv' /\ calls' \in [Procs -> SUBSET Calls] /\ nextId' \in 1..(MaxIds + 1)
  BY <1>1, <1>4, <1>5, <1>6, BeginKeeps
<1>8. TypeOK'
  BY <1>1, <1>3, <1>7 DEF TypeOK
<1>9. QED
  BY <1>1, <1>3, <1>7, <1>8 DEF JournalInv

(* What a call that ends appends to the list.                               *)
LEMMA PushedHas ==
    ASSUME NEW q \in Seq(Ids), SoundList(q), NEW b \in Ids, b \notin Items(q)
    PROVE  /\ Pushed(q, b) \in Seq(Ids) /\ SoundList(Pushed(q, b)) /\ Items(Pushed(q, b)) \subseteq Items(q) \cup {b}
           /\ Items(q) \subseteq Items(Pushed(q, b)) \/ Full(Pushed(q, b))
<1>1. MaxBatches \in Nat /\ MaxBatches > 0 /\ Len(q) \in Nat /\ Len(q) <= MaxBatches /\ Distinct(q)
  BY BoundsAssumption DEF SoundList
<1>2. CASE Len(q) < MaxBatches
  <2>1. Pushed(q, b) = Append(q, b)
    BY <1>2 DEF Pushed
  <2>2. /\ Append(q, b) \in Seq(Ids) /\ Len(Append(q, b)) = Len(q) + 1 /\ Items(Append(q, b)) = Items(q) \cup {b}
        /\ Distinct(Append(q, b))
    BY <1>1, ItemsOfAppend
  <2>3. Len(q) + 1 <= MaxBatches
    BY <1>1, <1>2
  <2>4. QED
    BY <2>1, <2>2, <2>3 DEF SoundList
<1>3. CASE ~(Len(q) < MaxBatches)
  <2>1. Pushed(q, b) = Append(Tail(q), b) /\ Len(q) = MaxBatches /\ q # <<>>
    BY <1>1, <1>3 DEF Pushed
  <2>2. /\ Tail(q) \in Seq(Ids) /\ Len(Tail(q)) = Len(q) - 1 /\ Items(Tail(q)) \subseteq Items(q) /\ Distinct(Tail(q))
    BY <1>1, <2>1, ItemsOfTail
  <2>3. b \notin Items(Tail(q))
    BY <2>2
  <2>4. /\ Append(Tail(q), b) \in Seq(Ids) /\ Len(Append(Tail(q), b)) = Len(Tail(q)) + 1
        /\ Items(Append(Tail(q), b)) = Items(Tail(q)) \cup {b} /\ Distinct(Append(Tail(q), b))
    BY <2>2, <2>3, ItemsOfAppend
  <2>5. Len(Append(Tail(q), b)) = MaxBatches
    BY <1>1, <2>1, <2>2, <2>4
  <2>6. Len(Append(Tail(q), b)) <= MaxBatches
    BY <1>1, <2>5
  <2>7. QED
    BY <2>1, <2>2, <2>4, <2>5, <2>6 DEF SoundList, Full
<1>4. QED
  BY <1>2, <1>3

(* One call is over, or goes on to mark what it restored, and its batch is  *)
(* listed.                                                                  *)
LEMMA NumbersHandedOver ==
    ASSUME NumbersInv, nextId \in Nat, nextId' = nextId, calls \in [Procs -> SUBSET Calls],
           NEW p \in Procs, NEW c \in calls[p], NEW r, r.id = c.id, r.stage # "writing",
           \A q \in Procs : \A x \in calls'[q] : (x \in calls[q] /\ (q = p => x # c)) \/ (q = p /\ x = r),
           \A b \in Ids : Listed(b)' => Listed(b) \/ b = c.id
    PROVE  NumbersInv'
<1>1. c.id \in Ids /\ c.id < nextId
  BY DEF NumbersInv, Calls
<1>2. ASSUME NEW q \in Procs, NEW x \in calls[q], q = p => x # c
      PROVE x.id # c.id /\ x.id \in Ids /\ x.id < nextId /\ (x.stage = "writing" => ~Listed(x.id))
  BY <1>2 DEF NumbersInv, Calls
<1>3. \A b \in Ids : Listed(b)' => b < nextId'
  BY <1>1 DEF NumbersInv
<1>4. ASSUME NEW q \in Procs, NEW x \in calls'[q] PROVE x.id < nextId' /\ (x.stage = "writing" => ~Listed(x.id)')
  <2>1. CASE x \in calls[q] /\ (q = p => x # c)
    <3>1. x.id # c.id /\ x.id \in Ids /\ x.id < nextId /\ (x.stage = "writing" => ~Listed(x.id))
      BY <1>2, <2>1
    <3>2. Listed(x.id)' => Listed(x.id) \/ x.id = c.id
      BY <3>1
    <3>3. QED
      BY <3>1, <3>2
  <2>2. CASE q = p /\ x = r
    BY <1>1, <2>2
  <2>3. QED
    BY <2>1, <2>2
<1>5. ASSUME NEW q \in Procs, NEW s \in Procs, NEW x \in calls'[q], NEW y \in calls'[s], x.id = y.id PROVE q = s /\ x = y
  <2>1. CASE x \in calls[q] /\ (q = p => x # c) /\ y \in calls[s] /\ (s = p => y # c)
    BY <1>5, <2>1 DEF NumbersInv
  <2>2. CASE x \in calls[q] /\ (q = p => x # c) /\ s = p /\ y = r
    <3>1. x.id # c.id
      BY <1>2, <2>2
    <3>2. QED
      BY <1>5, <2>2, <3>1
  <2>3. CASE y \in calls[s] /\ (s = p => y # c) /\ q = p /\ x = r
    <3>1. y.id # c.id
      BY <1>2, <2>3
    <3>2. QED
      BY <1>5, <2>3, <3>1
  <2>4. CASE q = p /\ x = r /\ s = p /\ y = r
    BY <2>4
  <2>5. QED
    BY <2>1, <2>2, <2>3, <2>4
<1>6. QED
  BY <1>3, <1>4, <1>5 DEF NumbersInv

LEMMA EndBatchKeeps ==
    ASSUME JournalInv, NEW p \in Procs, EndBatch(p)
    PROVE  JournalInv'
<1>1. /\ TypeOK /\ ReadMeansHeld /\ NumbersInv /\ SoundList(file.list) /\ file.undone \subseteq Items(file.list)
      /\ batches[p] \in Seq(Ids) /\ SoundList(batches[p]) /\ undone[p] \in SUBSET Ids /\ UNCHANGED <<file, nextId>>
      /\ nextId \in Nat /\ calls \in [Procs -> SUBSET Calls] /\ own \in [Procs -> SUBSET Ids]
      /\ restored \in [Ids -> Nat] /\ saving \in [Procs -> {"idle", "folded", "renamed"}]
  BY DEF JournalInv, TypeOK, EndBatch
<1>2. PICK c \in calls[p], ok \in BOOLEAN :
        /\ c.stage = "writing"
        /\ own' = [own EXCEPT ![p] = @ \cup {c.id}]
        /\ Persist(p, Pushed(batches[p], c.id), undone[p])
        /\ \/ /\ c.undoOf # 0 /\ ok
              /\ calls' = [calls EXCEPT ![p] = (@ \ {c}) \cup {[c EXCEPT !.stage = "restored"]}]
              /\ restored' = [restored EXCEPT ![c.undoOf] = @ + 1]
           \/ /\ c.undoOf = 0 \/ ~ok
              /\ calls' = [calls EXCEPT ![p] = @ \ {c}]
              /\ UNCHANGED restored
  BY DEF EndBatch
<1>3. c \in Calls /\ c.id \in Ids /\ c.undoOf \in 0..MaxIds /\ ~Listed(c.id)
  BY <1>1, <1>2 DEF NumbersInv, Calls
<1> DEFINE list == Pushed(batches[p], c.id)
           r == [c EXCEPT !.stage = "restored"]
<1>4. /\ list \in Seq(Ids) /\ SoundList(list) /\ Items(list) \subseteq Items(batches[p]) \cup {c.id}
      /\ Items(batches[p]) \subseteq Items(list) \/ Full(list)
  BY <1>1, <1>3, PushedHas DEF Listed
<1>5. Fold(p, list, undone[p]) /\ saving' = [saving EXCEPT ![p] = "folded"]
  BY <1>2 DEF Persist
<1>6. r \in Calls /\ r.id = c.id /\ r.stage = "restored"
  BY <1>3 DEF Calls
<1> HIDE DEF list, r
<1>7. seen[p] /\ ~behind[p] => Covers(list, undone[p])
  <2> SUFFICES ASSUME ~behind[p] PROVE Covers(list, undone[p])
    OBVIOUS
  <2>1. Covers(batches[p], undone[p])
    BY <1>1 DEF ReadMeansHeld
  <2>2. c.id \notin file.undone
    BY <1>1, <1>3 DEF Listed
  <2>3. file.undone \cap Items(list) \subseteq undone[p]
    BY <1>4, <2>1, <2>2 DEF Covers
  <2>4. Items(file.list) \subseteq Items(list) \/ Full(list)
    <3>1. CASE Items(batches[p]) \subseteq Items(list) /\ Items(file.list) \subseteq Items(batches[p])
      BY <3>1
    <3>2. CASE Full(batches[p])
      BY <3>2, BoundsAssumption, <1>1 DEF list, Full, Pushed
    <3>3. QED
      BY <1>4, <2>1, <3>1, <3>2 DEF Covers
  <2>5. QED
    BY <2>3, <2>4 DEF Covers
<1>8. /\ batches' \in [Procs -> Seq(Ids)] /\ undone' \in [Procs -> SUBSET Ids] /\ seen' \in [Procs -> BOOLEAN]
      /\ behind' \in [Procs -> BOOLEAN] /\ (\A q \in Procs : SoundList(batches'[q]) /\ undone'[q] \subseteq Items(batches'[q]))
      /\ ReadMeansHeld' /\ Items(batches'[p]) \subseteq Items(list) \cup Items(file.list)
      /\ (\A q \in Procs : q # p => batches'[q] = batches[q])
  BY <1>1, <1>4, <1>5, <1>7, FoldKeeps
<1>9. /\ calls' \in [Procs -> SUBSET Calls]
      /\ \A q \in Procs : \A x \in calls'[q] : (x \in calls[q] /\ (q = p => x # c)) \/ (q = p /\ x = r)
  <2>1. CASE calls' = [calls EXCEPT ![p] = (calls[p] \ {c}) \cup {r}]
    BY <1>1, <1>6, <2>1
  <2>2. CASE calls' = [calls EXCEPT ![p] = calls[p] \ {c}]
    BY <1>1, <2>2
  <2>3. QED
    BY <1>2, <2>1, <2>2 DEF r
<1>10. restored' \in [Ids -> Nat]
  <2>1. CASE c.undoOf # 0 /\ restored' = [restored EXCEPT ![c.undoOf] = restored[c.undoOf] + 1]
    <3>1. c.undoOf \in Ids
      BY <1>3, <2>1, BoundsAssumption DEF Ids
    <3>2. restored[c.undoOf] + 1 \in Nat
      BY <1>1, <3>1
    <3>3. QED
      BY <1>1, <2>1, <3>1, <3>2
  <2>2. QED
    BY <1>1, <1>2, <2>1
<1>11. own' \in [Procs -> SUBSET Ids] /\ saving' \in [Procs -> {"idle", "folded", "renamed"}]
  BY <1>1, <1>2, <1>3, <1>5
<1>12. TypeOK'
  BY <1>1, <1>8, <1>9, <1>10, <1>11 DEF TypeOK
<1>13. \A b \in Ids : Listed(b)' => Listed(b) \/ b = c.id
  <2>1. ASSUME NEW b \in Ids, b \in Items(file'.list) PROVE Listed(b)
    BY <1>1, <2>1 DEF Listed
  <2>2. ASSUME NEW b \in Ids, NEW q \in Procs, b \in Items(batches'[q]) PROVE Listed(b) \/ b = c.id
    <3>1. CASE q = p
      BY <1>4, <1>8, <2>2, <3>1 DEF Listed
    <3>2. CASE q # p
      BY <1>8, <2>2, <3>2 DEF Listed
    <3>3. QED
      BY <3>1, <3>2
  <2>3. QED
    BY <2>1, <2>2 DEF Listed
<1>14. NumbersInv'
  <2>1. r.id = c.id /\ r.stage # "writing" /\ nextId' = nextId /\ nextId \in Nat /\ NumbersInv
        /\ calls \in [Procs -> SUBSET Calls]
    BY <1>1, <1>6
  <2>2. QED
    BY <1>9, <1>13, <2>1, NumbersHandedOver
<1>15. QED
  BY <1>1, <1>8, <1>12, <1>14 DEF JournalInv

LEMMA EndEmptyKeeps ==
    ASSUME JournalInv, NEW p \in Procs, EndEmpty(p)
    PROVE  JournalInv'
<1>1. /\ TypeOK /\ NumbersInv /\ UNCHANGED <<batches, undone, own, seen, saving, file, nextId, behind, restored>>
      /\ calls \in [Procs -> SUBSET Calls] /\ nextId \in Nat
  BY DEF JournalInv, TypeOK, EndEmpty
<1>2. PICK c \in calls[p] : calls' = [calls EXCEPT ![p] = calls[p] \ {c}]
  BY DEF EndEmpty
<1>3. calls' \in [Procs -> SUBSET Calls] /\ \A q \in Procs : calls'[q] \subseteq calls[q]
  BY <1>1, <1>2
<1>4. TypeOK'
  BY <1>1, <1>3 DEF TypeOK
<1>5. \A b \in Ids : Listed(b)' => Listed(b)
  BY <1>1 DEF Listed
<1>6. NumbersInv'
  BY <1>1, <1>3, <1>5, NumbersKept
<1>7. QED
  BY <1>1, <1>4, <1>6, StepsAside

LEMMA MarkUndoneKeeps ==
    ASSUME JournalInv, NEW p \in Procs, MarkUndone(p)
    PROVE  JournalInv'
<1>1. /\ TypeOK /\ ReadMeansHeld /\ NumbersInv /\ SoundList(file.list) /\ file.undone \subseteq Items(file.list)
      /\ batches[p] \in Seq(Ids) /\ SoundList(batches[p]) /\ undone[p] \in SUBSET Ids /\ UNCHANGED <<own, file, nextId, restored>>
      /\ nextId \in Nat /\ calls \in [Procs -> SUBSET Calls] /\ saving \in [Procs -> {"idle", "folded", "renamed"}]
  BY DEF JournalInv, TypeOK, MarkUndone
<1>2. PICK c \in calls[p] :
        /\ calls' = [calls EXCEPT ![p] = calls[p] \ {c}]
        /\ \/ /\ c.undoOf \in Items(batches[p])
              /\ Persist(p, batches[p], undone[p] \cup {c.undoOf})
           \/ /\ c.undoOf \notin Items(batches[p])
              /\ UNCHANGED <<batches, undone, seen, saving, behind>>
  BY DEF MarkUndone
<1>3. calls' \in [Procs -> SUBSET Calls] /\ \A q \in Procs : calls'[q] \subseteq calls[q]
  BY <1>1, <1>2
<1>4. CASE UNCHANGED <<batches, undone, seen, saving, behind>>
  <2>1. TypeOK'
    BY <1>1, <1>3, <1>4 DEF TypeOK
  <2>2. \A b \in Ids : Listed(b)' => Listed(b)
    BY <1>1, <1>4 DEF Listed
  <2>3. NumbersInv'
    BY <1>1, <1>3, <2>2, NumbersKept
  <2>4. QED
    BY <1>1, <1>4, <2>1, <2>3, StepsAside
<1>5. CASE c.undoOf \in Items(batches[p]) /\ Persist(p, batches[p], undone[p] \cup {c.undoOf})
  <2> DEFINE marks == undone[p] \cup {c.undoOf}
  <2>1. marks \in SUBSET Ids
    <3>1. Items(batches[p]) \subseteq Ids
      BY <1>1 DEF Items
    <3>2. QED
      BY <1>1, <1>5, <3>1
  <2>2. Fold(p, batches[p], marks) /\ saving' = [saving EXCEPT ![p] = "folded"]
    BY <1>5 DEF Persist
  <2>3. undone[p] \subseteq marks
    OBVIOUS
  <2> HIDE DEF marks
  <2>4. seen[p] /\ ~behind[p] => Covers(batches[p], marks)
    BY <1>1, <2>3 DEF ReadMeansHeld, Covers
  <2>5. /\ batches' \in [Procs -> Seq(Ids)] /\ undone' \in [Procs -> SUBSET Ids] /\ seen' \in [Procs -> BOOLEAN]
        /\ behind' \in [Procs -> BOOLEAN] /\ (\A q \in Procs : SoundList(batches'[q]) /\ undone'[q] \subseteq Items(batches'[q]))
        /\ ReadMeansHeld' /\ Items(batches'[p]) \subseteq Items(batches[p]) \cup Items(file.list)
        /\ (\A q \in Procs : q # p => batches'[q] = batches[q])
    BY <1>1, <2>1, <2>2, <2>4, FoldKeeps
  <2>6. saving' \in [Procs -> {"idle", "folded", "renamed"}]
    BY <1>1, <2>2
  <2>7. TypeOK'
    BY <1>1, <1>3, <2>5, <2>6 DEF TypeOK
  <2>8. \A b \in Ids : Listed(b)' => Listed(b)
    <3> SUFFICES ASSUME NEW b \in Ids, NEW q \in Procs, b \in Items(batches'[q]) PROVE Listed(b)
      BY <1>1 DEF Listed
    <3>1. QED
      BY <1>1, <2>5 DEF Listed
  <2>9. NumbersInv'
    BY <1>1, <1>3, <2>8, NumbersKept
  <2>10. QED
    BY <1>1, <2>5, <2>7, <2>9 DEF JournalInv
<1>6. QED
  BY <1>2, <1>4, <1>5

LEMMA RenameKeeps ==
    ASSUME JournalInv, NEW p \in Procs, Rename(p)
    PROVE  JournalInv'
<1>1. /\ TypeOK /\ ReadMeansHeld /\ NumbersInv /\ (\A q \in Procs : SoundList(batches[q]))
      /\ batches[p] \in Seq(Ids) /\ undone[p] \in SUBSET Ids /\ undone[p] \subseteq Items(batches[p])
      /\ file' = [list |-> batches[p], undone |-> undone[p]] /\ seen' = [q \in Procs |-> FALSE]
      /\ behind' = [q \in Procs |-> q # p] /\ saving' = [saving EXCEPT ![p] = "renamed"]
      /\ UNCHANGED <<batches, undone, own, calls, nextId, restored>>
      /\ nextId \in Nat /\ calls \in [Procs -> SUBSET Calls] /\ saving \in [Procs -> {"idle", "folded", "renamed"}]
  BY DEF JournalInv, TypeOK, Rename
<1>2. file' \in [list : Seq(Ids), undone : SUBSET Ids] /\ file'.list = batches[p] /\ file'.undone = undone[p]
  BY <1>1
<1>3. /\ seen' \in [Procs -> BOOLEAN] /\ behind' \in [Procs -> BOOLEAN] /\ saving' \in [Procs -> {"idle", "folded", "renamed"}]
      /\ \A q \in Procs : behind'[q] <=> q # p
  BY <1>1
<1>4. TypeOK'
  BY <1>1, <1>2, <1>3 DEF TypeOK
<1>5. ReadMeansHeld'
  BY <1>1, <1>2, <1>3 DEF ReadMeansHeld, Covers
<1>6. \A b \in Ids : Listed(b)' => Listed(b)
  BY <1>1, <1>2 DEF Listed
<1>7. NumbersInv'
  BY <1>1, <1>6, NumbersKept
<1>8. QED
  BY <1>1, <1>2, <1>4, <1>5, <1>7 DEF JournalInv

(* The rest of a save, its failure, and steps that change nothing.          *)
LEMMA SavingKeeps ==
    ASSUME JournalInv, UNCHANGED <<batches, undone, own, calls, file, nextId, behind, restored>>,
           seen' \in [Procs -> BOOLEAN], saving' \in [Procs -> {"idle", "folded", "renamed"}]
    PROVE  JournalInv'
<1>1. TypeOK' /\ NumbersInv'
  BY DEF JournalInv, TypeOK, NumbersInv, Listed
<1>2. QED
  BY <1>1, StepsAside

LEMMA JournalInvKept == JournalInv /\ [Next]_vars => JournalInv'
<1> SUFFICES ASSUME JournalInv, [Next]_vars PROVE JournalInv'
  OBVIOUS
<1>1. seen \in [Procs -> BOOLEAN] /\ saving \in [Procs -> {"idle", "folded", "renamed"}]
  BY DEF JournalInv, TypeOK
<1>2. ASSUME NEW p \in Procs, Stat(p) PROVE JournalInv'
  <2>1. seen' \in [Procs -> BOOLEAN] /\ saving' \in [Procs -> {"idle", "folded", "renamed"}]
    BY <1>1, <1>2 DEF Stat
  <2>2. QED
    BY <1>2, <2>1, SavingKeeps DEF Stat
<1>3. ASSUME NEW p \in Procs, SaveFails(p) PROVE JournalInv'
  <2>1. seen' \in [Procs -> BOOLEAN] /\ saving' \in [Procs -> {"idle", "folded", "renamed"}]
    BY <1>1, <1>3 DEF SaveFails
  <2>2. QED
    BY <1>3, <2>1, SavingKeeps DEF SaveFails
<1>4. CASE UNCHANGED vars
  BY <1>1, <1>4, SavingKeeps DEF vars
<1>5. ASSUME NEW p \in Procs, Restart(p) PROVE JournalInv'
  BY <1>5, RestartKeeps
<1>6. ASSUME NEW p \in Procs, Refresh(p) PROVE JournalInv'
  BY <1>6, RefreshKeeps
<1>7. ASSUME NEW p \in Procs, StartWrite(p) PROVE JournalInv'
  BY <1>7, StartWriteKeeps
<1>8. ASSUME NEW p \in Procs, StartUndo(p) PROVE JournalInv'
  BY <1>8, StartUndoKeeps
<1>9. ASSUME NEW p \in Procs, EndBatch(p) PROVE JournalInv'
  BY <1>9, EndBatchKeeps
<1>10. ASSUME NEW p \in Procs, EndEmpty(p) PROVE JournalInv'
  BY <1>10, EndEmptyKeeps
<1>11. ASSUME NEW p \in Procs, MarkUndone(p) PROVE JournalInv'
  BY <1>11, MarkUndoneKeeps
<1>12. ASSUME NEW p \in Procs, Rename(p) PROVE JournalInv'
  BY <1>12, RenameKeeps
<1>13. QED
  BY <1>2, <1>3, <1>4, <1>5, <1>6, <1>7, <1>8, <1>9, <1>10, <1>11, <1>12 DEF Next

-----------------------------------------------------------------------------
LEMMA JournalInvAlways == Spec => []JournalInv
<1>1. Init => JournalInv
  BY JournalInvInitially
<1>2. JournalInv /\ [Next]_vars => JournalInv'
  BY JournalInvKept
<1>3. QED
  BY <1>1, <1>2, PTL DEF Spec

\* Type correctness of the journal: the list, the marks and the file are
\* always of batches, and marks only of batches in the list.
THEOREM JournalTypes == Spec => []TypeOK
<1>1. JournalInv => TypeOK
  BY DEF JournalInv
<1>2. QED
  BY <1>1, JournalInvAlways, PTL

\* However the saves of the processes interleave, fail or are cut short by a
\* restart, neither a memory nor the file outgrows MAX_BATCHES or holds a batch
\* twice (merge's byId map, the splice of persist and the shift of runBatch).
THEOREM ListsStaySound == Spec => []ListsAreSound
<1>1. ASSUME NEW list \in Seq(Ids), SoundList(list) PROVE Len(list) <= MaxBatches /\ Cardinality(Items(list)) = Len(list)
  BY <1>1, DistinctCounts DEF SoundList
<1>2. JournalInv => ListsAreSound
  BY <1>1 DEF JournalInv, TypeOK, ListsAreSound
<1>3. QED
  BY <1>2, JournalInvAlways, PTL

\* The cache behind readIfChanged is coherent: a process that has read every
\* save of the others holds every batch and every mark of the file.
THEOREM ReadIsHeld == Spec => []ReadMeansHeld
<1>1. JournalInv => ReadMeansHeld
  BY DEF JournalInv
<1>2. QED
  BY <1>1, JournalInvAlways, PTL

\* A save (persist's rename) by a process that has read every save of the
\* others loses no batch, but for the cap, and no undoneAt of a batch that stays.
THEOREM SavesKeepAll == Spec => SavesKeep
<1>1. JournalInv /\ [Next]_vars =>
        \A p \in Procs : Rename(p) /\ ~behind[p] =>
            /\ Items(file.list) \subseteq Items(file'.list) \/ Full(file'.list)
            /\ file.undone \cap Items(file'.list) \subseteq file'.undone
  <2> SUFFICES ASSUME JournalInv, NEW p \in Procs, Rename(p), ~behind[p]
               PROVE  /\ Items(file.list) \subseteq Items(file'.list) \/ Full(file'.list)
                      /\ file.undone \cap Items(file'.list) \subseteq file'.undone
    OBVIOUS
  <2>1. file'.list = batches[p] /\ file'.undone = undone[p]
    BY DEF Rename
  <2>2. Covers(batches[p], undone[p])
    BY DEF JournalInv, ReadMeansHeld
  <2>3. QED
    BY <2>1, <2>2 DEF Covers
<1>2. QED
  BY <1>1, JournalInvAlways, PTL DEF Spec, SavesKeep

\* wing_undo does not start on a batch the file marks as undone, unless an
\* earlier race of two saves made its process miss that file.
THEOREM UndoesRespectMarks == Spec => UndoRespectsMarks
<1>1. JournalInv /\ [Next]_vars =>
        \A p \in Procs : \A c \in calls'[p] \ calls[p] :
            c.stage = "writing" /\ c.undoOf \in file.undone => behind[p] /\ seen[p]
  <2> SUFFICES ASSUME JournalInv, [Next]_vars, NEW p \in Procs, NEW c \in calls'[p] \ calls[p],
                      c.stage = "writing", c.undoOf \in file.undone
               PROVE  behind[p] /\ seen[p]
    OBVIOUS
  <2>1. /\ TypeOK /\ calls \in [Procs -> SUBSET Calls] /\ file.undone \subseteq Ids /\ c.undoOf # 0
        /\ batches[p] \in Seq(Ids) /\ SoundList(batches[p]) /\ undone[p] \in SUBSET Ids /\ ReadMeansHeld
    <3>1. TypeOK /\ file.undone \subseteq Ids /\ ReadMeansHeld /\ SoundList(batches[p])
      BY DEF JournalInv, TypeOK
    <3>2. 0 \notin Ids
      BY BoundsAssumption DEF Ids
    <3>3. QED
      BY <3>1, <3>2 DEF TypeOK
  <2>2. ASSUME NEW q \in Procs, StartUndo(q) PROVE behind[p] /\ seen[p]
    <3>1. PICK n \in Items(batches'[q]) \ undone'[q] : Begin(q, n)
      BY <2>2 DEF StartUndo
    <3>2. q = p /\ c.undoOf = n
      BY <2>1, <3>1 DEF Begin
    <3>3. Fold(p, batches[p], undone[p]) /\ file' = file
      BY <2>2, <3>2 DEF StartUndo
    <3>4. seen[p] /\ ~behind[p] => Covers(batches[p], undone[p])
      BY <2>1 DEF ReadMeansHeld
    <3>5. ReadMeansHeld' /\ (behind'[p] <=> behind[p] /\ seen[p])
      BY <2>1, <3>3, <3>4, FoldKeeps
    <3>6. SUFFICES ASSUME ~behind'[p] PROVE FALSE
      BY <3>5
    <3>7. file.undone \cap Items(batches'[p]) \subseteq undone'[p]
      BY <3>3, <3>5, <3>6 DEF ReadMeansHeld, Covers
    <3>8. QED
      BY <3>1, <3>2, <3>7
  <2>3. ASSUME NEW q \in Procs, StartWrite(q) PROVE FALSE
    BY <2>1, <2>3 DEF StartWrite, Begin
  <2>4. ASSUME NEW q \in Procs, EndBatch(q) PROVE FALSE
    BY <2>1, <2>4 DEF EndBatch, Calls
  <2>5. ASSUME NEW q \in Procs, Restart(q) \/ EndEmpty(q) \/ MarkUndone(q) PROVE FALSE
    BY <2>1, <2>5 DEF Restart, EndEmpty, MarkUndone
  <2>6. ASSUME NEW q \in Procs, Refresh(q) \/ Rename(q) \/ Stat(q) \/ SaveFails(q) PROVE FALSE
    BY <2>6 DEF Refresh, Rename, Stat, SaveFails
  <2>7. CASE UNCHANGED vars
    BY <2>7 DEF vars
  <2>8. QED
    BY <2>2, <2>3, <2>4, <2>5, <2>6, <2>7 DEF Next
<1>2. QED
  BY <1>1, JournalInvAlways, PTL DEF Spec, UndoRespectsMarks

-----------------------------------------------------------------------------
(* WingUndo: partial functions.                                             *)

LEMMA PartialHas ==
    ASSUME NEW R, NEW f \in Partial(R)
    PROVE  DOMAIN f \subseteq Paths /\ (\A p \in DOMAIN f : f[p] \in R)
BY DEF Partial

LEMMA PartialIs ==
    ASSUME NEW R, NEW D, D \subseteq Paths, NEW f \in [D -> R]
    PROVE  f \in Partial(R) /\ DOMAIN f = D
BY DEF Partial

LEMMA NothingIs == \A R : Nothing \in Partial(R) /\ DOMAIN Nothing = {}
<1> TAKE R
<1>1. Nothing \in [{} -> R] /\ DOMAIN Nothing = {}
  BY DEF Nothing
<1>2. QED
  BY <1>1, PartialIs

LEMMA OverIs ==
    ASSUME NEW R, NEW f \in Partial(R), NEW g \in Partial(R)
    PROVE  /\ f @@ g \in Partial(R) /\ DOMAIN (f @@ g) = DOMAIN f \cup DOMAIN g
           /\ \A p \in DOMAIN f : (f @@ g)[p] = f[p]
           /\ \A p \in DOMAIN g : p \notin DOMAIN f => (f @@ g)[p] = g[p]
<1>1. DOMAIN (f @@ g) = DOMAIN f \cup DOMAIN g /\ (\A p \in DOMAIN f : (f @@ g)[p] = f[p])
      /\ \A p \in DOMAIN g : p \notin DOMAIN f => (f @@ g)[p] = g[p]
  BY DEF @@
<1>2. DOMAIN f \cup DOMAIN g \subseteq Paths /\ f @@ g \in [DOMAIN f \cup DOMAIN g -> R]
  <2>1. /\ DOMAIN f \subseteq Paths /\ \A p \in DOMAIN f : f[p] \in R
        /\ DOMAIN g \subseteq Paths /\ \A p \in DOMAIN g : g[p] \in R
    BY PartialHas
  <2>2. QED
    BY <2>1 DEF @@
<1>3. QED
  BY <1>1, <1>2, PartialIs

LEMMA OneMore ==
    ASSUME NEW R, NEW f \in Partial(R), NEW q \in Paths, NEW v \in R
    PROVE  /\ f @@ (q :> v) \in Partial(R) /\ DOMAIN (f @@ (q :> v)) = DOMAIN f \cup {q}
           /\ \A p \in DOMAIN f : (f @@ (q :> v))[p] = f[p]
           /\ q \notin DOMAIN f => (f @@ (q :> v))[q] = v
<1>1. (q :> v) \in [{q} -> R] /\ (q :> v)[q] = v
  BY DEF :>
<1>2. (q :> v) \in Partial(R) /\ DOMAIN (q :> v) = {q}
  BY <1>1, PartialIs
<1>3. QED
  BY <1>1, <1>2, OverIs

LEMMA AssignmentIs ==
    ASSUME NEW a \in Assignments
    PROVE  a \in Partial(Values) /\ a \in Partial(Readings)
BY DEF Assignments, Partial, Paths, Readings

-----------------------------------------------------------------------------
(* What is true of a call under way.                                        *)

Sure(b) == Paths \ (disturbed[b] \cup unsure[b])

\* A call has a batch number of its own, and reads what it is about to write.
Shape(s) ==
    /\ call[s].id < nextBatch
    /\ call[s].stage = "ending" <=> call[s].plan = << >>
    /\ call[s].stage = "reading" => DOMAIN call[s].stored = {}
    /\ call[s].stage \in {"checking", "rereading"} => DOMAIN call[s].read = DOMAIN Target(s)
    /\ DOMAIN call[s].stored \subseteq DOMAIN call[s].read

\* What a call has read of the console still holds, or somebody wrote it since,
\* or the call itself did.
Reads(s) ==
    LET b == call[s].id IN
    /\ call[s].stage \in {"reading", "rereading"} =>
          \A p \in DOMAIN call[s].read \ disturbed[b] :
              \/ call[s].read[p] \in {Unread, console[p]}
              \/ call[s].stage = "rereading" /\ p \in DOMAIN replaced[b]
    /\ call[s].stage = "rereading" =>
          \A p \in DOMAIN call[s].stored \ disturbed[b] : call[s].stored[p] \in {Unread, console[p]}
    /\ \A p \in (Restorable(b) \ DOMAIN replaced[b]) \cap Sure(b) : console[p] = first[b][p]

Pending(s) == IF call[s].stage = "rereading" THEN DOMAIN Target(s) ELSE {}

\* What a call changed it has recorded, but for a rejected bulk-set that it is
\* still reading back.
Changes(s) ==
    LET b == call[s].id IN
    \A p \in (DOMAIN replaced[b] \cap Sure(b)) \ DOMAIN first[b] :
        /\ p \in Pending(s)
        /\ console[p] = Target(s)[p]
        /\ call[s].read[p] \in {Unread, replaced[b][p]}
        /\ replaced[b][p] # Target(s)[p]

Restored(s, p) == p \in Wrote(s) /\ (p \in disturbed[call[s].id] \/ console[p] = first[call[s].undoOf][p])

\* An undo that has not failed has put back what its plan no longer holds.
Restores(s) ==
    LET b == call[s].undoOf IN
    b # 0 =>
        /\ b \in journaled
        /\ \A i \in DOMAIN call[s].plan : \A p \in DOMAIN call[s].plan[i] :
               p \in Restorable(b) /\ call[s].plan[i][p] = first[b][p]
        /\ call[s].ok => \A p \in Restorable(b) :
               (\E i \in DOMAIN call[s].plan : p \in DOMAIN call[s].plan[i]) \/ Restored(s, p)
        /\ call[s].ok /\ call[s].stage = "checking" => \A p \in DOMAIN Target(s) : Restored(s, p)

CallInv(s) == Busy(s) => Shape(s) /\ Reads(s) /\ Changes(s) /\ Restores(s)

OpenBatch(b) == \E s \in Slots : Busy(s) /\ call[s].id = b

BatchInv(b) ==
    /\ \A p \in Restorable(b) \cap DOMAIN replaced[b] \cap Sure(b) : first[b][p] = replaced[b][p]
    /\ ~OpenBatch(b) => DOMAIN replaced[b] \cap Sure(b) \subseteq DOMAIN first[b]
    /\ b >= nextBatch => DOMAIN first[b] = {} /\ DOMAIN replaced[b] = {}

UndoInv ==
    /\ UndoTypeOK
    /\ \A s, t \in Slots : Busy(s) /\ Busy(t) /\ call[s].id = call[t].id => s = t
    /\ \A s \in Slots : CallInv(s)
    /\ \A b \in BatchIds : BatchInv(b)

-----------------------------------------------------------------------------
(* The parts of a call under way, and of the history.                       *)
LEMMA CallHas ==
    ASSUME UndoTypeOK, NEW s \in Slots, Busy(s)
    PROVE  /\ call[s] \in CallType /\ call[s].id \in BatchIds /\ call[s].id \in Nat /\ call[s].id \notin journaled
           /\ call[s].undoOf \in {0} \cup BatchIds /\ call[s].plan \in Seq(Assignments) /\ call[s].ok \in BOOLEAN
           /\ call[s].read \in Partial(Readings) /\ call[s].stored \in Partial(Readings)
           /\ call[s].stage \in {"reading", "checking", "rereading", "ending"}
           /\ DOMAIN call[s].read \subseteq Paths /\ DOMAIN call[s].stored \subseteq Paths
           /\ \A p \in DOMAIN call[s].read : call[s].read[p] \in Readings
<1>1. call[s] \in {NoCall} \cup CallType
  BY DEF UndoTypeOK
<1>2. call[s] \in CallType
  BY <1>1 DEF Busy, NoCall
<1>3. call[s].read \in Partial(Readings) /\ call[s].stored \in Partial(Readings)
  BY <1>2 DEF CallType
<1>4. /\ DOMAIN call[s].read \subseteq Paths /\ DOMAIN call[s].stored \subseteq Paths
      /\ \A p \in DOMAIN call[s].read : call[s].read[p] \in Readings
  BY <1>3, PartialHas
<1>5. QED
  BY <1>2, <1>4 DEF CallType, UndoTypeOK, BatchIds

LEMMA HistoryHas ==
    ASSUME UndoTypeOK, NEW b \in BatchIds
    PROVE  /\ first[b] \in Partial(Readings) /\ DOMAIN first[b] \subseteq Paths /\ (\A p \in DOMAIN first[b] : first[b][p] \in Readings)
           /\ replaced[b] \in Partial(Values) /\ DOMAIN replaced[b] \subseteq Paths /\ (\A p \in DOMAIN replaced[b] : replaced[b][p] \in Values)
           /\ Restorable(b) \subseteq DOMAIN first[b] /\ Restorable(b) \subseteq Paths
           /\ disturbed[b] \subseteq Paths /\ unsure[b] \subseteq Paths
<1>1. first[b] \in Partial(Readings) /\ replaced[b] \in Partial(Values) /\ disturbed[b] \subseteq Paths /\ unsure[b] \subseteq Paths
  BY DEF UndoTypeOK
<1>2. DOMAIN first[b] \subseteq Paths /\ DOMAIN replaced[b] \subseteq Paths
      /\ (\A p \in DOMAIN first[b] : first[b][p] \in Readings) /\ \A p \in DOMAIN replaced[b] : replaced[b][p] \in Values
  BY <1>1, PartialHas
<1>3. QED
  BY <1>1, <1>2 DEF Restorable

LEMMA TargetIs ==
    ASSUME UndoTypeOK, NEW s \in Slots, Busy(s), call[s].plan # << >>
    PROVE  /\ Target(s) \in Assignments /\ Target(s) \in Partial(Values) /\ DOMAIN Target(s) \subseteq Paths
           /\ (\A p \in DOMAIN Target(s) : Target(s)[p] \in Values) /\ Tail(call[s].plan) \in Seq(Assignments)
           /\ 1 \in DOMAIN call[s].plan /\ Target(s) = call[s].plan[1]
           /\ \A i \in DOMAIN Tail(call[s].plan) : i + 1 \in DOMAIN call[s].plan /\ Tail(call[s].plan)[i] = call[s].plan[i + 1]
           /\ \A i \in DOMAIN call[s].plan : i = 1 \/ (i - 1 \in DOMAIN Tail(call[s].plan) /\ Tail(call[s].plan)[i - 1] = call[s].plan[i])
<1> DEFINE plan == call[s].plan
<1>1. plan \in Seq(Assignments) /\ plan # << >>
  BY CallHas
<1> HIDE DEF plan
<1>2. /\ Head(plan) \in Assignments /\ Tail(plan) \in Seq(Assignments) /\ Len(plan) \in Nat /\ Len(plan) > 0
      /\ Len(Tail(plan)) = Len(plan) - 1 /\ \A i \in 1..(Len(plan) - 1) : Tail(plan)[i] = plan[i + 1]
  BY <1>1, HeadTailProperties
<1>3. Head(plan) = plan[1] /\ DOMAIN plan = 1..Len(plan) /\ DOMAIN Tail(plan) = 1..(Len(plan) - 1)
  BY <1>1, <1>2
<1>4. \A i \in DOMAIN Tail(plan) : i + 1 \in DOMAIN plan /\ Tail(plan)[i] = plan[i + 1]
  BY <1>2, <1>3
<1>5. ASSUME NEW i \in DOMAIN plan, i # 1 PROVE i - 1 \in DOMAIN Tail(plan) /\ Tail(plan)[i - 1] = plan[i]
  <2>1. i - 1 \in 1..(Len(plan) - 1) /\ (i - 1) + 1 = i
    BY <1>2, <1>3, <1>5
  <2>2. QED
    BY <1>2, <1>3, <2>1
<1>6. Target(s) = Head(plan)
  BY DEF Target, plan
<1>7. Target(s) \in Assignments /\ Target(s) \in Partial(Values)
  BY <1>2, <1>6, AssignmentIs
<1>8. DOMAIN Target(s) \subseteq Paths /\ \A p \in DOMAIN Target(s) : Target(s)[p] \in Values
  BY <1>7, PartialHas
<1>9. 1 \in DOMAIN plan /\ Target(s) = plan[1]
  BY <1>2, <1>3, <1>6
<1>10. QED
  BY <1>2, <1>4, <1>5, <1>7, <1>8, <1>9 DEF plan

(* A call that does not move, while others may write what it has not read,  *)
(* or disturb it.                                                           *)
Left(t) ==
    LET b == call[t].id IN
    /\ call'[t] = call[t] /\ first'[b] = first[b] /\ replaced'[b] = replaced[b] /\ unsure'[b] = unsure[b]
    /\ disturbed[b] \subseteq disturbed'[b] /\ disturbed'[b] \subseteq Paths
    /\ \A p \in DOMAIN call[t].read \cup Wrote(t) : console'[p] = console[p] \/ p \in disturbed'[b]
    /\ nextBatch <= nextBatch' /\ journaled \subseteq journaled'
    /\ call[t].undoOf \in journaled => first'[call[t].undoOf] = first[call[t].undoOf]

LEMMA LeftKeeps ==
    ASSUME UndoTypeOK, NEW t \in Slots, Busy(t), Shape(t), Reads(t), Changes(t), Restores(t), Left(t), nextBatch' \in Nat
    PROVE  CallInv(t)'
<1>0. PICK b, c, u : b = call[t].id /\ c = call[t] /\ u = call[t].undoOf
  OBVIOUS
<1>1. /\ call'[t] = call[t] /\ first'[b] = first[b] /\ replaced'[b] = replaced[b] /\ unsure'[b] = unsure[b]
      /\ disturbed[b] \subseteq disturbed'[b] /\ disturbed'[b] \subseteq Paths
      /\ \A p \in DOMAIN call[t].read \cup DOMAIN first[b] : console'[p] = console[p] \/ p \in disturbed'[b]
      /\ nextBatch <= nextBatch' /\ journaled \subseteq journaled'
      /\ call[t].undoOf \in journaled => first'[call[t].undoOf] = first[call[t].undoOf]
  BY <1>0 DEF Left, Wrote
<1>2. b \in BatchIds /\ b \in Nat /\ DOMAIN c.read \subseteq Paths /\ Restorable(b) \subseteq DOMAIN first[b] /\ DOMAIN first[b] \subseteq Paths /\ nextBatch \in Nat
  BY <1>0, CallHas, HistoryHas DEF UndoTypeOK
<1>3. Sure(b)' \subseteq Sure(b)
  BY <1>1 DEF Sure
<1>4. /\ call'[t].id = b /\ call'[t].stage = c.stage /\ call'[t].plan = c.plan /\ call'[t].read = c.read /\ call'[t].stored = c.stored
      /\ call'[t].undoOf = c.undoOf /\ call'[t].ok = c.ok /\ Restorable(b)' = Restorable(b) /\ Target(t)' = Target(t)
      /\ Pending(t)' = Pending(t) /\ Wrote(t)' = Wrote(t)
  BY <1>0, <1>1 DEF Restorable, Target, Pending, Wrote
<1>5. Shape(t)'
  <2>1. b < nextBatch
    BY <1>0 DEF Shape
  <2>2. b < nextBatch'
    BY <1>1, <1>2, <2>1
  <2>3. QED
    BY <1>0, <1>1, <1>4, <2>2 DEF Shape
<1>r. replaced'[b] = replaced[b] /\ first'[b] = first[b]
  BY <1>0, <1>1
<1>6. Reads(t)'
  <2>1. ASSUME c.stage \in {"reading", "rereading"}, NEW p \in DOMAIN c.read \ disturbed'[b]
        PROVE  c.read[p] \in {Unread, console'[p]} \/ (c.stage = "rereading" /\ p \in DOMAIN replaced[b])
    BY <1>0, <1>1, <2>1 DEF Reads
  <2>2. ASSUME c.stage = "rereading", NEW p \in DOMAIN c.stored \ disturbed'[b] PROVE c.stored[p] \in {Unread, console'[p]}
    BY <1>0, <1>1, <2>2 DEF Reads, Shape
  <2>3. ASSUME NEW p \in (Restorable(b) \ DOMAIN replaced[b]) \cap Sure(b)' PROVE console'[p] = first[b][p]
    <3>1. p \in DOMAIN first[b] /\ p \notin disturbed'[b] /\ p \in Sure(b)
      BY <1>2, <1>3, <2>3 DEF Sure
    <3>2. console[p] = first[b][p]
      BY <1>0, <2>3, <3>1 DEF Reads
    <3>3. QED
      BY <1>1, <3>1, <3>2
  <2>4. QED
    BY <1>4, <1>r, <2>1, <2>2, <2>3 DEF Reads
<1>7. Changes(t)'
  <2>1. ASSUME NEW p \in (DOMAIN replaced[b] \cap Sure(b)') \ DOMAIN first[b]
        PROVE  /\ p \in Pending(t) /\ console'[p] = Target(t)[p] /\ c.read[p] \in {Unread, replaced[b][p]} /\ replaced[b][p] # Target(t)[p]
    <3>1. p \in Pending(t) /\ console[p] = Target(t)[p] /\ c.read[p] \in {Unread, replaced[b][p]} /\ replaced[b][p] # Target(t)[p]
      BY <1>0, <1>3, <2>1 DEF Changes
    <3>2. p \in DOMAIN c.read /\ p \notin disturbed'[b]
      BY <1>0, <2>1, <3>1 DEF Pending, Shape, Sure
    <3>3. QED
      BY <1>0, <1>1, <3>1, <3>2
  <2>2. QED
    BY <1>4, <1>r, <2>1 DEF Changes
<1>8. Restores(t)'
  <2> SUFFICES ASSUME u # 0 PROVE Restores(t)'
    BY <1>0, <1>4 DEF Restores
  <2>1. u \in journaled /\ u \in journaled' /\ first'[u] = first[u] /\ Restorable(u)' = Restorable(u)
    BY <1>0, <1>1 DEF Restores, Restorable
  <2>2. \A p : Restored(t, p) => Restored(t, p)'
    BY <1>0, <1>1, <1>4, <2>1 DEF Restored, Wrote
  <2>3. QED
    BY <1>0, <1>1, <1>4, <2>1, <2>2 DEF Restores
<1>9. QED
  BY <1>5, <1>6, <1>7, <1>8 DEF CallInv

(* One call moves, under the batch number m.                                *)
Others(s, m) ==
    /\ m \in BatchIds /\ m \notin journaled /\ nextBatch <= nextBatch' /\ journaled \subseteq journaled'
    /\ Busy(s) => call[s].id = m
    /\ Busy(s)' => call'[s].id = m
    /\ \A t \in Slots \ {s} :
        /\ call'[t] = call[t]
        /\ Busy(t) =>
            /\ call[t].id # m
            /\ \A p \in DOMAIN call[t].read \cup Wrote(t) : console'[p] = console[p] \/ p \in disturbed'[call[t].id]
    /\ \A b \in BatchIds \ {m} :
        first'[b] = first[b] /\ replaced'[b] = replaced[b] /\ unsure'[b] = unsure[b] /\ disturbed[b] \subseteq disturbed'[b]

LEMMA BatchesLeft ==
    ASSUME UndoInv, UndoTypeOK', NEW b \in BatchIds, first'[b] = first[b], replaced'[b] = replaced[b], unsure'[b] = unsure[b],
           disturbed[b] \subseteq disturbed'[b], OpenBatch(b) => OpenBatch(b)', nextBatch <= nextBatch'
    PROVE  BatchInv(b)'
<1>1. Restorable(b)' = Restorable(b) /\ Sure(b)' \subseteq Sure(b)
  BY DEF Restorable, Sure
<1>2. BatchInv(b)
  BY DEF UndoInv
<1>3. b \in Nat /\ nextBatch \in Nat /\ nextBatch' \in Nat
  BY DEF BatchIds, UndoInv, UndoTypeOK
<1>4. b >= nextBatch' => b >= nextBatch
  BY <1>3
<1>5. QED
  BY <1>1, <1>2, <1>4 DEF BatchInv

LEMMA StepKeeps ==
    ASSUME UndoInv, UndoTypeOK', NEW s \in Slots, NEW m, Others(s, m), CallInv(s)', BatchInv(m)'
    PROVE  UndoInv'
<1>1. UndoTypeOK /\ nextBatch' \in Nat /\ nextBatch \in Nat
  BY DEF UndoInv, UndoTypeOK
<1>2. ASSUME NEW t \in Slots \ {s}, Busy(t) PROVE CallInv(t)'
  <2>1. call[t].id \in BatchIds \ {m} /\ (call[t].undoOf \in journaled => call[t].undoOf \in BatchIds \ {m})
    BY <1>1, <1>2, CallHas DEF Others, UndoTypeOK, BatchIds
  <2>2. disturbed'[call[t].id] \subseteq Paths
    BY <2>1 DEF UndoTypeOK
  <2>3. Left(t)
    BY <1>2, <2>1, <2>2 DEF Others, Left
  <2>4. QED
    BY <1>1, <1>2, <2>3, LeftKeeps DEF UndoInv, CallInv
<1>3. \A t \in Slots : CallInv(t)'
  BY <1>2 DEF Others, CallInv, Busy
<1>4. ASSUME NEW b \in BatchIds PROVE BatchInv(b)'
  <2>1. CASE b = m
    BY <2>1
  <2>2. CASE b # m
    <3>1. OpenBatch(b) => OpenBatch(b)'
      BY <2>2 DEF Others, OpenBatch, Busy
    <3>2. QED
      BY <2>2, <3>1, BatchesLeft DEF Others
  <2>3. QED
    BY <2>1, <2>2
<1>5. ASSUME NEW t \in Slots, NEW u \in Slots, Busy(t)', Busy(u)', call'[t].id = call'[u].id PROVE t = u
  BY <1>5 DEF Others, UndoInv, Busy
<1>6. QED
  BY <1>3, <1>4, <1>5 DEF UndoInv

LEMMA UndoInvInitially == UndoInit => UndoInv
<1> SUFFICES ASSUME UndoInit PROVE UndoInv
  OBVIOUS
<1>1. \A b \in BatchIds : first[b] = Nothing /\ replaced[b] = Nothing
  BY DEF UndoInit
<1>2. \A b \in BatchIds : DOMAIN first[b] = {} /\ DOMAIN replaced[b] = {} /\ Restorable(b) = {}
  BY <1>1, NothingIs DEF Restorable
<1>3. \A s \in Slots : ~Busy(s)
  BY DEF UndoInit, Busy, NoCall
<1>4. 1 \in 1..(MaxBatchIds + 1) /\ 0 \in 0..MaxOthers
  BY UndoLimitsAssumption
<1>5. UndoTypeOK
  BY <1>3, <1>4, NothingIs DEF UndoInit, UndoTypeOK
<1>6. QED
  BY <1>2, <1>3, <1>5 DEF UndoInv, CallInv, BatchInv

(* The surface, or another client, writes.                                  *)
LEMMA OtherChangeKeeps ==
    ASSUME UndoInv, OtherChange
    PROVE  UndoInv'
<1>1. /\ UndoTypeOK /\ UNCHANGED <<call, first, journaled, undoneBatches, nextBatch, replaced, unsure>>
      /\ others \in Nat /\ others < MaxOthers /\ others' = others + 1
  BY DEF UndoInv, UndoTypeOK, OtherChange
<1>2. PICK q \in Paths, v \in Values : console' = [console EXCEPT ![q] = v] /\ Disturbs(q :> v, {})
  BY DEF OtherChange
<1>3. DOMAIN (q :> v) = {q}
  BY DEF :>
<1>4. disturbed' = [b \in BatchIds |->
        disturbed[b] \cup UNION {{q} \cap (DOMAIN call[t].read \cup Wrote(t)) : t \in {u \in Slots : Busy(u) /\ call[u].id = b}}]
  BY <1>2, <1>3 DEF Disturbs
<1>5. disturbed' \in [BatchIds -> SUBSET Paths] /\ \A b \in BatchIds : disturbed[b] \subseteq disturbed'[b]
  BY <1>1, <1>4 DEF UndoTypeOK
<1>6. console' \in [Paths -> Values] /\ \A p \in Paths : p # q => console'[p] = console[p]
  BY <1>1, <1>2 DEF UndoTypeOK
<1>7. others' \in 0..MaxOthers
  BY <1>1, UndoLimitsAssumption
<1>8. UndoTypeOK'
  BY <1>1, <1>5, <1>6, <1>7 DEF UndoTypeOK, Busy
<1>9. ASSUME NEW t \in Slots, Busy(t) PROVE CallInv(t)'
  <2>1. /\ call[t].id \in BatchIds /\ DOMAIN call[t].read \subseteq Paths /\ Wrote(t) \subseteq Paths
    BY <1>1, <1>9, CallHas, HistoryHas DEF Wrote
  <2>2. ASSUME NEW p \in DOMAIN call[t].read \cup Wrote(t) PROVE console'[p] = console[p] \/ p \in disturbed'[call[t].id]
    <3>1. CASE p = q
      BY <1>4, <1>9, <2>1, <2>2, <3>1
    <3>2. CASE p # q
      BY <1>6, <2>1, <2>2, <3>2
    <3>3. QED
      BY <3>1, <3>2
  <2>3. nextBatch \in Nat /\ nextBatch <= nextBatch'
    BY <1>1 DEF UndoTypeOK
  <2>4. Left(t)
    BY <1>1, <1>5, <2>1, <2>2, <2>3 DEF Left
  <2>5. QED
    BY <1>1, <1>9, <2>3, <2>4, LeftKeeps DEF UndoInv, CallInv
<1>10. ASSUME NEW b \in BatchIds PROVE BatchInv(b)'
  <2>1. OpenBatch(b) => OpenBatch(b)'
    BY <1>1 DEF OpenBatch, Busy
  <2>2. nextBatch <= nextBatch'
    BY <1>1 DEF UndoTypeOK
  <2>3. QED
    BY <1>1, <1>5, <1>8, <2>1, <2>2, BatchesLeft
<1>11. QED
  BY <1>1, <1>8, <1>9, <1>10 DEF UndoInv, CallInv, Busy

(* A call opens its batch. *)
LEMMA OpenKeeps ==
    ASSUME UndoInv, NEW s \in Slots, NEW u \in {0} \cup BatchIds, NEW plan \in Seq(Assignments), Open(s, u, plan),
           u # 0 => /\ u \in journaled
                    /\ \A i \in DOMAIN plan : \A p \in DOMAIN plan[i] : p \in Restorable(u) /\ plan[i][p] = first[u][p]
                    /\ \A p \in Restorable(u) : \E i \in DOMAIN plan : p \in DOMAIN plan[i]
    PROVE  UndoInv'
<1>1. PICK c, m : /\ m = nextBatch
                  /\ c = [id |-> nextBatch, undoOf |-> u, plan |-> plan, ok |-> TRUE, read |-> Nothing, stored |-> Nothing,
                          stage |-> IF plan = << >> THEN "ending" ELSE "reading"]
  OBVIOUS
<1>2. /\ UndoTypeOK /\ ~Busy(s) /\ nextBatch <= MaxBatchIds /\ nextBatch' = nextBatch + 1 /\ call' = [call EXCEPT ![s] = c]
      /\ UNCHANGED <<console, first, journaled, undoneBatches, others, replaced, disturbed, unsure>>
  BY <1>1 DEF Open, UndoInv
<1>3. nextBatch \in Nat /\ m \in BatchIds /\ nextBatch' \in 1..(MaxBatchIds + 1) /\ m < nextBatch' /\ journaled \subseteq 1..(nextBatch' - 1) /\ m \notin journaled
      /\ nextBatch <= nextBatch' /\ m >= nextBatch
  BY <1>1, <1>2, UndoLimitsAssumption DEF UndoTypeOK, BatchIds
<1>4. c \in CallType
  BY <1>1, <1>3, NothingIs DEF CallType
<1>5. /\ call \in [Slots -> {NoCall} \cup CallType] /\ call' \in [Slots -> {NoCall} \cup CallType] /\ call'[s] = c
      /\ \A t \in Slots \ {s} : call'[t] = call[t]
  BY <1>2, <1>4 DEF UndoTypeOK
<1>6. c.id = m /\ c.undoOf = u /\ c.plan = plan /\ c.read = Nothing /\ c.stored = Nothing /\ c.stage \in {"ending", "reading"} /\ (c.stage = "ending" <=> plan = << >>)
  BY <1>1
<1>7. UndoTypeOK'
  BY <1>2, <1>3, <1>5, <1>6 DEF UndoTypeOK, Busy
<1>8. ASSUME NEW t \in Slots \ {s}, Busy(t) PROVE call[t].id # m
  <2>1. call[t].id < nextBatch /\ call[t].id \in Nat
    BY <1>2, <1>8, CallHas DEF UndoInv, CallInv, Shape
  <2>2. QED
    BY <1>1, <1>3, <2>1
<1>9. Others(s, m)
  BY <1>2, <1>3, <1>5, <1>6, <1>8 DEF Others
<1>10. DOMAIN first'[m] = {} /\ DOMAIN replaced'[m] = {} /\ Restorable(m)' = {}
  BY <1>2, <1>3 DEF UndoInv, BatchInv, Restorable
<1>11. BatchInv(m)'
  BY <1>10 DEF BatchInv
<1>12. Shape(s)'
  BY <1>3, <1>5, <1>6, NothingIs DEF Shape
<1>13. Reads(s)' /\ Changes(s)'
  BY <1>5, <1>6, <1>10, NothingIs DEF Reads, Changes
<1>14. Restorable(u)' = Restorable(u)
  BY <1>2 DEF Restorable
<1>15. Restores(s)'
  BY <1>2, <1>5, <1>6, <1>14 DEF Restores
<1>16. QED
  BY <1>7, <1>9, <1>11, <1>12, <1>13, <1>15, StepKeeps DEF CallInv

LEMMA BeginWriteKeeps ==
    ASSUME UndoInv, NEW s \in Slots, BeginWrite(s)
    PROVE  UndoInv'
<1>1. PICK plan \in Plans : Open(s, 0, plan)
  BY DEF BeginWrite
<1>2. plan \in Seq(Assignments)
  BY PlansAssumption
<1>3. QED
  BY <1>1, <1>2, OpenKeeps

LEMMA BeginUndoKeeps ==
    ASSUME UndoInv, NEW s \in Slots, BeginUndo(s)
    PROVE  UndoInv'
<1>1. PICK b \in journaled \ undoneBatches :
        LET some == {n \in Nodes : Restorable(b) \cap n # {}} IN
        \E order \in [1 .. Cardinality(some) -> some] :
            /\ \A n \in some : \E i \in DOMAIN order : order[i] = n
            /\ Open(s, b, [i \in DOMAIN order |-> RestoreOf(b, order[i])])
  BY DEF BeginUndo
<1> DEFINE nodes == {n \in Nodes : Restorable(b) \cap n # {}}
<1>2. PICK order \in [1 .. Cardinality(nodes) -> nodes] :
            /\ \A n \in nodes : \E i \in DOMAIN order : order[i] = n
            /\ Open(s, b, [i \in DOMAIN order |-> RestoreOf(b, order[i])])
  BY <1>1
<1> DEFINE plan == [i \in DOMAIN order |-> RestoreOf(b, order[i])]
<1>3. UndoTypeOK /\ b \in BatchIds /\ Restorable(b) \subseteq Paths
  <2>1. UndoTypeOK /\ b \in BatchIds
    BY UndoLimitsAssumption DEF UndoInv, UndoTypeOK, BatchIds
  <2>2. QED
    BY <2>1, HistoryHas
<1>4. Cardinality(nodes) \in Nat
  BY NodesAssumption, FS_Subset, FS_CardinalityType
<1>5. ASSUME NEW n \in nodes
      PROVE  RestoreOf(b, n) \in Assignments /\ DOMAIN RestoreOf(b, n) = Restorable(b) \cap n
             /\ \A p \in DOMAIN RestoreOf(b, n) : p \in Restorable(b) /\ RestoreOf(b, n)[p] = first[b][p]
  <2>1. \A p \in Restorable(b) : first[b][p] \in Values
    BY <1>3, HistoryHas DEF Restorable, Readings
  <2>2. RestoreOf(b, n) \in [Restorable(b) \cap n -> Values]
    BY <2>1 DEF RestoreOf
  <2>3. Restorable(b) \cap n \in (SUBSET n) \ {{}} /\ n \in Nodes
    BY DEF nodes
  <2>4. RestoreOf(b, n) \in Assignments
    BY <2>2, <2>3 DEF Assignments
  <2>5. QED
    BY <2>4 DEF RestoreOf
<1> HIDE DEF nodes
<1>6. plan \in Seq(Assignments) /\ DOMAIN plan = DOMAIN order /\ \A i \in DOMAIN order : plan[i] = RestoreOf(b, order[i]) /\ order[i] \in nodes
  <2>1. DOMAIN order = 1..Cardinality(nodes) /\ \A i \in DOMAIN order : order[i] \in nodes
    OBVIOUS
  <2>2. plan \in [1..Cardinality(nodes) -> Assignments]
    BY <1>5, <2>1
  <2>3. QED
    BY <1>4, <2>1, <2>2
<1>7. ASSUME NEW p \in Restorable(b) PROVE \E i \in DOMAIN plan : p \in DOMAIN plan[i]
  <2>1. PICK n \in Nodes : p \in n
    BY <1>3 DEF Paths
  <2>2. n \in nodes
    BY <2>1 DEF nodes
  <2>3. PICK i \in DOMAIN order : order[i] = n
    BY <1>2, <2>2
  <2>4. p \in DOMAIN plan[i]
    BY <1>5, <1>6, <2>1, <2>2, <2>3
  <2>5. QED
    BY <1>6, <2>4
<1>8. \A i \in DOMAIN plan : \A p \in DOMAIN plan[i] : p \in Restorable(b) /\ plan[i][p] = first[b][p]
  BY <1>5, <1>6
<1>9. Open(s, b, plan)
  BY <1>2
<1> HIDE DEF plan
<1>10. QED
  BY <1>3, <1>6, <1>7, <1>8, <1>9, OpenKeeps

(* A call goes on without touching anything but itself. *)
LEMMA QuietKeeps ==
    ASSUME UndoInv, NEW s \in Slots, Busy(s), NEW c \in CallType, call' = [call EXCEPT ![s] = c],
           c.id = call[s].id, UNCHANGED <<console, first, journaled, undoneBatches, nextBatch, others, replaced, disturbed, unsure>>,
           Shape(s)', Reads(s)', Changes(s)', Restores(s)'
    PROVE  UndoInv'
<1>1. UndoTypeOK /\ call[s].id \in BatchIds /\ call[s].id \notin journaled /\ nextBatch \in Nat
  BY CallHas DEF UndoInv, UndoTypeOK
<1>2. call' \in [Slots -> {NoCall} \cup CallType] /\ call'[s] = c /\ \A t \in Slots \ {s} : call'[t] = call[t]
  BY <1>1 DEF UndoTypeOK
<1>3. UndoTypeOK'
  BY <1>1, <1>2 DEF UndoTypeOK, Busy
<1>4. Others(s, call[s].id)
  BY <1>1, <1>2 DEF Others, UndoInv
<1>5. c.stage # "idle"
  BY DEF CallType
<1>6. PICK m : m = call[s].id
  OBVIOUS
<1>7. OpenBatch(m)'
  BY <1>2, <1>5, <1>6 DEF OpenBatch, Busy
<1>8. BatchInv(m)'
  BY <1>1, <1>3, <1>6, <1>7, BatchesLeft
<1>9. QED
  BY <1>3, <1>4, <1>6, <1>8, StepKeeps DEF CallInv

LEMMA ReadKeeps ==
    ASSUME UndoInv, NEW s \in Slots, Read(s)
    PROVE  UndoInv'
<1>1. UndoTypeOK /\ call[s].stage = "reading" /\ UNCHANGED <<console, first, journaled, undoneBatches, nextBatch, others, replaced, disturbed, unsure>>
  BY DEF UndoInv, Read
<1>2. Busy(s) /\ Shape(s) /\ Reads(s) /\ Changes(s) /\ Restores(s)
  BY <1>1 DEF Busy, UndoInv, CallInv
<1>3. PICK q \in DOMAIN Target(s) \ DOMAIN call[s].read : \E v \in {console[q], Unread} : call' = [call EXCEPT ![s].read = call[s].read @@ (q :> v)]
  BY DEF Read
<1>0. PICK v \in {console[q], Unread} : call' = [call EXCEPT ![s].read = call[s].read @@ (q :> v)]
  BY <1>3
<1>4. call[s] \in CallType /\ call[s].read \in Partial(Readings) /\ DOMAIN Target(s) \subseteq Paths
  BY <1>1, <1>2, CallHas, TargetIs DEF Shape
<1>5. q \in Paths /\ v \in Readings
  BY <1>1, <1>0, <1>4 DEF UndoTypeOK, Readings
<1>6. PICK r, c, m : r = call[s].read @@ (q :> v) /\ c = [call[s] EXCEPT !.read = r] /\ m = call[s].id
  OBVIOUS
<1>7. /\ r \in Partial(Readings) /\ DOMAIN r = DOMAIN call[s].read \cup {q}
      /\ (\A p \in DOMAIN call[s].read : r[p] = call[s].read[p]) /\ r[q] = v
  <2>1. PICK f : f = call[s].read
    OBVIOUS
  <2>2. f \in Partial(Readings) /\ q \notin DOMAIN f /\ r = f @@ (q :> v)
    BY <1>3, <1>4, <1>6, <2>1
  <2>3. /\ f @@ (q :> v) \in Partial(Readings) /\ DOMAIN (f @@ (q :> v)) = DOMAIN f \cup {q}
        /\ (\A p \in DOMAIN f : (f @@ (q :> v))[p] = f[p]) /\ (f @@ (q :> v))[q] = v
    BY ONLY <1>5, <2>2, OneMore
  <2>4. QED
    BY <2>1, <2>2, <2>3
<1>8. /\ c \in CallType /\ c.id = m /\ c.undoOf = call[s].undoOf /\ c.plan = call[s].plan /\ c.ok = call[s].ok
      /\ c.read = r /\ c.stored = call[s].stored /\ c.stage = "reading"
  BY <1>1, <1>4, <1>6, <1>7 DEF CallType
<1>9. call' = [call EXCEPT ![s] = c] /\ call'[s] = c
  BY <1>1, <1>0, <1>6 DEF UndoTypeOK
<1>10. Restorable(m)' = Restorable(m) /\ Sure(m)' = Sure(m) /\ Wrote(s)' = Wrote(s) /\ Target(s)' = Target(s)
  BY <1>1, <1>6, <1>8, <1>9 DEF Restorable, Sure, Wrote, Target
<1>11. Shape(s)'
  BY <1>1, <1>2, <1>6, <1>8, <1>9 DEF Shape
<1>12. Reads(s)'
  BY <1>1, <1>2, <1>6, <1>7, <1>8, <1>9, <1>10 DEF Reads
<1>13. Changes(s)'
  BY <1>1, <1>2, <1>6, <1>8, <1>9, <1>10 DEF Changes, Pending
<1>14. Restores(s)'
  <2>1. PICK u : u = call[s].undoOf
    OBVIOUS
  <2>2. Restorable(u)' = Restorable(u)
    BY <1>1 DEF Restorable
  <2>3. \A p : Restored(s, p)' = Restored(s, p)
    BY <1>1, <1>6, <1>8, <1>9, <1>10, <2>1 DEF Restored
  <2>4. QED
    BY <1>1, <1>2, <1>8, <1>9, <1>10, <2>1, <2>2, <2>3 DEF Restores
<1>15. QED
  BY <1>1, <1>2, <1>6, <1>8, <1>9, <1>11, <1>12, <1>13, <1>14, QuietKeeps

LEMMA ReadBackKeeps ==
    ASSUME UndoInv, NEW s \in Slots, ReadBack(s)
    PROVE  UndoInv'
<1>1. /\ UndoTypeOK /\ call[s].stage \in {"checking", "rereading"}
      /\ UNCHANGED <<console, first, journaled, undoneBatches, nextBatch, others, replaced, disturbed, unsure>>
  BY DEF UndoInv, ReadBack
<1>2. Busy(s) /\ Shape(s) /\ Reads(s) /\ Changes(s) /\ Restores(s)
  BY <1>1 DEF Busy, UndoInv, CallInv
<1>3. PICK q \in Checked(s) \ DOMAIN call[s].stored : \E v \in {console[q], Unread} : call' = [call EXCEPT ![s].stored = call[s].stored @@ (q :> v)]
  BY DEF ReadBack
<1>0. PICK v \in {console[q], Unread} : call' = [call EXCEPT ![s].stored = call[s].stored @@ (q :> v)]
  BY <1>3
<1>4. call[s] \in CallType /\ call[s].stored \in Partial(Readings) /\ DOMAIN Target(s) \subseteq Paths /\ q \in DOMAIN Target(s)
  BY <1>1, <1>2, <1>3, CallHas, TargetIs DEF Shape, Checked
<1>5. q \in Paths /\ v \in Readings /\ q \in DOMAIN call[s].read
  BY <1>1, <1>2, <1>4 DEF UndoTypeOK, Readings, Shape
<1>6. PICK r, c, m : r = call[s].stored @@ (q :> v) /\ c = [call[s] EXCEPT !.stored = r] /\ m = call[s].id
  OBVIOUS
<1>7. /\ r \in Partial(Readings) /\ DOMAIN r = DOMAIN call[s].stored \cup {q}
      /\ (\A p \in DOMAIN call[s].stored : r[p] = call[s].stored[p]) /\ r[q] = v
  <2>1. PICK f : f = call[s].stored
    OBVIOUS
  <2>2. f \in Partial(Readings) /\ q \notin DOMAIN f /\ r = f @@ (q :> v)
    BY <1>3, <1>4, <1>6, <2>1
  <2>3. /\ f @@ (q :> v) \in Partial(Readings) /\ DOMAIN (f @@ (q :> v)) = DOMAIN f \cup {q}
        /\ (\A p \in DOMAIN f : (f @@ (q :> v))[p] = f[p]) /\ (f @@ (q :> v))[q] = v
    BY ONLY <1>5, <2>2, OneMore
  <2>4. QED
    BY <2>1, <2>2, <2>3
<1>8. /\ c \in CallType /\ c.id = m /\ c.undoOf = call[s].undoOf /\ c.plan = call[s].plan /\ c.ok = call[s].ok
      /\ c.read = call[s].read /\ c.stored = r /\ c.stage = call[s].stage
  BY <1>1, <1>4, <1>6, <1>7 DEF CallType
<1>9. call' = [call EXCEPT ![s] = c] /\ call'[s] = c
  BY <1>1, <1>0, <1>6 DEF UndoTypeOK
<1>10. Restorable(m)' = Restorable(m) /\ Sure(m)' = Sure(m) /\ Wrote(s)' = Wrote(s) /\ Target(s)' = Target(s) /\ Pending(s)' = Pending(s)
  BY <1>1, <1>6, <1>8, <1>9 DEF Restorable, Sure, Wrote, Target, Pending
<1>11. Shape(s)'
  BY <1>1, <1>2, <1>5, <1>6, <1>7, <1>8, <1>9, <1>10 DEF Shape
<1>12. Reads(s)'
  BY <1>1, <1>2, <1>6, <1>7, <1>8, <1>9, <1>10 DEF Reads
<1>13. Changes(s)'
  BY <1>1, <1>2, <1>6, <1>8, <1>9, <1>10 DEF Changes
<1>14. Restores(s)'
  <2>1. PICK u : u = call[s].undoOf
    OBVIOUS
  <2>2. Restorable(u)' = Restorable(u)
    BY <1>1 DEF Restorable
  <2>3. \A p : Restored(s, p)' = Restored(s, p)
    BY <1>1, <1>6, <1>8, <1>9, <1>10, <2>1 DEF Restored
  <2>4. QED
    BY <1>1, <1>2, <1>8, <1>9, <1>10, <2>1, <2>2, <2>3 DEF Restores
<1>15. QED
  BY <1>1, <1>2, <1>6, <1>8, <1>9, <1>11, <1>12, <1>13, <1>14, QuietKeeps

(* A call goes on to its next bulk-set, or to its end. *)
LEMMA GoingIs ==
    ASSUME UndoTypeOK, NEW s \in Slots, Busy(s), NEW rest \in Seq(Assignments), NEW k \in BOOLEAN, Going(s, rest, k)
    PROVE  \E c \in CallType :
             /\ call' = [call EXCEPT ![s] = c] /\ call'[s] = c
             /\ c.id = call[s].id /\ c.undoOf = call[s].undoOf /\ c.plan = rest /\ c.ok = k /\ c.read = Nothing /\ c.stored = Nothing
             /\ c.stage \in {"ending", "reading"} /\ (c.stage = "ending" <=> rest = << >>)
<1>1. PICK c : c = [call[s] EXCEPT !.plan = rest, !.ok = k, !.read = Nothing, !.stored = Nothing,
                                   !.stage = IF rest = << >> THEN "ending" ELSE "reading"]
  OBVIOUS
<1>2. call[s] \in CallType /\ Nothing \in Partial(Readings)
  BY CallHas, NothingIs
<1>3. call' = [call EXCEPT ![s] = c] /\ call'[s] = c
  BY <1>1 DEF Going, UndoTypeOK
<1>4. /\ c.id = call[s].id /\ c.undoOf = call[s].undoOf /\ c.plan = rest /\ c.ok = k /\ c.read = Nothing /\ c.stored = Nothing
      /\ c.stage \in {"ending", "reading"} /\ (c.stage = "ending" <=> rest = << >>)
  BY <1>1, <1>2 DEF CallType
<1>5. c \in CallType
  BY <1>1, <1>2 DEF CallType
<1>6. QED
  BY <1>3, <1>4, <1>5

LEMMA OnwardIs ==
    ASSUME UndoTypeOK, NEW s \in Slots, Busy(s), call[s].plan # << >>, NEW ok \in BOOLEAN, Onward(s, ok)
    PROVE  \E rest \in Seq(Assignments), k \in BOOLEAN :
             /\ Going(s, rest, k) /\ (k => call[s].ok /\ ok)
             /\ call[s].undoOf # 0 => rest = Tail(call[s].plan)
<1>1. Tail(call[s].plan) \in Seq(Assignments) /\ call[s].ok \in BOOLEAN /\ << >> \in Seq(Assignments)
  BY TargetIs, CallHas
<1>2. CASE Going(s, Tail(call[s].plan), call[s].ok /\ ok)
  BY <1>1, <1>2
<1>3. CASE call[s].undoOf = 0 /\ Going(s, << >>, FALSE)
  BY <1>1, <1>3
<1>4. QED
  BY <1>2, <1>3 DEF Onward

LEMMA VerifiedKeeps ==
    ASSUME UndoInv, NEW s \in Slots, Verified(s)
    PROVE  UndoInv'
<1>1. /\ UndoTypeOK /\ call[s].stage = "checking" /\ Onward(s, call[s].stored = Target(s))
      /\ UNCHANGED <<console, first, journaled, undoneBatches, nextBatch, others, replaced, disturbed, unsure>>
  BY DEF UndoInv, Verified
<1>2. Busy(s) /\ Shape(s) /\ Reads(s) /\ Changes(s) /\ Restores(s) /\ call[s].plan # << >>
  BY <1>1 DEF Busy, UndoInv, CallInv, Shape
<1>3. PICK ok \in BOOLEAN : ok = (call[s].stored = Target(s))
  OBVIOUS
<1>4. PICK rest \in Seq(Assignments), k \in BOOLEAN :
        Going(s, rest, k) /\ (k => call[s].ok) /\ (call[s].undoOf # 0 => rest = Tail(call[s].plan))
  BY <1>1, <1>2, <1>3, OnwardIs
<1>5. PICK c \in CallType :
        /\ call' = [call EXCEPT ![s] = c] /\ call'[s] = c
        /\ c.id = call[s].id /\ c.undoOf = call[s].undoOf /\ c.plan = rest /\ c.ok = k /\ c.read = Nothing /\ c.stored = Nothing
        /\ c.stage \in {"ending", "reading"} /\ (c.stage = "ending" <=> rest = << >>)
  BY <1>1, <1>2, <1>4, GoingIs
<1>6. PICK m, u : m = call[s].id /\ u = call[s].undoOf
  OBVIOUS
<1>7. Restorable(m)' = Restorable(m) /\ Sure(m)' = Sure(m) /\ Wrote(s)' = Wrote(s) /\ Restorable(u)' = Restorable(u)
  BY <1>1, <1>5, <1>6 DEF Restorable, Sure, Wrote
<1>8. Shape(s)'
  BY <1>1, <1>2, <1>5, <1>6, NothingIs DEF Shape
<1>9. Reads(s)'
  BY <1>1, <1>2, <1>5, <1>6, <1>7, NothingIs DEF Reads
<1>10. Changes(s)'
  BY <1>1, <1>2, <1>5, <1>6, <1>7 DEF Changes, Pending
<1>11. Restores(s)'
  <2> SUFFICES ASSUME u # 0 PROVE Restores(s)'
    BY <1>5, <1>6 DEF Restores
  <2>1. /\ u \in journaled /\ rest = Tail(call[s].plan)
        /\ \A i \in DOMAIN call[s].plan : \A p \in DOMAIN call[s].plan[i] : p \in Restorable(u) /\ call[s].plan[i][p] = first[u][p]
        /\ call[s].ok => /\ \A p \in Restorable(u) : (\E i \in DOMAIN call[s].plan : p \in DOMAIN call[s].plan[i]) \/ Restored(s, p)
                         /\ \A p \in DOMAIN Target(s) : Restored(s, p)
    BY <1>1, <1>2, <1>4, <1>6 DEF Restores
  <2>2. \A p : Restored(s, p)' = Restored(s, p)
    BY <1>1, <1>5, <1>6, <1>7 DEF Restored
  <2>3. ASSUME NEW i \in DOMAIN rest, NEW p \in DOMAIN rest[i] PROVE p \in Restorable(u) /\ rest[i][p] = first[u][p]
    <3>1. i + 1 \in DOMAIN call[s].plan /\ rest[i] = call[s].plan[i + 1]
      BY <1>1, <1>2, <2>1, TargetIs
    <3>2. QED
      BY <2>1, <2>3, <3>1
  <2>4. ASSUME k, NEW p \in Restorable(u) PROVE (\E i \in DOMAIN rest : p \in DOMAIN rest[i]) \/ Restored(s, p)
    <3>1. CASE Restored(s, p)
      BY <3>1
    <3>2. CASE ~Restored(s, p)
      <4>1. PICK i \in DOMAIN call[s].plan : p \in DOMAIN call[s].plan[i]
        BY <1>4, <2>1, <2>4, <3>2
      <4>2. p \notin DOMAIN Target(s)
        BY <1>4, <2>1, <2>4, <3>2
      <4>3. i - 1 \in DOMAIN rest /\ rest[i - 1] = call[s].plan[i]
        BY <1>1, <1>2, <2>1, <4>1, <4>2, TargetIs
      <4>4. QED
        BY <4>1, <4>3
    <3>3. QED
      BY <3>1, <3>2
  <2>5. /\ call'[s].undoOf = u /\ call'[s].plan = rest /\ call'[s].ok = k /\ call'[s].stage # "checking"
        /\ first'[u] = first[u] /\ u \in journaled'
    BY <1>1, <1>5, <1>6, <2>1
  <2>6. QED
    BY <1>7, <2>2, <2>3, <2>4, <2>5 DEF Restores
<1>12. QED
  BY <1>1, <1>2, <1>5, <1>8, <1>9, <1>10, <1>11, QuietKeeps

(* The writes of a call are over.                                           *)
LEMMA EndKeeps ==
    ASSUME UndoInv, NEW s \in Slots, End(s)
    PROVE  UndoInv'
<1>1. /\ UndoTypeOK /\ call[s].stage = "ending" /\ UNCHANGED <<console, first, nextBatch, others, replaced, disturbed, unsure>>
      /\ journaled' = journaled \cup (IF Wrote(s) = {} THEN {} ELSE {call[s].id})
      /\ undoneBatches' = undoneBatches \cup (IF call[s].ok THEN {call[s].undoOf} \ {0} ELSE {})
      /\ call' = [call EXCEPT ![s] = NoCall] /\ nextBatch \in Nat
  BY DEF UndoInv, UndoTypeOK, End
<1>2. Busy(s) /\ Shape(s) /\ Reads(s) /\ Changes(s) /\ Restores(s)
  BY <1>1 DEF Busy, UndoInv, CallInv
<1>3. PICK m : m = call[s].id
  OBVIOUS
<1>4. m \in BatchIds /\ m \in Nat /\ m < nextBatch /\ m \notin journaled /\ m >= 1
  BY <1>1, <1>2, <1>3, CallHas DEF Shape, BatchIds
<1>5. call' \in [Slots -> {NoCall} \cup CallType] /\ call'[s] = NoCall /\ ~Busy(s)' /\ \A t \in Slots \ {s} : call'[t] = call[t]
  BY <1>1 DEF UndoTypeOK, Busy, NoCall
<1>6. \A t \in Slots \ {s} : Busy(t) => call[t].id # m
  BY <1>2, <1>3 DEF UndoInv
<1>7. journaled' \subseteq 1 .. nextBatch - 1 /\ journaled \subseteq journaled' /\ journaled' \subseteq journaled \cup {m}
  <2>1. m \in 1 .. nextBatch - 1 /\ journaled \subseteq 1 .. nextBatch - 1
    BY <1>1, <1>4 DEF UndoTypeOK
  <2>2. QED
    BY <1>1, <1>3, <2>1
<1>8. undoneBatches' \subseteq journaled'
  BY <1>1, <1>2, <1>7 DEF UndoTypeOK, Restores
<1>9. UndoTypeOK'
  BY <1>1, <1>5, <1>6, <1>7, <1>8 DEF UndoTypeOK, Busy
<1>10. Others(s, m)
  BY <1>1, <1>3, <1>4, <1>5, <1>6, <1>7 DEF Others
<1>11. BatchInv(m)'
  <2>1. DOMAIN replaced[m] \cap Sure(m) \subseteq DOMAIN first[m]
    BY <1>1, <1>2, <1>3 DEF Changes, Pending, Sure
  <2>2. BatchInv(m) /\ Restorable(m)' = Restorable(m) /\ Sure(m)' = Sure(m)
    BY <1>1, <1>4 DEF UndoInv, Restorable, Sure
  <2>3. QED
    BY <1>1, <1>4, <2>1, <2>2 DEF BatchInv
<1>12. QED
  BY <1>5, <1>9, <1>10, <1>11, StepKeeps DEF CallInv

(* The console takes the assignment a of the call in slot s, under m.       *)
Takes(a, s, m) ==
    /\ console' \in [Paths -> Values] /\ \A p \in Paths : console'[p] = IF p \in DOMAIN a THEN a[p] ELSE console[p]
    /\ disturbed' \in [BatchIds -> SUBSET Paths] /\ disturbed'[m] = disturbed[m] /\ \A b \in BatchIds : disturbed[b] \subseteq disturbed'[b]
    /\ \A t \in Slots \ {s} : Busy(t) =>
          \A p \in DOMAIN call[t].read \cup Wrote(t) : console'[p] = console[p] \/ p \in disturbed'[call[t].id]
    /\ replaced' \in [BatchIds -> Partial(Values)] /\ \A b \in BatchIds \ {m} : replaced'[b] = replaced[b]
    /\ DOMAIN replaced'[m] = DOMAIN replaced[m] \cup {p \in DOMAIN a : a[p] # console[p]}
    /\ \A p \in DOMAIN replaced[m] : replaced'[m][p] = replaced[m][p]
    /\ \A p \in DOMAIN replaced'[m] \ DOMAIN replaced[m] : replaced'[m][p] = console[p]

LEMMA AppliedTakes ==
    ASSUME UndoInv, NEW s \in Slots, Busy(s), NEW m, m = call[s].id, NEW a \in Partial(Values), Applied(a, s)
    PROVE  Takes(a, s, m)
<1>1. UndoTypeOK /\ m \in BatchIds /\ console \in [Paths -> Values] /\ replaced \in [BatchIds -> Partial(Values)]
  BY CallHas DEF UndoInv, UndoTypeOK
<1>2. DOMAIN a \subseteq Paths /\ \A p \in DOMAIN a : a[p] \in Values
  BY PartialHas
<1>3. PICK r, x : /\ r = replaced[m] /\ x = [p \in {q \in DOMAIN a : a[q] # console[q]} |-> console[p]]
  OBVIOUS
<1>4. /\ console' = a @@ console /\ Disturbs(a, {s}) /\ replaced' = [replaced EXCEPT ![m] = r @@ x]
  BY <1>3 DEF Applied
<1>5. console' \in [Paths -> Values] /\ \A p \in Paths : console'[p] = IF p \in DOMAIN a THEN a[p] ELSE console[p]
  BY <1>1, <1>2, <1>4 DEF @@
<1>6. disturbed' = [b \in BatchIds |->
        disturbed[b] \cup UNION {DOMAIN a \cap (DOMAIN call[t].read \cup Wrote(t)) : t \in {u \in Slots \ {s} : Busy(u) /\ call[u].id = b}}]
  BY <1>4 DEF Disturbs
<1>7. disturbed' \in [BatchIds -> SUBSET Paths] /\ \A b \in BatchIds : disturbed[b] \subseteq disturbed'[b]
  BY <1>1, <1>2, <1>6 DEF UndoTypeOK
<1>8. disturbed'[m] = disturbed[m]
  <2>1. {u \in Slots \ {s} : Busy(u) /\ call[u].id = m} = {}
    BY DEF UndoInv
  <2>2. QED
    BY <1>1, <1>6, <2>1
<1>9. ASSUME NEW t \in Slots \ {s}, Busy(t), NEW p \in DOMAIN call[t].read \cup Wrote(t)
      PROVE  console'[p] = console[p] \/ p \in disturbed'[call[t].id]
  <2>1. call[t].id \in BatchIds /\ p \in Paths
    BY <1>1, <1>9, CallHas, HistoryHas DEF Wrote
  <2>2. CASE p \in DOMAIN a
    BY <1>6, <1>9, <2>1, <2>2
  <2>3. CASE p \notin DOMAIN a
    BY <1>5, <2>1, <2>3
  <2>4. QED
    BY <2>2, <2>3
<1>10. x \in Partial(Values) /\ DOMAIN x = {q \in DOMAIN a : a[q] # console[q]} /\ \A p \in DOMAIN x : x[p] = console[p]
  <2>1. x \in [{q \in DOMAIN a : a[q] # console[q]} -> Values] /\ {q \in DOMAIN a : a[q] # console[q]} \subseteq Paths
    BY <1>1, <1>2, <1>3
  <2>2. \A p \in DOMAIN x : x[p] = console[p]
    BY <1>3
  <2>3. QED
    BY <2>1, <2>2, PartialIs
<1>11. /\ r @@ x \in Partial(Values) /\ DOMAIN (r @@ x) = DOMAIN r \cup DOMAIN x
       /\ (\A p \in DOMAIN r : (r @@ x)[p] = r[p]) /\ \A p \in DOMAIN x : p \notin DOMAIN r => (r @@ x)[p] = x[p]
  <2>1. r \in Partial(Values)
    BY <1>1, <1>3
  <2>2. \A f, g \in Partial(Values) :
          /\ f @@ g \in Partial(Values) /\ DOMAIN (f @@ g) = DOMAIN f \cup DOMAIN g
          /\ (\A p \in DOMAIN f : (f @@ g)[p] = f[p]) /\ \A p \in DOMAIN g : p \notin DOMAIN f => (f @@ g)[p] = g[p]
    BY OverIs
  <2>3. x \in Partial(Values)
    BY <1>10
  <2>4. QED
    BY ONLY <2>1, <2>2, <2>3
<1>12. replaced' \in [BatchIds -> Partial(Values)] /\ replaced'[m] = r @@ x /\ \A b \in BatchIds \ {m} : replaced'[b] = replaced[b]
  BY <1>1, <1>4, <1>11
<1>13. /\ DOMAIN replaced'[m] = DOMAIN replaced[m] \cup {p \in DOMAIN a : a[p] # console[p]}
       /\ \A p \in DOMAIN replaced[m] : replaced'[m][p] = replaced[m][p]
       /\ \A p \in DOMAIN replaced'[m] : p \notin DOMAIN replaced[m] => replaced'[m][p] = console[p]
  <2>1. r = replaced[m] /\ replaced'[m] = r @@ x
    BY <1>3, <1>12
  <2>2. DOMAIN (r @@ x) = DOMAIN r \cup {p \in DOMAIN a : a[p] # console[p]}
    BY <1>10, <1>11
  <2>3. \A p \in DOMAIN (r @@ x) : p \notin DOMAIN r => (r @@ x)[p] = console[p]
    BY <1>10, <1>11
  <2>4. QED
    BY <1>11, <2>1, <2>2, <2>3
<1>14. \A t \in Slots \ {s} : Busy(t) =>
         \A p \in DOMAIN call[t].read \cup Wrote(t) : console'[p] = console[p] \/ p \in disturbed'[call[t].id]
  BY <1>9
<1>15. QED
  BY <1>5, <1>7, <1>8, <1>12, <1>13, <1>14 DEF Takes

LEMMA NoneTakes ==
    ASSUME UndoInv, NEW s \in Slots, Busy(s), NEW m, m = call[s].id, UNCHANGED <<console, disturbed, replaced>>
    PROVE  Takes(Nothing, s, m)
BY NothingIs DEF Takes, UndoInv, UndoTypeOK

(* What follows from it for a call that was about to write.                 *)
LEMMA WriteHas ==
    ASSUME UndoInv, NEW s \in Slots, Busy(s), call[s].stage = "reading", NEW m, m = call[s].id, NEW a, Takes(a, s, m)
    PROVE  /\ \A p \in Restorable(m) \cap DOMAIN replaced'[m] \cap Sure(m) : first[m][p] = replaced'[m][p]
           /\ \A p \in (Restorable(m) \ DOMAIN replaced'[m]) \cap Sure(m) : console'[p] = first[m][p]
           /\ \A p \in (DOMAIN replaced'[m] \cap Sure(m)) \ DOMAIN first[m] :
                  p \in DOMAIN a /\ replaced'[m][p] = console[p] /\ console'[p] = a[p] /\ a[p] # console[p]
           /\ \A p \in DOMAIN call[s].read \ disturbed[m] :
                  call[s].read[p] \in {Unread, console[p]} /\ (p \notin DOMAIN replaced'[m] => console'[p] = console[p])
<1>1. /\ \A p \in Paths : console'[p] = IF p \in DOMAIN a THEN a[p] ELSE console[p]
      /\ DOMAIN replaced'[m] = DOMAIN replaced[m] \cup {p \in DOMAIN a : a[p] # console[p]}
      /\ \A p \in DOMAIN replaced[m] : replaced'[m][p] = replaced[m][p]
      /\ \A p \in DOMAIN replaced'[m] \ DOMAIN replaced[m] : replaced'[m][p] = console[p]
  BY DEF Takes
<1>2. /\ m \in BatchIds /\ DOMAIN call[s].read \subseteq Paths /\ Restorable(m) \subseteq Paths /\ Restorable(m) \subseteq DOMAIN first[m]
      /\ Sure(m) \subseteq Paths
  BY CallHas, HistoryHas DEF UndoInv, Sure
<1>3. BatchInv(m) /\ Reads(s) /\ Changes(s)
  BY <1>2 DEF UndoInv, CallInv
<1>4. \A p \in Restorable(m) \cap DOMAIN replaced[m] \cap Sure(m) : first[m][p] = replaced[m][p]
  BY <1>3 DEF BatchInv
<1>5. \A p \in (Restorable(m) \ DOMAIN replaced[m]) \cap Sure(m) : console[p] = first[m][p]
  BY <1>3 DEF Reads
<1>6. DOMAIN replaced[m] \cap Sure(m) \subseteq DOMAIN first[m]
  BY <1>3 DEF Changes, Pending
<1>7. \A p \in DOMAIN call[s].read \ disturbed[m] : call[s].read[p] \in {Unread, console[p]}
  BY <1>3 DEF Reads
<1>8. \A p \in Paths : p \notin DOMAIN replaced'[m] => console'[p] = console[p]
  BY <1>1
<1>9. ASSUME NEW p \in Restorable(m) \cap DOMAIN replaced'[m] \cap Sure(m) PROVE first[m][p] = replaced'[m][p]
  BY <1>1, <1>4, <1>5, <1>9
<1>10. ASSUME NEW p \in (Restorable(m) \ DOMAIN replaced'[m]) \cap Sure(m) PROVE console'[p] = first[m][p]
  BY <1>1, <1>2, <1>5, <1>8, <1>10
<1>11. ASSUME NEW p \in (DOMAIN replaced'[m] \cap Sure(m)) \ DOMAIN first[m]
       PROVE  p \in DOMAIN a /\ replaced'[m][p] = console[p] /\ console'[p] = a[p] /\ a[p] # console[p]
  BY <1>1, <1>2, <1>6, <1>11
<1>12. QED
  BY <1>2, <1>7, <1>8, <1>9, <1>10, <1>11

(* A path an undo has put back is not changed by what its plan still holds. *)
LEMMA WriteRestores ==
    ASSUME UndoInv, NEW s \in Slots, Busy(s), NEW m, m = call[s].id, NEW a, Takes(a, s, m), NEW u, u = call[s].undoOf, u # 0,
           call[s].plan # << >>, \A p \in DOMAIN a : p \in DOMAIN Target(s) /\ a[p] = Target(s)[p]
    PROVE  \A p : Restored(s, p) => p \in Wrote(s) /\ (p \in disturbed[m] \/ console'[p] = first[u][p])
<1> SUFFICES ASSUME NEW p, Restored(s, p) PROVE p \in Wrote(s) /\ (p \in disturbed[m] \/ console'[p] = first[u][p])
  OBVIOUS
<1>1. UndoTypeOK /\ m \in BatchIds /\ p \in Wrote(s) /\ p \in Paths /\ (p \in disturbed[m] \/ console[p] = first[u][p])
  BY CallHas, HistoryHas DEF UndoInv, Restored, Wrote
<1>2. console'[p] = IF p \in DOMAIN a THEN a[p] ELSE console[p]
  BY <1>1 DEF Takes
<1>3. ASSUME p \in DOMAIN a PROVE a[p] = first[u][p]
  <2>1. 1 \in DOMAIN call[s].plan /\ Target(s) = call[s].plan[1]
    BY <1>1, TargetIs
  <2>2. QED
    BY <1>3, <2>1 DEF UndoInv, CallInv, Restores
<1>4. QED
  BY <1>1, <1>2, <1>3

(* A call moves, and what is told of its batch with it. *)
LEMMA MoveKeeps ==
    ASSUME UndoInv, NEW s \in Slots, Busy(s), NEW m, m = call[s].id, NEW c \in CallType, c.id = m,
           call' = [call EXCEPT ![s] = c], UNCHANGED <<journaled, undoneBatches, nextBatch, others>>,
           NEW a, Takes(a, s, m) \/ UNCHANGED <<console, disturbed, replaced>>,
           first' \in [BatchIds -> Partial(Readings)], unsure' \in [BatchIds -> SUBSET Paths],
           \A b \in BatchIds \ {m} : first'[b] = first[b] /\ unsure'[b] = unsure[b],
           Shape(s)', Reads(s)', Changes(s)', Restores(s)',
           \A p \in Restorable(m)' \cap DOMAIN replaced'[m] \cap Sure(m)' : first'[m][p] = replaced'[m][p]
    PROVE  UndoInv'
<1>1. UndoTypeOK /\ m \in BatchIds /\ m \notin journaled /\ nextBatch \in Nat /\ m < nextBatch /\ m \in Nat
  BY CallHas DEF UndoInv, UndoTypeOK, CallInv, Shape
<1>2. call' \in [Slots -> {NoCall} \cup CallType] /\ call'[s] = c /\ \A t \in Slots \ {s} : call'[t] = call[t]
  BY <1>1 DEF UndoTypeOK
<1>3. /\ console' \in [Paths -> Values] /\ disturbed' \in [BatchIds -> SUBSET Paths] /\ replaced' \in [BatchIds -> Partial(Values)]
      /\ \A b \in BatchIds \ {m} : replaced'[b] = replaced[b] /\ disturbed[b] \subseteq disturbed'[b]
      /\ \A t \in Slots \ {s} : Busy(t) =>
            \A p \in DOMAIN call[t].read \cup Wrote(t) : console'[p] = console[p] \/ p \in disturbed'[call[t].id]
  BY <1>1 DEF Takes, UndoTypeOK
<1>4. UndoTypeOK'
  BY <1>1, <1>2, <1>3 DEF UndoTypeOK, Busy
<1>5. Others(s, m)
  BY <1>1, <1>2, <1>3 DEF Others, UndoInv
<1>6. c.stage # "idle"
  BY DEF CallType
<1>7. OpenBatch(m)'
  BY <1>2, <1>6 DEF OpenBatch, Busy
<1>8. ~(m >= nextBatch')
  BY <1>1
<1>9. BatchInv(m)'
  BY <1>7, <1>8 DEF BatchInv
<1>10. QED
  BY <1>4, <1>5, <1>9, StepKeeps DEF CallInv

LEMMA RecordIs ==
    ASSUME UndoTypeOK, NEW s \in Slots, Busy(s), NEW m, m = call[s].id, NEW entries \in Partial(Readings), Record(s, entries)
    PROVE  /\ first' \in [BatchIds -> Partial(Readings)] /\ (\A b \in BatchIds \ {m} : first'[b] = first[b])
           /\ DOMAIN first'[m] = DOMAIN first[m] \cup DOMAIN entries
           /\ \A p \in DOMAIN first[m] : first'[m][p] = first[m][p]
           /\ \A p \in DOMAIN entries : p \notin DOMAIN first[m] => first'[m][p] = entries[p]
<1>1. m \in BatchIds /\ first[m] \in Partial(Readings) /\ first \in [BatchIds -> Partial(Readings)]
  BY CallHas, HistoryHas DEF UndoTypeOK
<1>2. PICK f : f = first[m]
  OBVIOUS
<1>3. first' = [first EXCEPT ![m] = f @@ entries]
  BY <1>2 DEF Record
<1>4. /\ f @@ entries \in Partial(Readings) /\ DOMAIN (f @@ entries) = DOMAIN f \cup DOMAIN entries
      /\ (\A p \in DOMAIN f : (f @@ entries)[p] = f[p]) /\ \A p \in DOMAIN entries : p \notin DOMAIN f => (f @@ entries)[p] = entries[p]
  <2>1. f \in Partial(Readings)
    BY <1>1, <1>2
  <2>2. \A g, h \in Partial(Readings) :
          /\ g @@ h \in Partial(Readings) /\ DOMAIN (g @@ h) = DOMAIN g \cup DOMAIN h
          /\ (\A p \in DOMAIN g : (g @@ h)[p] = g[p]) /\ \A p \in DOMAIN h : p \notin DOMAIN g => (g @@ h)[p] = h[p]
    BY OverIs
  <2>3. QED
    BY ONLY <2>1, <2>2, entries \in Partial(Readings)
<1>5. first' \in [BatchIds -> Partial(Readings)] /\ first'[m] = f @@ entries /\ \A b \in BatchIds \ {m} : first'[b] = first[b]
  BY <1>1, <1>3, <1>4
<1>6. QED
  BY <1>2, <1>4, <1>5

LEMMA AckedKeeps ==
    ASSUME UndoInv, NEW s \in Slots, Acked(s)
    PROVE  UndoInv'
<1>1. /\ UndoTypeOK /\ call[s].stage = "reading" /\ DOMAIN call[s].read = DOMAIN Target(s) /\ Applied(Target(s), s)
      /\ Record(s, call[s].read) /\ call' = [call EXCEPT ![s].stage = "checking"]
      /\ UNCHANGED <<journaled, undoneBatches, nextBatch, others, unsure>>
  BY DEF UndoInv, Acked, ReadyToSend
<1>2. Busy(s) /\ Shape(s) /\ Reads(s) /\ Changes(s) /\ Restores(s) /\ call[s].plan # << >>
  BY <1>1 DEF Busy, UndoInv, CallInv, Shape
<1>3. PICK m, u, a, c : m = call[s].id /\ u = call[s].undoOf /\ a = Target(s) /\ c = [call[s] EXCEPT !.stage = "checking"]
  OBVIOUS
<1>4. call[s] \in CallType /\ call[s].read \in Partial(Readings) /\ m \in BatchIds /\ m \notin journaled /\ a \in Partial(Values) /\ DOMAIN a \subseteq Paths
      /\ u \in {0} \cup BatchIds
  BY <1>1, <1>2, <1>3, CallHas, TargetIs
<1>5. /\ c \in CallType /\ c.id = m /\ c.undoOf = u /\ c.plan = call[s].plan /\ c.ok = call[s].ok
      /\ c.read = call[s].read /\ c.stored = call[s].stored /\ c.stage = "checking"
  BY <1>3, <1>4 DEF CallType
<1>6. call' = [call EXCEPT ![s] = c] /\ call'[s] = c
  BY <1>1, <1>3 DEF UndoTypeOK
<1>7. Takes(a, s, m)
  BY <1>1, <1>2, <1>3, <1>4, AppliedTakes
<1>8. /\ first' \in [BatchIds -> Partial(Readings)] /\ (\A b \in BatchIds \ {m} : first'[b] = first[b])
      /\ DOMAIN first'[m] = DOMAIN first[m] \cup DOMAIN a
      /\ \A p \in DOMAIN first[m] : first'[m][p] = first[m][p]
      /\ \A p \in DOMAIN a : p \notin DOMAIN first[m] => first'[m][p] = call[s].read[p]
  <2>1. PICK r : r = call[s].read
    OBVIOUS
  <2>2. UndoTypeOK /\ Busy(s) /\ m = call[s].id /\ r \in Partial(Readings) /\ Record(s, r) /\ DOMAIN r = DOMAIN a
    BY <1>1, <1>2, <1>3, <1>4, <2>1
  <2>3. \A e \in Partial(Readings) : Record(s, e) =>
          /\ first' \in [BatchIds -> Partial(Readings)] /\ (\A b \in BatchIds \ {m} : first'[b] = first[b])
          /\ DOMAIN first'[m] = DOMAIN first[m] \cup DOMAIN e
          /\ \A p \in DOMAIN first[m] : first'[m][p] = first[m][p]
          /\ \A p \in DOMAIN e : p \notin DOMAIN first[m] => first'[m][p] = e[p]
    <3> TAKE e \in Partial(Readings)
    <3> HAVE Record(s, e)
    <3>1. QED
      BY <2>2, RecordIs
  <2>4. QED
    BY <2>1, <2>2, <2>3
<1>9. /\ \A p \in Restorable(m) \cap DOMAIN replaced'[m] \cap Sure(m) : first[m][p] = replaced'[m][p]
      /\ \A p \in (Restorable(m) \ DOMAIN replaced'[m]) \cap Sure(m) : console'[p] = first[m][p]
      /\ \A p \in (DOMAIN replaced'[m] \cap Sure(m)) \ DOMAIN first[m] :
             p \in DOMAIN a /\ replaced'[m][p] = console[p] /\ console'[p] = a[p] /\ a[p] # console[p]
      /\ \A p \in DOMAIN call[s].read \ disturbed[m] :
             call[s].read[p] \in {Unread, console[p]} /\ (p \notin DOMAIN replaced'[m] => console'[p] = console[p])
  <2>1. Busy(s) /\ call[s].stage = "reading" /\ m = call[s].id /\ Takes(a, s, m)
    BY <1>1, <1>2, <1>3, <1>7
  <2>2. QED
    BY <2>1, WriteHas
<1>10. /\ call'[s].id = m /\ disturbed'[m] = disturbed[m] /\ Sure(m)' = Sure(m) /\ Target(s)' = a
       /\ \A p \in Paths : console'[p] = IF p \in DOMAIN a THEN a[p] ELSE console[p]
  BY <1>1, <1>3, <1>5, <1>6, <1>7 DEF Takes, Sure, Target
<1>11. ASSUME NEW p \in Restorable(m)', p \in Sure(m)
       PROVE  p \in Restorable(m) \/ (p \in DOMAIN a /\ p \notin DOMAIN first[m] /\ call[s].read[p] = console[p] /\ first'[m][p] = console[p] /\ p \notin disturbed[m])
  <2>1. p \in DOMAIN first'[m] /\ first'[m][p] # Unread /\ p \in Paths /\ p \notin disturbed[m]
    BY <1>11 DEF Restorable, Sure
  <2>2. CASE p \in DOMAIN first[m]
    BY <1>8, <2>1, <2>2 DEF Restorable
  <2>3. CASE p \notin DOMAIN first[m]
    <3>1. p \in DOMAIN a /\ first'[m][p] = call[s].read[p]
      BY <1>8, <2>1, <2>3
    <3>2. p \in DOMAIN call[s].read
      BY <1>1, <1>3, <3>1
    <3>3. call[s].read[p] = console[p]
      BY <1>9, <2>1, <3>1, <3>2
    <3>4. QED
      BY <2>1, <2>3, <3>1, <3>3
  <2>4. QED
    BY <2>2, <2>3
<1>12. Restorable(m) \subseteq DOMAIN first[m]
  BY DEF Restorable
<1>13. Shape(s)'
  BY <1>1, <1>2, <1>3, <1>5, <1>6, <1>10 DEF Shape
<1>14. Reads(s)'
  <2>1. ASSUME NEW p \in (Restorable(m)' \ DOMAIN replaced'[m]) \cap Sure(m) PROVE console'[p] = first'[m][p]
    BY <1>1, <1>3, <1>8, <1>9, <1>11, <1>12, <2>1
  <2>2. QED
    BY <1>5, <1>6, <1>10, <2>1 DEF Reads
<1>15. Changes(s)'
  <2>1. (DOMAIN replaced'[m] \cap Sure(m)) \subseteq DOMAIN first'[m]
    BY <1>8, <1>9
  <2>2. QED
    BY <1>10, <2>1 DEF Changes
<1>16. \A p \in Restorable(m)' \cap DOMAIN replaced'[m] \cap Sure(m)' : first'[m][p] = replaced'[m][p]
  <2> SUFFICES ASSUME NEW p \in Restorable(m)' \cap DOMAIN replaced'[m] \cap Sure(m) PROVE first'[m][p] = replaced'[m][p]
    BY <1>10
  <2>1. QED
    BY <1>8, <1>9, <1>11, <1>12
<1>17. Restores(s)'
  <2> SUFFICES ASSUME u # 0 PROVE Restores(s)'
    BY <1>5, <1>6 DEF Restores
  <2>1. /\ u \in journaled /\ u # m
        /\ \A i \in DOMAIN call[s].plan : \A p \in DOMAIN call[s].plan[i] : p \in Restorable(u) /\ call[s].plan[i][p] = first[u][p]
        /\ call[s].ok => \A p \in Restorable(u) : (\E i \in DOMAIN call[s].plan : p \in DOMAIN call[s].plan[i]) \/ Restored(s, p)
    BY <1>2, <1>3, <1>4 DEF Restores
  <2>2. first'[u] = first[u] /\ Restorable(u)' = Restorable(u) /\ u \in journaled'
    BY <1>1, <1>4, <1>8, <2>1 DEF Restorable
  <2>3. \A p : Restored(s, p) => p \in Wrote(s) /\ (p \in disturbed[m] \/ console'[p] = first[u][p])
    BY <1>2, <1>3, <1>7, WriteRestores
  <2>4. \A p : Restored(s, p) => Restored(s, p)'
    BY <1>3, <1>5, <1>6, <1>8, <1>10, <2>2, <2>3 DEF Restored, Wrote
  <2>5. ASSUME NEW p \in DOMAIN a PROVE Restored(s, p)'
    <3>1. a[p] = first[u][p]
      BY <1>1, <1>2, <1>3, <2>1, TargetIs
    <3>2. console'[p] = first'[u][p] /\ p \in Wrote(s)'
      BY <1>4, <1>5, <1>6, <1>8, <1>10, <2>2, <3>1 DEF Wrote
    <3>3. QED
      BY <1>5, <1>6, <3>2 DEF Restored
  <2>6. QED
    BY <1>5, <1>6, <1>10, <2>1, <2>2, <2>4, <2>5 DEF Restores
<1>18. unsure' \in [BatchIds -> SUBSET Paths] /\ \A b \in BatchIds \ {m} : first'[b] = first[b] /\ unsure'[b] = unsure[b]
  BY <1>1, <1>8 DEF UndoTypeOK
<1>19. /\ UndoInv /\ Busy(s) /\ m = call[s].id /\ UNCHANGED <<journaled, undoneBatches, nextBatch, others>>
       /\ (Takes(a, s, m) \/ UNCHANGED <<console, disturbed, replaced>>) /\ first' \in [BatchIds -> Partial(Readings)]
  BY <1>1, <1>2, <1>3, <1>7, <1>8
<1>20. \E to \in CallType : to.id = m /\ call' = [call EXCEPT ![s] = to]
  BY <1>5, <1>6
<1>21. QED
  BY <1>13, <1>14, <1>15, <1>16, <1>17, <1>18, <1>19, <1>20, MoveKeeps

LEMMA RejectedKeeps ==
    ASSUME UndoInv, NEW s \in Slots, Rejected(s)
    PROVE  UndoInv'
<1>1. /\ UndoTypeOK /\ call[s].stage = "reading" /\ DOMAIN call[s].read = DOMAIN Target(s)
      /\ call' = [call EXCEPT ![s].stage = "rereading"]
      /\ UNCHANGED <<first, journaled, undoneBatches, nextBatch, others, unsure>>
  BY DEF UndoInv, Rejected, ReadyToSend
<1>2. Busy(s) /\ Shape(s) /\ Reads(s) /\ Changes(s) /\ Restores(s) /\ call[s].plan # << >>
  BY <1>1 DEF Busy, UndoInv, CallInv, Shape
<1>3. PICK D \in SUBSET DOMAIN Target(s) : Applied([p \in D |-> Target(s)[p]], s)
  BY DEF Rejected
<1>4. PICK m, u, a, w, c : /\ m = call[s].id /\ u = call[s].undoOf /\ a = [p \in D |-> Target(s)[p]] /\ w = Target(s)
                           /\ c = [call[s] EXCEPT !.stage = "rereading"]
  OBVIOUS
<1>5. call[s] \in CallType /\ m \in BatchIds /\ m \notin journaled /\ u \in {0} \cup BatchIds /\ D \subseteq Paths /\ \A p \in D : w[p] \in Values
  BY <1>1, <1>2, <1>4, CallHas, TargetIs
<1>6. a \in Partial(Values) /\ DOMAIN a = D /\ D \subseteq DOMAIN w /\ \A p \in D : a[p] = w[p]
  <2>1. a \in [D -> Values] /\ D \subseteq DOMAIN w /\ \A p \in D : a[p] = w[p]
    BY <1>4, <1>5
  <2>2. QED
    BY <1>5, <2>1, PartialIs
<1>7. /\ c \in CallType /\ c.id = m /\ c.undoOf = u /\ c.plan = call[s].plan /\ c.ok = call[s].ok
      /\ c.read = call[s].read /\ c.stored = call[s].stored /\ c.stage = "rereading"
  BY <1>4, <1>5 DEF CallType
<1>8. call' = [call EXCEPT ![s] = c] /\ call'[s] = c
  BY <1>1, <1>4 DEF UndoTypeOK
<1>9. Takes(a, s, m)
  BY <1>2, <1>3, <1>4, <1>6, AppliedTakes
<1>10. /\ \A p \in Restorable(m) \cap DOMAIN replaced'[m] \cap Sure(m) : first[m][p] = replaced'[m][p]
       /\ \A p \in (Restorable(m) \ DOMAIN replaced'[m]) \cap Sure(m) : console'[p] = first[m][p]
       /\ \A p \in (DOMAIN replaced'[m] \cap Sure(m)) \ DOMAIN first[m] :
              p \in DOMAIN a /\ replaced'[m][p] = console[p] /\ console'[p] = a[p] /\ a[p] # console[p]
       /\ \A p \in DOMAIN call[s].read \ disturbed[m] :
              call[s].read[p] \in {Unread, console[p]} /\ (p \notin DOMAIN replaced'[m] => console'[p] = console[p])
  <2>1. Busy(s) /\ call[s].stage = "reading" /\ m = call[s].id /\ Takes(a, s, m)
    BY <1>1, <1>2, <1>4, <1>9
  <2>2. QED
    BY <2>1, WriteHas
<1>11. /\ call'[s].id = m /\ disturbed'[m] = disturbed[m] /\ Sure(m)' = Sure(m) /\ Target(s)' = w /\ Restorable(m)' = Restorable(m)
       /\ first'[m] = first[m] /\ Wrote(s)' = Wrote(s) /\ Pending(s)' = DOMAIN w /\ Sure(m) \cap disturbed[m] = {}
  BY <1>1, <1>4, <1>7, <1>8, <1>9 DEF Takes, Sure, Target, Restorable, Wrote, Pending
<1>12. Shape(s)'
  BY <1>1, <1>2, <1>4, <1>7, <1>8, <1>11 DEF Shape
<1>13. Reads(s)'
  <2>1. DOMAIN call[s].stored = {}
    BY <1>1, <1>2 DEF Shape
  <2>2. ASSUME NEW p \in DOMAIN call[s].read \ disturbed[m] PROVE call[s].read[p] \in {Unread, console'[p]} \/ p \in DOMAIN replaced'[m]
    BY <1>10, <2>2
  <2>3. QED
    BY <1>7, <1>8, <1>10, <1>11, <2>1, <2>2 DEF Reads
<1>14. Changes(s)'
  <2>1. ASSUME NEW p \in (DOMAIN replaced'[m] \cap Sure(m)) \ DOMAIN first[m]
        PROVE  p \in DOMAIN w /\ console'[p] = w[p] /\ call[s].read[p] \in {Unread, replaced'[m][p]} /\ replaced'[m][p] # w[p]
    <3>1. p \in D /\ replaced'[m][p] = console[p] /\ console'[p] = w[p] /\ w[p] # console[p] /\ p \in DOMAIN w
      BY <1>6, <1>10, <2>1
    <3>2. p \in DOMAIN call[s].read \ disturbed[m]
      BY <1>1, <1>4, <1>11, <2>1, <3>1
    <3>3. QED
      BY <1>10, <3>1, <3>2
  <2>2. QED
    BY <1>7, <1>8, <1>11, <2>1 DEF Changes
<1>15. Restores(s)'
  <2> SUFFICES ASSUME u # 0 PROVE Restores(s)'
    BY <1>7, <1>8 DEF Restores
  <2>1. /\ u \in journaled
        /\ \A i \in DOMAIN call[s].plan : \A p \in DOMAIN call[s].plan[i] : p \in Restorable(u) /\ call[s].plan[i][p] = first[u][p]
        /\ call[s].ok => \A p \in Restorable(u) : (\E i \in DOMAIN call[s].plan : p \in DOMAIN call[s].plan[i]) \/ Restored(s, p)
    BY <1>2, <1>4 DEF Restores
  <2>2. first'[u] = first[u] /\ Restorable(u)' = Restorable(u) /\ u \in journaled'
    BY <1>1, <2>1 DEF Restorable
  <2>3. \A p : Restored(s, p) => p \in Wrote(s) /\ (p \in disturbed[m] \/ console'[p] = first[u][p])
    BY <1>2, <1>4, <1>6, <1>9, WriteRestores
  <2>4. \A p : Restored(s, p) => Restored(s, p)'
    BY <1>7, <1>8, <1>11, <2>2, <2>3 DEF Restored
  <2>5. QED
    BY <1>7, <1>8, <2>1, <2>2, <2>4 DEF Restores
<1>16. /\ first' \in [BatchIds -> Partial(Readings)] /\ unsure' \in [BatchIds -> SUBSET Paths]
       /\ \A b \in BatchIds \ {m} : first'[b] = first[b] /\ unsure'[b] = unsure[b]
  BY <1>1 DEF UndoTypeOK
<1>17. \A p \in Restorable(m)' \cap DOMAIN replaced'[m] \cap Sure(m)' : first'[m][p] = replaced'[m][p]
  BY <1>10, <1>11
<1>18. QED
  <2>1. /\ Busy(s) /\ m = call[s].id /\ c \in CallType /\ c.id = m /\ call' = [call EXCEPT ![s] = c]
        /\ UNCHANGED <<journaled, undoneBatches, nextBatch, others>> /\ Takes(a, s, m)
    BY <1>1, <1>2, <1>4, <1>7, <1>8, <1>9
  <2>2. QED
    BY <1>12, <1>13, <1>14, <1>15, <1>16, <1>17, <2>1, MoveKeeps

LEMMA UnansweredKeeps ==
    ASSUME UndoInv, NEW s \in Slots, Unanswered(s)
    PROVE  UndoInv'
<1>1. /\ UndoTypeOK /\ call[s].stage = "reading" /\ DOMAIN call[s].read = DOMAIN Target(s) /\ Going(s, << >>, FALSE)
      /\ Applied(Target(s), s) \/ UNCHANGED <<console, disturbed, replaced>>
      /\ unsure' = [unsure EXCEPT ![call[s].id] = unsure[call[s].id] \cup DOMAIN Target(s)]
      /\ UNCHANGED <<first, journaled, undoneBatches, nextBatch, others>>
  BY DEF UndoInv, Unanswered, ReadyToSend
<1>2. Busy(s) /\ Shape(s) /\ Reads(s) /\ Changes(s) /\ Restores(s) /\ call[s].plan # << >>
  BY <1>1 DEF Busy, UndoInv, CallInv, Shape
<1>3. PICK m, u, w : m = call[s].id /\ u = call[s].undoOf /\ w = Target(s)
  OBVIOUS
<1>4. m \in BatchIds /\ w \in Partial(Values) /\ DOMAIN w \subseteq Paths /\ << >> \in Seq(Assignments)
  BY <1>1, <1>2, <1>3, CallHas, TargetIs
<1>5. PICK c \in CallType :
        /\ call' = [call EXCEPT ![s] = c] /\ call'[s] = c
        /\ c.id = call[s].id /\ c.undoOf = call[s].undoOf /\ c.plan = << >> /\ c.ok = FALSE /\ c.read = Nothing /\ c.stored = Nothing
        /\ c.stage \in {"ending", "reading"} /\ c.stage = "ending"
  <2>1. PICK rest \in Seq(Assignments), k \in BOOLEAN : rest = << >> /\ k = FALSE
    BY <1>4
  <2>2. UndoTypeOK /\ Busy(s) /\ Going(s, rest, k)
    BY <1>1, <1>2, <2>1
  <2>3. PICK c \in CallType :
        /\ call' = [call EXCEPT ![s] = c] /\ call'[s] = c
        /\ c.id = call[s].id /\ c.undoOf = call[s].undoOf /\ c.plan = rest /\ c.ok = k /\ c.read = Nothing /\ c.stored = Nothing
        /\ c.stage \in {"ending", "reading"} /\ (c.stage = "ending" <=> rest = << >>)
    BY <2>2, GoingIs
  <2>4. QED
    BY <2>1, <2>3
<1>6. PICK a \in {w, Nothing} : Takes(a, s, m)
  <2>1. CASE Applied(w, s)
    BY <1>2, <1>3, <1>4, <2>1, AppliedTakes
  <2>2. CASE UNCHANGED <<console, disturbed, replaced>>
    BY <1>2, <1>3, <2>2, NoneTakes
  <2>3. QED
    BY <1>1, <1>3, <2>1, <2>2
<1>7. DOMAIN a \subseteq DOMAIN w
  BY <1>6, NothingIs
<1>8. /\ \A p \in Restorable(m) \cap DOMAIN replaced'[m] \cap Sure(m) : first[m][p] = replaced'[m][p]
      /\ \A p \in (Restorable(m) \ DOMAIN replaced'[m]) \cap Sure(m) : console'[p] = first[m][p]
      /\ \A p \in (DOMAIN replaced'[m] \cap Sure(m)) \ DOMAIN first[m] : p \in DOMAIN a
  <2>1. Busy(s) /\ call[s].stage = "reading" /\ m = call[s].id /\ Takes(a, s, m)
    BY <1>1, <1>2, <1>3, <1>6
  <2>2. QED
    BY <2>1, WriteHas
<1>9. unsure' \in [BatchIds -> SUBSET Paths] /\ unsure'[m] = unsure[m] \cup DOMAIN w /\ \A b \in BatchIds \ {m} : unsure'[b] = unsure[b]
  BY <1>1, <1>3, <1>4 DEF UndoTypeOK
<1>10. disturbed'[m] = disturbed[m] /\ first'[m] = first[m] /\ Restorable(m)' = Restorable(m)
  BY <1>1, <1>6 DEF Takes, Restorable
<1>11. Sure(m)' \subseteq Sure(m) /\ Sure(m)' \cap DOMAIN w = {}
  BY <1>9, <1>10 DEF Sure
<1>12. Shape(s)'
  BY <1>1, <1>2, <1>3, <1>5, NothingIs DEF Shape
<1>13. Reads(s)'
  BY <1>3, <1>5, <1>8, <1>10, <1>11 DEF Reads
<1>14. Changes(s)'
  <2>1. (DOMAIN replaced'[m] \cap Sure(m)') \subseteq DOMAIN first[m]
    BY <1>7, <1>8, <1>11
  <2>2. QED
    BY <1>3, <1>5, <1>10, <2>1 DEF Changes
<1>15. Restores(s)'
  BY <1>1, <1>2, <1>3, <1>5 DEF Restores
<1>16. first' \in [BatchIds -> Partial(Readings)] /\ \A b \in BatchIds \ {m} : first'[b] = first[b] /\ unsure'[b] = unsure[b]
  BY <1>1, <1>9 DEF UndoTypeOK
<1>17. \A p \in Restorable(m)' \cap DOMAIN replaced'[m] \cap Sure(m)' : first'[m][p] = replaced'[m][p]
  BY <1>8, <1>10, <1>11
<1>18. QED
  <2>1. /\ Busy(s) /\ m = call[s].id /\ c \in CallType /\ c.id = m /\ call' = [call EXCEPT ![s] = c]
        /\ UNCHANGED <<journaled, undoneBatches, nextBatch, others>> /\ Takes(a, s, m)
        /\ unsure' \in [BatchIds -> SUBSET Paths]
    BY <1>1, <1>2, <1>3, <1>5, <1>6, <1>9
  <2>2. QED
    BY <1>12, <1>13, <1>14, <1>15, <1>16, <1>17, <2>1, MoveKeeps

LEMMA RecordRejectedKeeps ==
    ASSUME UndoInv, NEW s \in Slots, RecordRejectedWrite(s)
    PROVE  UndoInv'
<1> DEFINE changed == {p \in Checked(s) : call[s].stored[p] \notin {Unread, call[s].read[p]}}
           blind == {p \in DOMAIN Target(s) : p \notin Checked(s) \/ call[s].stored[p] = Unread}
<1>1. /\ UndoTypeOK /\ call[s].stage = "rereading" /\ DOMAIN call[s].stored = Checked(s) /\ Onward(s, FALSE)
      /\ Record(s, [p \in changed |-> call[s].read[p]])
      /\ unsure' = [unsure EXCEPT ![call[s].id] = unsure[call[s].id] \cup blind]
      /\ UNCHANGED <<console, journaled, undoneBatches, nextBatch, others, replaced, disturbed>>
  BY DEF UndoInv, RecordRejectedWrite
<1>2. Busy(s) /\ Shape(s) /\ Reads(s) /\ Changes(s) /\ Restores(s) /\ call[s].plan # << >>
  BY <1>1 DEF Busy, UndoInv, CallInv, Shape
<1>3. PICK m, u, w, read, stored : /\ m = call[s].id /\ u = call[s].undoOf /\ w = Target(s) /\ read = call[s].read /\ stored = call[s].stored
  OBVIOUS
<1>4. /\ m \in BatchIds /\ DOMAIN w \subseteq Paths /\ DOMAIN read = DOMAIN w /\ \A p \in DOMAIN read : read[p] \in Readings
  BY <1>1, <1>2, <1>3, CallHas, TargetIs DEF Shape
<1>5. /\ Checked(s) = {p \in DOMAIN w : read[p] # Unread} /\ Checked(s) \subseteq DOMAIN w
      /\ changed = {p \in Checked(s) : stored[p] \notin {Unread, read[p]}} /\ blind \subseteq DOMAIN w
      /\ blind = {p \in DOMAIN w : p \notin Checked(s) \/ stored[p] = Unread}
  BY <1>1, <1>3 DEF Checked
<1>6. PICK x : x = [p \in changed |-> read[p]]
  OBVIOUS
<1>7. x \in Partial(Readings) /\ DOMAIN x = changed /\ (\A p \in changed : x[p] = read[p]) /\ Record(s, x)
  <2>1. x \in [changed -> Readings] /\ changed \subseteq Paths
    BY <1>4, <1>5, <1>6
  <2>2. x \in Partial(Readings) /\ DOMAIN x = changed
    BY <2>1, PartialIs
  <2>3. Record(s, x)
    BY <1>1, <1>3, <1>6
  <2>4. QED
    BY <1>6, <2>2, <2>3
<1>8. PICK rest \in Seq(Assignments), k \in BOOLEAN : Going(s, rest, k) /\ ~k /\ (u # 0 => rest = Tail(call[s].plan))
  <2>1. PICK ok \in BOOLEAN : ok = FALSE
    OBVIOUS
  <2>2. UndoTypeOK /\ Busy(s) /\ call[s].plan # << >> /\ Onward(s, ok)
    BY <1>1, <1>2, <2>1
  <2>3. QED
    BY <1>3, <2>1, <2>2, OnwardIs
<1>9. PICK c \in CallType :
        /\ call' = [call EXCEPT ![s] = c] /\ call'[s] = c
        /\ c.id = call[s].id /\ c.undoOf = call[s].undoOf /\ c.plan = rest /\ c.ok = k /\ c.read = Nothing /\ c.stored = Nothing
        /\ c.stage \in {"ending", "reading"} /\ (c.stage = "ending" <=> rest = << >>)
  BY <1>1, <1>2, <1>8, GoingIs
<1>10. /\ first' \in [BatchIds -> Partial(Readings)] /\ (\A b \in BatchIds \ {m} : first'[b] = first[b])
       /\ DOMAIN first'[m] = DOMAIN first[m] \cup changed
       /\ \A p \in DOMAIN first[m] : first'[m][p] = first[m][p]
       /\ \A p \in changed : p \notin DOMAIN first[m] => first'[m][p] = read[p]
  <2>1. UndoTypeOK /\ Busy(s) /\ m = call[s].id /\ x \in Partial(Readings) /\ Record(s, x)
    BY <1>1, <1>2, <1>3, <1>7
  <2> HIDE DEF changed, blind
  <2>2. /\ first' \in [BatchIds -> Partial(Readings)] /\ (\A b \in BatchIds \ {m} : first'[b] = first[b])
        /\ DOMAIN first'[m] = DOMAIN first[m] \cup DOMAIN x
        /\ \A p \in DOMAIN first[m] : first'[m][p] = first[m][p]
        /\ \A p \in DOMAIN x : p \notin DOMAIN first[m] => first'[m][p] = x[p]
    <3>1. UndoTypeOK /\ Busy(s) /\ m = call[s].id
      BY <2>1
    <3>2. x \in Partial(Readings) /\ Record(s, x)
      BY <2>1
    <3>3. \A e \in Partial(Readings) : Record(s, e) =>
            /\ first' \in [BatchIds -> Partial(Readings)] /\ (\A b \in BatchIds \ {m} : first'[b] = first[b])
            /\ DOMAIN first'[m] = DOMAIN first[m] \cup DOMAIN e
            /\ \A p \in DOMAIN first[m] : first'[m][p] = first[m][p]
            /\ \A p \in DOMAIN e : p \notin DOMAIN first[m] => first'[m][p] = e[p]
      <4> TAKE e \in Partial(Readings)
      <4> HAVE Record(s, e)
      <4>1. \A mm : mm = call[s].id =>
              /\ first' \in [BatchIds -> Partial(Readings)] /\ (\A b \in BatchIds \ {mm} : first'[b] = first[b])
              /\ DOMAIN first'[mm] = DOMAIN first[mm] \cup DOMAIN e
              /\ \A p \in DOMAIN first[mm] : first'[mm][p] = first[mm][p]
              /\ \A p \in DOMAIN e : p \notin DOMAIN first[mm] => first'[mm][p] = e[p]
        BY <3>1, RecordIs
      <4>2. QED
        BY ONLY <3>1, <4>1
    <3>4. QED
      BY ONLY <3>2, <3>3
  <2>3. QED
    BY <1>7, <2>2
<1>11. unsure' \in [BatchIds -> SUBSET Paths] /\ unsure'[m] = unsure[m] \cup blind /\ \A b \in BatchIds \ {m} : unsure'[b] = unsure[b]
  <2>1. blind \subseteq Paths
    BY <1>4, <1>5
  <2> HIDE DEF blind
  <2>2. QED
    BY <1>1, <1>3, <1>4, <2>1 DEF UndoTypeOK
<1> HIDE DEF changed, blind
<1>12. Sure(m)' = Sure(m) \ blind /\ Sure(m) \cap disturbed[m] = {} /\ replaced'[m] = replaced[m] /\ disturbed'[m] = disturbed[m]
  BY <1>1, <1>11 DEF Sure
(* What it has found changed it had read, and its own write changed it. *)
<1>13. ASSUME NEW p \in changed, p \in Sure(m), p \notin DOMAIN first[m]
       PROVE  p \in DOMAIN replaced[m] /\ read[p] = replaced[m][p]
  <2>1. p \in DOMAIN w /\ p \in DOMAIN read /\ read[p] # Unread /\ stored[p] \notin {Unread, read[p]} /\ p \in DOMAIN stored /\ p \notin disturbed[m]
    BY <1>1, <1>3, <1>4, <1>5, <1>12, <1>13
  <2>2. stored[p] = console[p]
    BY <1>1, <1>2, <1>3, <2>1 DEF Reads
  <2>3. p \in DOMAIN replaced[m]
    BY <1>1, <1>2, <1>3, <2>1, <2>2 DEF Reads
  <2>4. QED
    BY <1>2, <1>3, <1>13, <2>1, <2>3 DEF Changes
(* What its write changed it has found changed, or could not read. *)
<1>14. ASSUME NEW p \in (DOMAIN replaced[m] \cap Sure(m)) \ DOMAIN first[m] PROVE p \in changed \/ p \in blind
  <2>1. p \in DOMAIN w /\ console[p] = w[p] /\ read[p] \in {Unread, replaced[m][p]} /\ replaced[m][p] # w[p]
    BY <1>1, <1>2, <1>3, <1>14 DEF Changes, Pending
  <2>2. CASE p \notin Checked(s) \/ stored[p] = Unread
    BY <1>5, <2>1, <2>2
  <2>3. CASE p \in Checked(s) /\ stored[p] # Unread
    <3>1. stored[p] = console[p]
      BY <1>1, <1>2, <1>3, <1>12, <1>14, <2>3 DEF Reads
    <3>2. QED
      BY <1>5, <2>1, <2>3, <3>1
  <2>4. QED
    BY <2>2, <2>3
<1>15. Shape(s)'
  BY <1>1, <1>2, <1>3, <1>9, NothingIs DEF Shape
<1>16. ASSUME NEW p \in Restorable(m)' PROVE p \in Restorable(m) \/ (p \in changed /\ p \notin DOMAIN first[m] /\ first'[m][p] = read[p])
  BY <1>10, <1>16 DEF Restorable
<1>17. BatchInv(m) /\ Restorable(m) \subseteq DOMAIN first[m]
  BY <1>4 DEF UndoInv, Restorable
<1>18. Reads(s)'
  <2>1. ASSUME NEW p \in (Restorable(m)' \ DOMAIN replaced[m]) \cap Sure(m)' PROVE console[p] = first'[m][p]
    <3>1. p \in Restorable(m) \cap Sure(m)
      BY <1>12, <1>13, <1>16, <2>1
    <3>2. console[p] = first[m][p]
      BY <1>2, <1>3, <2>1, <3>1 DEF Reads
    <3>3. QED
      BY <1>10, <1>17, <3>1, <3>2
  <2>2. QED
    BY <1>1, <1>3, <1>9, <1>12, <2>1, NothingIs DEF Reads
<1>19. Changes(s)'
  <2>1. DOMAIN replaced[m] \cap Sure(m)' \subseteq DOMAIN first'[m]
    BY <1>10, <1>12, <1>14
  <2>2. QED
    BY <1>3, <1>9, <1>12, <2>1 DEF Changes
<1>20. \A p \in Restorable(m)' \cap DOMAIN replaced'[m] \cap Sure(m)' : first'[m][p] = replaced'[m][p]
  <2> SUFFICES ASSUME NEW p \in Restorable(m)' \cap DOMAIN replaced[m] \cap Sure(m)' PROVE first'[m][p] = replaced[m][p]
    BY <1>12
  <2>1. p \in Sure(m)
    BY <1>12
  <2>2. CASE p \in Restorable(m)
    BY <1>10, <1>17, <2>1, <2>2 DEF BatchInv
  <2>3. CASE p \in changed /\ p \notin DOMAIN first[m] /\ first'[m][p] = read[p]
    BY <1>13, <2>1, <2>3
  <2>4. QED
    BY <1>16, <2>2, <2>3
<1>21. Restores(s)'
  <2> SUFFICES ASSUME u # 0 PROVE Restores(s)'
    BY <1>3, <1>9 DEF Restores
  <2>1. /\ u \in journaled /\ rest = Tail(call[s].plan)
        /\ \A i \in DOMAIN call[s].plan : \A p \in DOMAIN call[s].plan[i] : p \in Restorable(u) /\ call[s].plan[i][p] = first[u][p]
    BY <1>1, <1>2, <1>3, <1>8 DEF Restores
  <2>2. u # m /\ u \in BatchIds
    BY <1>1, <1>2, <1>3, <2>1, CallHas
  <2>3. first'[u] = first[u] /\ Restorable(u)' = Restorable(u) /\ u \in journaled'
    BY <1>1, <1>10, <2>1, <2>2 DEF Restorable
  <2>4. ASSUME NEW i \in DOMAIN rest, NEW p \in DOMAIN rest[i] PROVE p \in Restorable(u) /\ rest[i][p] = first[u][p]
    <3>1. i + 1 \in DOMAIN call[s].plan /\ rest[i] = call[s].plan[i + 1]
      BY <1>1, <1>2, <2>1, TargetIs
    <3>2. QED
      BY <2>1, <2>4, <3>1
  <2>5. call'[s].undoOf = u /\ call'[s].plan = rest /\ ~call'[s].ok
    BY <1>3, <1>8, <1>9
  <2>6. QED
    BY <2>3, <2>4, <2>5 DEF Restores
<1>22. QED
  <2>1. /\ Busy(s) /\ m = call[s].id /\ c \in CallType /\ c.id = m /\ call' = [call EXCEPT ![s] = c]
        /\ UNCHANGED <<journaled, undoneBatches, nextBatch, others>> /\ UNCHANGED <<console, disturbed, replaced>>
        /\ \A b \in BatchIds \ {m} : first'[b] = first[b] /\ unsure'[b] = unsure[b]
    BY <1>1, <1>2, <1>3, <1>9, <1>10, <1>11
  <2>2. QED
    BY <1>10, <1>11, <1>15, <1>18, <1>19, <1>20, <1>21, <2>1, MoveKeeps

LEMMA UndoInvKept == UndoInv /\ [UndoNext]_undoVars => UndoInv'
<1> SUFFICES ASSUME UndoInv, [UndoNext]_undoVars PROVE UndoInv'
  OBVIOUS
<1>1. CASE UNCHANGED undoVars
  <2>0. /\ console' = console /\ call' = call /\ first' = first /\ journaled' = journaled /\ undoneBatches' = undoneBatches
        /\ nextBatch' = nextBatch /\ others' = others /\ replaced' = replaced /\ disturbed' = disturbed /\ unsure' = unsure
    BY ONLY <1>1 DEF undoVars
  <2>1. UndoTypeOK'
    <3>1. UndoTypeOK
      BY DEF UndoInv
    <3>2. QED
      BY ONLY <2>0, <3>1 DEF UndoTypeOK, Busy
  <2>2. \A s, t \in Slots : Busy(s)' /\ Busy(t)' /\ call'[s].id = call'[t].id => s = t
    BY <2>0 DEF UndoInv, Busy
  <2>3. ASSUME NEW s \in Slots PROVE CallInv(s)'
    <3>1. CallInv(s)
      BY DEF UndoInv
    <3>2. QED
      <4>1. Busy(s)' = Busy(s) /\ Target(s)' = Target(s) /\ Wrote(s)' = Wrote(s) /\ Pending(s)' = Pending(s)
        BY ONLY <2>0 DEF Busy, Target, Wrote, Pending
      <4>2. \A b : Sure(b)' = Sure(b) /\ Restorable(b)' = Restorable(b)
        BY ONLY <2>0 DEF Sure, Restorable
      <4>3. \A p : Restored(s, p)' <=> Restored(s, p)
        BY ONLY <2>0, <4>1 DEF Restored
      <4>4. (Shape(s) => Shape(s)') /\ (Reads(s) => Reads(s)')
        BY ONLY <2>0, <4>1, <4>2 DEF Shape, Reads
      <4>5. (Changes(s) => Changes(s)') /\ (Restores(s) => Restores(s)')
        BY ONLY <2>0, <4>1, <4>2, <4>3 DEF Changes, Restores
      <4>6. QED
        BY ONLY <3>1, <4>1, <4>4, <4>5 DEF CallInv
  <2>4. ASSUME NEW b \in BatchIds PROVE BatchInv(b)'
    <3>1. BatchInv(b)
      BY DEF UndoInv
    <3>2. QED
      BY ONLY <2>0, <3>1 DEF BatchInv, Sure, OpenBatch, Busy, Target, Wrote, Restorable
  <2>5. QED
    BY <2>1, <2>2, <2>3, <2>4 DEF UndoInv
<1>2. CASE OtherChange
  BY <1>2, OtherChangeKeeps
<1>3. ASSUME NEW s \in Slots, BeginWrite(s) PROVE UndoInv'
  BY <1>3, BeginWriteKeeps
<1>4. ASSUME NEW s \in Slots, BeginUndo(s) PROVE UndoInv'
  BY <1>4, BeginUndoKeeps
<1>5. ASSUME NEW s \in Slots, Read(s) PROVE UndoInv'
  BY <1>5, ReadKeeps
<1>6. ASSUME NEW s \in Slots, Acked(s) PROVE UndoInv'
  BY <1>6, AckedKeeps
<1>7. ASSUME NEW s \in Slots, Rejected(s) PROVE UndoInv'
  BY <1>7, RejectedKeeps
<1>8. ASSUME NEW s \in Slots, Unanswered(s) PROVE UndoInv'
  BY <1>8, UnansweredKeeps
<1>9. ASSUME NEW s \in Slots, ReadBack(s) PROVE UndoInv'
  BY <1>9, ReadBackKeeps
<1>10. ASSUME NEW s \in Slots, Verified(s) PROVE UndoInv'
  BY <1>10, VerifiedKeeps
<1>11. ASSUME NEW s \in Slots, RecordRejectedWrite(s) PROVE UndoInv'
  BY <1>11, RecordRejectedKeeps
<1>12. ASSUME NEW s \in Slots, End(s) PROVE UndoInv'
  BY <1>12, EndKeeps
<1>13. QED
  BY <1>1, <1>2, <1>3, <1>4, <1>5, <1>6, <1>7, <1>8, <1>9, <1>10, <1>11, <1>12 DEF UndoNext

-----------------------------------------------------------------------------
LEMMA UndoInvAlways == UndoSpec => []UndoInv
<1>1. UndoInit => UndoInv
  BY UndoInvInitially
<1>2. UndoInv /\ [UndoNext]_undoVars => UndoInv'
  BY UndoInvKept
<1>3. QED
  BY <1>1, <1>2, PTL DEF UndoSpec

\* Type correctness of the verified write: what a call reads, plans and
\* journals is of paths and values, a batch is journaled once its call is over,
\* and only journaled batches are marked as undone.
THEOREM UndoTypes == UndoSpec => []UndoTypeOK
<1>1. UndoInv => UndoTypeOK
  BY DEF UndoInv
<1>2. QED
  BY <1>1, UndoInvAlways, PTL

\* What writeAssignments, bulkSet and recordRejectedWrite journal as the value
\* to go back to is the value the batch's first change of the path replaced,
\* unless somebody else wrote the path once it was read, or a bulk-set of the
\* batch went unanswered or could not be read back.
THEOREM JournalsWhatWasReplaced == UndoSpec => []JournalsWhatItReplaced
<1>1. UndoInv => JournalsWhatItReplaced
  <2> SUFFICES ASSUME UndoInv, NEW b \in BatchIds, NEW p \in (Restorable(b) \cap DOMAIN replaced[b]) \ (disturbed[b] \cup unsure[b])
               PROVE  first[b][p] = replaced[b][p]
    BY DEF JournalsWhatItReplaced
  <2>1. p \in Sure(b)
    BY HistoryHas DEF UndoInv, Sure
  <2>2. QED
    BY <2>1 DEF UndoInv, BatchInv
<1>2. QED
  BY <1>1, UndoInvAlways, PTL

\* A restore that wing_undo reports as complete leaves every path its batch
\* changed at the value the batch replaced, also where the console had rejected
\* a bulk-set half-way; but for paths that could not be read, that got no
\* answer, or that someone else wrote during the batch or the restore.
THEOREM UndoPutsBack == UndoSpec => UndoRestores
<1>1. UndoInv /\ [UndoNext]_undoVars =>
        \A s \in Slots :
         call[s].stage = "ending" /\ End(s) /\ call[s].ok /\ call[s].undoOf # 0 =>
            LET b == call[s].undoOf
                u == call[s].id
                unread == DOMAIN first[b] \ Restorable(b)
            IN \A p \in DOMAIN replaced[b] \ (unread \cup disturbed[b] \cup unsure[b] \cup disturbed[u]) :
                    console[p] = replaced[b][p]
  <2> SUFFICES ASSUME UndoInv, NEW s \in Slots, call[s].stage = "ending", call[s].ok, call[s].undoOf # 0,
                      NEW b, b = call[s].undoOf, NEW u, u = call[s].id,
                      NEW p \in DOMAIN replaced[b], p \notin DOMAIN first[b] \ Restorable(b),
                      p \notin disturbed[b], p \notin unsure[b], p \notin disturbed[u]
               PROVE  console[p] = replaced[b][p]
    OBVIOUS
  <2>1. Busy(s) /\ UndoTypeOK /\ Shape(s) /\ Restores(s)
    BY DEF Busy, UndoInv, CallInv
  <2>2. b \in journaled /\ b \in BatchIds
    BY <2>1, CallHas DEF Restores
  <2>3. ~OpenBatch(b) /\ BatchInv(b) /\ p \in Sure(b)
    BY <2>1, <2>2, HistoryHas DEF OpenBatch, UndoInv, UndoTypeOK, Sure
  <2>4. p \in Restorable(b) /\ first[b][p] = replaced[b][p]
    BY <2>3 DEF BatchInv
  <2>5. call[s].plan = << >> /\ DOMAIN call[s].plan = {}
    BY <2>1 DEF Shape
  <2>6. Restored(s, p)
    BY <2>1, <2>4, <2>5 DEF Restores
  <2>7. QED
    BY <2>4, <2>6 DEF Restored
<1>2. QED
  BY <1>1, UndoInvAlways, PTL DEF UndoSpec, UndoRestores
=============================================================================
