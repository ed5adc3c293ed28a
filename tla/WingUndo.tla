------------------------------ MODULE WingUndo ------------------------------
(***************************************************************************)
(* The verified write behind the tools (wing-write.ts writeAssignments over *)
(* WingOscClient.bulkSet) and the restore of a journaled batch by wing_undo *)
(* (tools/journal.ts), of one server process and the console it writes to.  *)
(*                                                                          *)
(* Tool calls run concurrently: each await (a read, the bulk-set, a read    *)
(* back) lets another call go on. The console's faders are also moved by    *)
(* hand and by other clients.                                               *)
(*                                                                          *)
(* A bulk-set and a restore are partial functions from paths to values. Of  *)
(* the entries of a batch only the first per path counts, since planRestore *)
(* ignores the others: `first` keeps exactly these.                         *)
(***************************************************************************)
EXTENDS Integers, Sequences, FiniteSets, Assignments

CONSTANTS
    Nodes,       \* a partition of the paths: one bulk-set writes paths of one node
    Values,      \* what a parameter holds
    Unread,      \* `null`: the value could not be read
    Slots,       \* bound: tool calls that run at the same time
    MaxBatchIds,      \* bound: tool calls made in a behaviour
    Plans,       \* the tool calls made: the bulk-sets of each, one after the other
    MaxOthers    \* bound: changes made at the surface or by other clients

ASSUME UnreadAssumption == Unread \notin Values
ASSUME NodesAssumption == IsFiniteSet(Nodes)
ASSUME UndoLimitsAssumption == MaxBatchIds \in Nat /\ MaxOthers \in Nat

Paths == UNION Nodes
BatchIds == 1 .. MaxBatchIds
Readings == Values \cup {Unread}

\* Partial functions from paths.
Partial(R) == UNION {[D -> R] : D \in SUBSET Paths}

\* What one bulk-set may ask for: values for paths of one node.
Assignments == UNION {[D -> Values] : D \in UNION {(SUBSET n) \ {{}} : n \in Nodes}}

ASSUME PlansAssumption == Plans \subseteq Seq(Assignments) /\ << >> \notin Plans

VARIABLES
    console,     \* [path -> value] on the console
    call,        \* [slot -> the tool call that runs in it]
    first,       \* [batch -> path -> value]  previous, of its first entry for the path
    journaled,   \* batches kept in the journal
    undoneBatches,      \* those that carry undoneAt
    nextBatch,
    others,      \* changes made elsewhere so far
    replaced,    \* history: [batch -> path -> value its first change of the path replaced]
    disturbed,   \* history: [batch -> paths someone else wrote once it had read them]
    unsure       \* history: [batch -> paths it may have changed without knowing]

undoVars == <<console, call, first, journaled, undoneBatches, nextBatch, others, replaced, disturbed, unsure>>

Nothing == [p \in {} |-> Unread]   \* no path
NoCall == [stage |-> "idle"]
Busy(s) == call[s].stage # "idle"
Target(s) == Head(call[s].plan)
Wrote(s) == DOMAIN first[call[s].id]

UndoInit ==
    /\ console \in [Paths -> Values]
    /\ call = [s \in Slots |-> NoCall]
    /\ first = [b \in BatchIds |-> Nothing]
    /\ journaled = {}
    /\ undoneBatches = {}
    /\ nextBatch = 1
    /\ others = 0
    /\ replaced = [b \in BatchIds |-> Nothing]
    /\ disturbed = [b \in BatchIds |-> {}]
    /\ unsure = [b \in BatchIds |-> {}]

\* The console takes the assignment `a`. Every call but `s` that has read one of
\* its paths now knows an old value.
Disturbs(a, s) ==
    disturbed' = [b \in BatchIds |->
        disturbed[b] \cup
            UNION {DOMAIN a \cap (DOMAIN call[t].read \cup Wrote(t)) :
                       t \in {u \in Slots \ s : Busy(u) /\ call[u].id = b}}]

Applied(a, s) ==
    /\ console' = a @@ console
    /\ Disturbs(a, {s})
    /\ replaced' = [replaced EXCEPT ![call[s].id] = @ @@ [p \in {q \in DOMAIN a : a[q] # console[q]} |-> console[p]]]

\* bulkSet and recordRejectedWrite append entries: planRestore wants the first.
Record(s, entries) == first' = [first EXCEPT ![call[s].id] = @ @@ entries]

\* A call's next bulk-set, or its end.
Going(s, rest, ok) ==
    call' = [call EXCEPT ![s] =
        [@ EXCEPT !.plan = rest, !.ok = ok, !.read = Nothing, !.stored = Nothing,
                  !.stage = IF rest = << >> THEN "ending" ELSE "reading"]]
-----------------------------------------------------------------------------
Open(s, undoOf, plan) ==
    /\ ~Busy(s)
    /\ nextBatch <= MaxBatchIds
    /\ nextBatch' = nextBatch + 1
    /\ call' = [call EXCEPT ![s] =
         [id |-> nextBatch, undoOf |-> undoOf, plan |-> plan, ok |-> TRUE,
          read |-> Nothing, stored |-> Nothing,
          stage |-> IF plan = << >> THEN "ending" ELSE "reading"]]
    /\ UNCHANGED <<console, first, journaled, undoneBatches, others, replaced, disturbed, unsure>>

\* A tool call writes its bulk-sets one after the other.
BeginWrite(s) ==
    \E plan \in Plans : Open(s, 0, plan)

\* planRestore: the first previous value of every path it is known for, one
\* bulk-set per node.
Restorable(b) == {p \in DOMAIN first[b] : first[b][p] # Unread}
RestoreOf(b, n) == [p \in Restorable(b) \cap n |-> first[b][p]]

BeginUndo(s) ==
    \E b \in journaled \ undoneBatches :
        LET nodes == {n \in Nodes : Restorable(b) \cap n # {}}
        IN \E order \in [1 .. Cardinality(nodes) -> nodes] :
            /\ \A n \in nodes : \E i \in DOMAIN order : order[i] = n
            /\ Open(s, b, [i \in DOMAIN order |-> RestoreOf(b, order[i])])

\* writeAssignments reads every key before the write (readLeaf: null on a timeout).
Read(s) ==
    /\ call[s].stage = "reading"
    /\ \E p \in DOMAIN Target(s) \ DOMAIN call[s].read :
        \E v \in {console[p], Unread} :
            call' = [call EXCEPT ![s].read = @ @@ (p :> v)]
    /\ UNCHANGED <<console, first, journaled, undoneBatches, nextBatch, others, replaced, disturbed, unsure>>

ReadyToSend(s) == call[s].stage = "reading" /\ DOMAIN call[s].read = DOMAIN Target(s)

\* The console stores every key and says OK: bulkSet journals what was read.
Acked(s) ==
    /\ ReadyToSend(s)
    /\ Applied(Target(s), s)
    /\ Record(s, call[s].read)
    /\ call' = [call EXCEPT ![s].stage = "checking"]
    /\ UNCHANGED <<journaled, undoneBatches, nextBatch, others, unsure>>

\* The console stores the keys before the one it rejects.
Rejected(s) ==
    /\ ReadyToSend(s)
    /\ \E D \in SUBSET DOMAIN Target(s) :
        /\ D # DOMAIN Target(s)
        /\ Applied([p \in D |-> Target(s)[p]], s)
    /\ call' = [call EXCEPT ![s].stage = "rereading"]
    /\ UNCHANGED <<first, journaled, undoneBatches, nextBatch, others, unsure>>

\* Mutant: the timeout is swallowed and the call goes on.
UnansweredIgnored(s) ==
    /\ ReadyToSend(s)
    /\ \/ Applied(Target(s), s)
       \/ UNCHANGED <<console, disturbed, replaced>>
    /\ unsure' = [unsure EXCEPT ![call[s].id] = @ \cup DOMAIN Target(s)]
    /\ Going(s, Tail(call[s].plan), call[s].ok)
    /\ UNCHANGED <<first, journaled, undoneBatches, nextBatch, others>>

\* No ack in time: the request or the ack was lost. The exception leaves the tool.
Unanswered(s) ==
    /\ ReadyToSend(s)
    /\ \/ Applied(Target(s), s)
       \/ UNCHANGED <<console, disturbed, replaced>>
    /\ unsure' = [unsure EXCEPT ![call[s].id] = @ \cup DOMAIN Target(s)]
    /\ Going(s, << >>, FALSE)
    /\ UNCHANGED <<first, journaled, undoneBatches, nextBatch, others>>

\* The keys that are read again: all of them after an OK, those that could be
\* read before the write after a rejection.
Checked(s) ==
    IF call[s].stage = "checking" THEN DOMAIN Target(s)
    ELSE {p \in DOMAIN Target(s) : call[s].read[p] # Unread}

ReadBack(s) ==
    /\ call[s].stage \in {"checking", "rereading"}
    /\ \E p \in Checked(s) \ DOMAIN call[s].stored :
        \E v \in {console[p], Unread} :
            call' = [call EXCEPT ![s].stored = @ @@ (p :> v)]
    /\ UNCHANGED <<console, first, journaled, undoneBatches, nextBatch, others, replaced, disturbed, unsure>>

\* An undo goes on to the next node whatever came of this one; another tool may
\* also stop at a write that did not work out.
Onward(s, ok) ==
    \/ Going(s, Tail(call[s].plan), call[s].ok /\ ok)
    \/ ~ok /\ call[s].undoOf = 0 /\ Going(s, << >>, FALSE)

\* writeAssignments is over: OK, or MISMATCH when a key reads back differently.
Verified(s) ==
    /\ call[s].stage = "checking"
    /\ DOMAIN call[s].stored = Checked(s)
    /\ Onward(s, call[s].stored = Target(s))
    /\ UNCHANGED <<console, first, journaled, undoneBatches, nextBatch, others, replaced, disturbed, unsure>>

\* Mutant: a rejected bulk-set is taken for one that changed nothing.
RejectionNotRecorded(s) ==
    /\ call[s].stage = "rereading"
    /\ DOMAIN call[s].stored = Checked(s)
    /\ Onward(s, FALSE)
    /\ UNCHANGED <<console, first, journaled, undoneBatches, nextBatch, others, replaced, disturbed, unsure>>

\* recordRejectedWrite: the keys that read back as something else than before are
\* journaled, so that an undo puts them back.
RecordRejectedWrite(s) ==
    /\ call[s].stage = "rereading"
    /\ DOMAIN call[s].stored = Checked(s)
    /\ LET changed == {p \in Checked(s) : call[s].stored[p] \notin {Unread, call[s].read[p]}}
           blind == {p \in DOMAIN Target(s) : p \notin Checked(s) \/ call[s].stored[p] = Unread}
       IN /\ Record(s, [p \in changed |-> call[s].read[p]])
          /\ unsure' = [unsure EXCEPT ![call[s].id] = @ \cup blind]
    /\ Onward(s, FALSE)
    /\ UNCHANGED <<console, journaled, undoneBatches, nextBatch, others, replaced, disturbed>>

\* runBatch keeps a batch that wrote something; wing_undo marks what it restored
\* in full. (The steps between the two are in WingWriteJournal.)
End(s) ==
    /\ call[s].stage = "ending"
    /\ journaled' = journaled \cup (IF Wrote(s) = {} THEN {} ELSE {call[s].id})
    /\ undoneBatches' = undoneBatches \cup (IF call[s].ok THEN {call[s].undoOf} \ {0} ELSE {})
    /\ call' = [call EXCEPT ![s] = NoCall]
    /\ UNCHANGED <<console, first, nextBatch, others, replaced, disturbed, unsure>>

\* A fader is moved on the console or by another client.
OtherChange ==
    /\ others < MaxOthers
    /\ others' = others + 1
    /\ \E p \in Paths : \E v \in Values \ {console[p]} :
        /\ console' = [console EXCEPT ![p] = v]
        /\ Disturbs(p :> v, {})
    /\ UNCHANGED <<call, first, journaled, undoneBatches, nextBatch, replaced, unsure>>

UndoNext ==
    \/ \E s \in Slots :
        \/ BeginWrite(s) \/ BeginUndo(s) \/ Read(s)
        \/ Acked(s) \/ Rejected(s) \/ Unanswered(s)
        \/ ReadBack(s) \/ Verified(s) \/ RecordRejectedWrite(s) \/ End(s)
    \/ OtherChange

UndoSpec == UndoInit /\ [][UndoNext]_undoVars
-----------------------------------------------------------------------------
CallType ==
    [id : BatchIds, undoOf : {0} \cup BatchIds, plan : Seq(Assignments), ok : BOOLEAN,
     read : Partial(Readings), stored : Partial(Readings),
     stage : {"reading", "checking", "rereading", "ending"}]

\* Every variable holds values of its type; an open batch is not journaled yet,
\* and only journaled batches are undoneBatches.
UndoTypeOK ==
    /\ console \in [Paths -> Values]
    /\ call \in [Slots -> {NoCall} \cup CallType]
    /\ first \in [BatchIds -> Partial(Readings)]
    /\ journaled \subseteq 1 .. nextBatch - 1
    /\ undoneBatches \subseteq journaled
    /\ nextBatch \in 1 .. MaxBatchIds + 1
    /\ others \in 0 .. MaxOthers
    /\ replaced \in [BatchIds -> Partial(Values)]
    /\ disturbed \in [BatchIds -> SUBSET Paths]
    /\ unsure \in [BatchIds -> SUBSET Paths]
    /\ \A s \in Slots : Busy(s) => call[s].id \notin journaled

\* What a batch recorded as the value to go back to is the value its first change
\* of the path replaced, when nobody else wrote the path after it was read and no
\* bulk-set of it went unanswered.
JournalsWhatItReplaced ==
    \A b \in BatchIds : \A p \in (Restorable(b) \cap DOMAIN replaced[b]) \ (disturbed[b] \cup unsure[b]) :
        first[b][p] = replaced[b][p]

\* "Restores every key a journaled write batch changed to the value it had
\* before": a restore reported as complete leaves every key the batch changed at
\* the value it replaced, also when the console rejected the bulk-set half-way;
\* but for keys that could not be read, that got no answer, or that someone else
\* wrote during the batch or the restore.
UndoRestores ==
    [][\A s \in Slots :
         call[s].stage = "ending" /\ End(s) /\ call[s].ok /\ call[s].undoOf # 0 =>
            LET b == call[s].undoOf
                u == call[s].id
                unread == DOMAIN first[b] \ Restorable(b)
            IN \A p \in DOMAIN replaced[b] \ (unread \cup disturbed[b] \cup unsure[b] \cup disturbed[u]) :
                    console[p] = replaced[b][p]]_undoVars

\* A statement of the source that does not hold, checked by no run: see the README.

\* "One key a batch wrote: what it held before, and what was asked of it."
HeldBefore ==
    \A b \in BatchIds : \A p \in Restorable(b) \cap DOMAIN replaced[b] : first[b][p] = replaced[b][p]
=============================================================================
