------------------------- MODULE WingWriteJournal -------------------------
(***************************************************************************)
(* The write journal (wing-write-journal.ts) of several server processes   *)
(* that share one journal.json, with the wing_undo tool that reads and     *)
(* marks it (tools/journal.ts).                                            *)
(*                                                                         *)
(* A process is single threaded, but its tool calls interleave at every    *)
(* await, and its synchronous file operations interleave with those of     *)
(* the other processes: persist() is cut at the two points where another   *)
(* process can get in, between reading the file and the rename, and        *)
(* between the rename and the stat that is remembered in `seen`.           *)
(*                                                                         *)
(* A batch is its number: batches are numbered in the order their tool     *)
(* calls started, which is what startedAt records.                         *)
(***************************************************************************)
EXTENDS Integers, Sequences, FiniteSets

CONSTANTS
    Procs,        \* the server processes that share the file
    MaxBatches,   \* MAX_BATCHES
    MaxIds        \* bound: tool calls made in a behaviour

ASSUME BoundsAssumption == MaxBatches \in Nat \ {0} /\ MaxIds \in Nat

VARIABLES
    batches,      \* [process -> list of batches]       this.batches
    undone,       \* [process -> batches]               those with undoneAt
    own,          \* [process -> batches]               ownBatchIds
    seen,         \* [process -> BOOLEAN]               the file's stat equals this.seen
    saving,       \* [process -> step]                  how far persist() is
    calls,        \* [process -> tool calls under way]
    file,         \* the journal on disk: its list of batches and the undone ones
    nextId,       \* the number of the next batch
    behind,       \* history: [process -> the file holds another's save it has not read]
    restored      \* history: how often each batch has been restored in full

vars == <<batches, undone, own, seen, saving, calls, file, nextId, behind, restored>>

Ids == 1 .. MaxIds

\* A tool call: the number its batch gets, the batch it undoes (0: none), and
\* whether its writes are still going on or it has restored and must still mark.
Calls == [id : Ids, undoOf : 0 .. MaxIds, stage : {"writing", "restored"}]

Items(list) == {list[i] : i \in DOMAIN list}

\* this.batches.sort((a, b) => a.startedAt - b.startedAt)
InStartOrder(S) ==
    LET upTo[i \in 0 .. MaxIds] ==
            IF i = 0 THEN << >> ELSE IF i \in S THEN Append(upTo[i - 1], i) ELSE upTo[i - 1]
    IN upTo[MaxIds]

\* splice(0, length - MAX_BATCHES) of the sorted list
Newest(S) == {b \in S : Cardinality({c \in S : c > b}) < MaxBatches}

\* runBatch pushes its batch and drops the first of the list when it overflows.
Pushed(list, b) == IF Len(list) < MaxBatches THEN Append(list, b) ELSE Append(Tail(list), b)

-----------------------------------------------------------------------------
\* readIfChanged: nothing when the file is as this process last saw it.
Incoming(p) == IF seen[p] THEN {} ELSE Items(file.list)

\* Mutant: the file is only read into an empty journal.
MergedWhenEmpty(p, list) ==
    IF Incoming(p) = {} \/ Len(list) > 0 THEN list
    ELSE InStartOrder(Newest(Items(list) \cup Incoming(p)))

\* merge(readIfChanged()) into the memory [list, marks] of process p.
MergedList(p, list) ==
    IF Incoming(p) = {} THEN list
    ELSE InStartOrder(Newest(Items(list) \cup Incoming(p)))

\* Mutant: a batch that is known already is skipped, its undoneAt with it.
MergedMarksOfNew(p, list, marks) ==
    (marks \cup (file.undone \cap (Incoming(p) \ Items(list)))) \cap Items(MergedList(p, list))

\* Mutant: marks are kept for batches the cap has dropped.
MergedMarksOfAll(p, list, marks) == marks \cup (file.undone \cap Incoming(p))

\* The undoneAt marks after it: those this process set and those of the file.
MergedMarks(p, list, marks) ==
    (marks \cup (file.undone \cap Incoming(p))) \cap Items(MergedList(p, list))

\* Process p folds the file into [list, marks] and keeps the result.
Fold(p, list, marks) ==
    /\ batches' = [batches EXCEPT ![p] = MergedList(p, list)]
    /\ undone' = [undone EXCEPT ![p] = MergedMarks(p, list, marks)]
    /\ seen' = [seen EXCEPT ![p] = TRUE]
    /\ behind' = [behind EXCEPT ![p] = @ /\ seen[p]]

\* persist(), as far as the file it is about to write: the rest of it is
\* Rename, Stat and SaveFails.
Persist(p, list, marks) ==
    /\ Fold(p, list, marks)
    /\ saving' = [saving EXCEPT ![p] = "folded"]

Running(p) == saving[p] = "idle"
-----------------------------------------------------------------------------
Init ==
    /\ batches = [p \in Procs |-> << >>]
    /\ undone = [p \in Procs |-> {}]
    /\ own = [p \in Procs |-> {}]
    /\ seen = [p \in Procs |-> FALSE]
    /\ saving = [p \in Procs |-> "idle"]
    /\ calls = [p \in Procs |-> {}]
    /\ file = [list |-> << >>, undone |-> {}]
    /\ nextId = 1
    /\ behind = [p \in Procs |-> FALSE]
    /\ restored = [b \in Ids |-> 0]

\* A process (re)starts, at any point of what it was doing: the constructor
\* loads the file, and nothing in it is this session's own.
Restart(p) ==
    /\ batches' = [batches EXCEPT ![p] = InStartOrder(Newest(Items(file.list)))]
    /\ undone' = [undone EXCEPT ![p] = file.undone \cap Newest(Items(file.list))]
    /\ own' = [own EXCEPT ![p] = {}]
    /\ seen' = [seen EXCEPT ![p] = TRUE]
    /\ saving' = [saving EXCEPT ![p] = "idle"]
    /\ calls' = [calls EXCEPT ![p] = {}]
    /\ behind' = [behind EXCEPT ![p] = FALSE]
    /\ UNCHANGED <<file, nextId, restored>>

\* refresh(), as wing_history calls it.
Refresh(p) ==
    /\ Running(p)
    /\ Fold(p, batches[p], undone[p])
    /\ UNCHANGED <<own, saving, calls, file, nextId, restored>>

Begin(p, b) ==
    /\ nextId <= MaxIds
    /\ calls' = [calls EXCEPT ![p] = @ \cup {[id |-> nextId, undoOf |-> b, stage |-> "writing"]}]
    /\ nextId' = nextId + 1

\* A journaled tool call opens its batch.
StartWrite(p) ==
    /\ Running(p)
    /\ Begin(p, 0)
    /\ UNCHANGED <<batches, undone, own, seen, saving, file, behind, restored>>

\* Mutant: wing_undo looks at its memory only.
StartUndoUnrefreshed(p) ==
    /\ Running(p)
    /\ \E b \in Items(batches[p]) \ undone[p] : Begin(p, b)
    /\ UNCHANGED <<batches, undone, own, seen, saving, file, behind, restored>>

\* wing_undo refreshes, finds the batch, refuses one already undone, and opens
\* a batch of its own for the restoring writes.
StartUndo(p) ==
    /\ Running(p)
    /\ Fold(p, batches[p], undone[p])
    /\ \E b \in Items(batches'[p]) \ undone'[p] : Begin(p, b)
    /\ UNCHANGED <<own, saving, file, restored>>

\* The writes of a call are over. Its batch is kept and saved when it wrote
\* something; a restore in full goes on to mark the batch it restored.
EndBatch(p) ==
    /\ Running(p)
    /\ \E c \in calls[p], ok \in BOOLEAN :
        /\ c.stage = "writing"
        /\ own' = [own EXCEPT ![p] = @ \cup {c.id}]
        /\ Persist(p, Pushed(batches[p], c.id), undone[p])
        /\ \/ /\ c.undoOf # 0 /\ ok
              /\ calls' = [calls EXCEPT ![p] = (@ \ {c}) \cup {[c EXCEPT !.stage = "restored"]}]
              /\ restored' = [restored EXCEPT ![c.undoOf] = @ + 1]
           \/ /\ c.undoOf = 0 \/ ~ok
              /\ calls' = [calls EXCEPT ![p] = @ \ {c}]
              /\ UNCHANGED restored
    /\ UNCHANGED <<file, nextId>>

\* A call that wrote nothing leaves no batch.
EndEmpty(p) ==
    /\ Running(p)
    /\ \E c \in calls[p] :
        /\ c.stage = "writing"
        /\ calls' = [calls EXCEPT ![p] = @ \ {c}]
    /\ UNCHANGED <<batches, undone, own, seen, saving, file, nextId, behind, restored>>

\* markUndone: nothing when the batch has been dropped from the list meanwhile.
MarkUndone(p) ==
    /\ Running(p)
    /\ \E c \in calls[p] :
        /\ c.stage = "restored"
        /\ calls' = [calls EXCEPT ![p] = @ \ {c}]
        /\ \/ /\ c.undoOf \in Items(batches[p])
              /\ Persist(p, batches[p], undone[p] \cup {c.undoOf})
           \/ /\ c.undoOf \notin Items(batches[p])
              /\ UNCHANGED <<batches, undone, seen, saving, behind>>
    /\ UNCHANGED <<own, file, nextId, restored>>

\* The temporary file replaces the journal: no process has seen this one yet.
Rename(p) ==
    /\ saving[p] = "folded"
    /\ file' = [list |-> batches[p], undone |-> undone[p]]
    /\ seen' = [q \in Procs |-> FALSE]
    /\ behind' = [q \in Procs |-> q # p]
    /\ saving' = [saving EXCEPT ![p] = "renamed"]
    /\ UNCHANGED <<batches, undone, own, calls, nextId, restored>>

\* The file is remembered as seen, whoever wrote the one that is there now.
Stat(p) ==
    /\ saving[p] = "renamed"
    /\ seen' = [seen EXCEPT ![p] = TRUE]
    /\ saving' = [saving EXCEPT ![p] = "idle"]
    /\ UNCHANGED <<batches, undone, own, calls, file, nextId, behind, restored>>

\* Any of the file operations fails: persist warns and gives up.
SaveFails(p) ==
    /\ ~Running(p)
    /\ saving' = [saving EXCEPT ![p] = "idle"]
    /\ UNCHANGED <<batches, undone, own, seen, calls, file, nextId, behind, restored>>

Next ==
    \E p \in Procs :
        \/ Restart(p) \/ Refresh(p)
        \/ StartWrite(p) \/ StartUndo(p)
        \/ EndBatch(p) \/ EndEmpty(p) \/ MarkUndone(p)
        \/ Rename(p) \/ Stat(p) \/ SaveFails(p)

Spec == Init /\ [][Next]_vars
-----------------------------------------------------------------------------
\* Every variable holds values of its type; marks are of batches in the list.
TypeOK ==
    /\ batches \in [Procs -> Seq(Ids)]
    /\ undone \in [Procs -> SUBSET Ids]
    /\ own \in [Procs -> SUBSET Ids]
    /\ seen \in [Procs -> BOOLEAN]
    /\ saving \in [Procs -> {"idle", "folded", "renamed"}]
    /\ calls \in [Procs -> SUBSET Calls]
    /\ file \in [list : Seq(Ids), undone : SUBSET Ids]
    /\ \A p \in Procs : undone[p] \subseteq Items(batches[p])
    /\ nextId \in 1 .. MaxIds + 1
    /\ behind \in [Procs -> BOOLEAN]
    /\ restored \in [Ids -> Nat]

Full(list) == Len(list) = MaxBatches

\* A memory [list, marks] that holds all the file holds, but for batches a full
\* list has no room for.
Covers(list, marks) ==
    /\ Items(file.list) \subseteq Items(list) \/ Full(list)
    /\ file.undone \cap Items(list) \subseteq marks

\* The cache behind readIfChanged is coherent: a process that has read every
\* save of the others holds every batch and every mark of the file, so not
\* reading an unchanged file loses nothing.
ReadMeansHeld == \A p \in Procs : ~behind[p] => Covers(batches[p], undone[p])

\* The list never outgrows the cap and never holds a batch twice, although
\* batches enter it both at their own end and from the file.
ListsAreSound ==
    \A list \in {batches[p] : p \in Procs} \cup {file.list} :
        Len(list) <= MaxBatches /\ Cardinality(Items(list)) = Len(list)

\* A save by a process that has read every save of the others drops neither a
\* batch (but for the cap) nor the mark of a batch that stays.
SavesKeep ==
    [][\A p \in Procs : Rename(p) /\ ~behind[p] =>
            /\ Items(file.list) \subseteq Items(file'.list) \/ Full(file'.list)
            /\ file.undone \cap Items(file'.list) \subseteq file'.undone]_vars

\* wing_undo does not start on a batch the file marks as undone, unless an
\* earlier race of two saves made the process miss that file.
UndoRespectsMarks ==
    [][\A p \in Procs : \A c \in calls'[p] \ calls[p] :
            c.stage = "writing" /\ c.undoOf \in file.undone => behind[p] /\ seen[p]]_vars

\* Two statements of the source that the journal does not keep, checked by no
\* run: the README tells how each is refuted.

\* "Set once wing_undo has restored this batch, so it is never restored twice."
RestoredOnce == \A b \in Ids : restored[b] <= 1

\* "Each save first folds in what the others wrote, so none of them drops the
\* others' batches": when a save has folded, no finished save is unread.
SavesFoldAll ==
    [][\A p \in Procs : Running(p) /\ saving'[p] = "folded" => ~behind'[p]]_vars
=============================================================================
