----------------------------- MODULE MC_Journal -----------------------------
(* For TLC, one of three: the write journal shared by processes; the         *)
(* verified writes and undos of one process that overlap on one path; and    *)
(* those over two nodes, one call at a time.                                 *)
EXTENDS WingWriteJournal, WingUndo
T == INSTANCE TLC

CONSTANTS path_a, path_b, path_c

VARIABLE which

TwoNodes == {{path_a, path_b}, {path_c}}

\* Every single write of the first path; writes of two nodes, one after the other.
Narrow(plan) == plan # << >> => Len(plan) = 1 /\ DOMAIN plan[1] = {path_a}
SomePlans ==
    {<<w>> : w \in [{path_a} -> Values]}
    \cup {<<w, [p \in {path_c} |-> v]>> : w \in [{path_a, path_b} -> Values], v \in Values}

JournalInit ==
    /\ which \in {"journal", "overlap", "nodes"}
    /\ Init /\ UndoInit
    /\ \A p \in Paths : console[p] = console[path_a]
JournalNext ==
    /\ UNCHANGED which
    /\ \/ which = "journal" /\ Next /\ UNCHANGED undoVars
       \/ /\ which = "overlap" /\ UndoNext /\ UNCHANGED vars
          /\ \A s \in Slots : Busy(s)' => Narrow(call'[s].plan)
          /\ \A p \in Paths \ {path_a} : console'[p] = console[p]
       \/ /\ which = "nodes" /\ UndoNext /\ UNCHANGED vars
          /\ Cardinality({s \in Slots : Busy(s)'}) <= 1
          /\ others' = 0 /\ nextBatch' <= 3
JournalSpec == JournalInit /\ [][JournalNext]_<<which, vars, undoVars>>

Symmetry == T!Permutations(Procs) \cup T!Permutations(Slots) \cup T!Permutations(Values)
=============================================================================
