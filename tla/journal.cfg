SPECIFICATION JournalSpec
CONSTANTS
    Procs = {p1, p2}
    MaxBatches = 2
    MaxIds = 4
    path_a = path_a
    path_b = path_b
    path_c = path_c
    Nodes <- TwoNodes
    Values = {v0, v1}
    Unread = Unread
    Slots = {s1, s2}
    MaxBatchIds = 3
    Plans <- SomePlans
    MaxOthers = 1
SYMMETRY Symmetry
PROPERTIES SavesKeep UndoRespectsMarks UndoRestores
CHECK_DEADLOCK FALSE
