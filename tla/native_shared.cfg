SPECIFICATION Spec
CONSTANTS
    Tablets = {t1, t2}
    Strips = {x, y}
    Root = Root
    Walker = Walker
    Window = 2
    MaxTimeouts = 2
    MaxAsks = 1
    MaxChanges = 2
SYMMETRY Symmetry
INVARIANTS RepliesGoHome ReadyIsCurrent
CHECK_DEADLOCK FALSE
