SPECIFICATION Spec
CONSTANTS
    Window = {w1, w2, w3}
    User = {w1, w2, w3}
    Username <- ByItself
    Editors <- OneEditor
    Elsewhere = {w3}
    MaxEdits = 3
INVARIANTS TypeOK SyncedInTurns
CHECK_DEADLOCK FALSE
