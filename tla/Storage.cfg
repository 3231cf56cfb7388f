SPECIFICATION LiveSpec
CONSTANTS
    Window = {w1, w2}
    Main = main
    Key = {k}
    Value = {1}
    Absent = absent
    Untouched = untouched
    Writer = {w1, w2}
    MaxChange = 3
    Faults = {"sqlite"}
INVARIANTS TypeOK WindowsAreKeptCurrent NothingIsForgotten ClosedHasAll
PROPERTY Converges
CHECK_DEADLOCK FALSE
