\* One window and the main process, whose transactions may fail.
SPECIFICATION LiveSpec
CONSTANTS
    Window = {w1}
    Main = main
    Key = {k}
    Value = {1}
    Absent = absent
    Untouched = untouched
    Writer = {w1, main}
    MaxChange = 2
    Faults = {"sqlite", "kill"}
PROPERTY CloseEnds
CHECK_DEADLOCK FALSE
