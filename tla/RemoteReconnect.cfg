SPECIFICATION FairSpec
CONSTANTS
    MaxSocket = 8
    MaxFaults = 3
    GivesUp = TRUE
    Interrupts = {"end", "othersFail"}
INVARIANTS TypeOK ConnectedIsAccepted OnlyForgottenWindowsFail GraceOnlyWhileClosed EachFaultCostsTwo
PROPERTIES Settles NoOrphan
CHECK_DEADLOCK FALSE
