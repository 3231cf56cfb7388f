SPECIFICATION Spec
CONSTANTS
    MaxSocket = 3
    MaxFaults = 1
    GivesUp = FALSE
    Interrupts = {"othersFail"}
PROPERTIES NoMoreAttempts
CHECK_DEADLOCK FALSE
