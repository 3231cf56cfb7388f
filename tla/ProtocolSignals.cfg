SPECIFICATION LiveSpec
CONSTANTS
    Payload = {a}
    NoPayload = NoPayload
    MaxId <- TwoFromClient
    MaxSocket = 2
    MaxWire = 1
    Volunteered <- PausesAndGoodbye
    Lossy = FALSE
INVARIANTS NoGap DisconnectComesLast
PROPERTY AllAcknowledged
CHECK_DEADLOCK FALSE
