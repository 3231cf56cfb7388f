SPECIFICATION Spec
CONSTANTS
    Payload = {a, b}
    NoPayload = NoPayload
    MaxId <- TwoAndOne
    MaxSocket = 2
    MaxWire = 1
    Volunteered <- KeepAliveFromClient
    Lossy = TRUE
INVARIANTS TypeOK QueueMatchesCounters AckedWasDelivered DeliveredWillBeAcked OutstandingIsWatched
PROPERTY ImplementsChannel
SYMMETRY Payloads
CHECK_DEADLOCK FALSE
