SPECIFICATION LiveSpec
CONSTANTS
    MaxEvent = 4
    MaxChange = 3
INVARIANTS TypeOK EachOnceInOrder SomebodyWillDeliver
PROPERTY AllDelivered
CHECK_DEADLOCK FALSE
