SPECIFICATION LiveSpec
CONSTANTS
    Channel = {root, s}
    Root = root
    Initially = {}
    Unrestorable = {s}
    Rewritten = {1}
    Capacity = 2
    Evicted = {}
    MaxAction = 2
    MaxTransport = 3
    MaxEntry = 2
INVARIANTS TypeOK  AppliedInOrder  
  
CHECK_DEADLOCK FALSE
