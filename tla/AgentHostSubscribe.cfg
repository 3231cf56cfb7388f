SPECIFICATION Spec
CONSTANTS
    Channel = {root, s}
    Root = root
    Initially = {}
    Unrestorable = {}
    Rewritten = {}
    Capacity = 2
    Evicted = {}
    MaxAction = 2
    MaxTransport = 2
    MaxEntry = 2
INVARIANT EachActionOnce
CHECK_DEADLOCK FALSE
