\* Two plans: the agents' answers wait for a recipient that never registers.
SPECIFICATION LiveSpec
CONSTANTS
    MaxConcurrentAgents = 4
    MaxPlans = 2
    MaxWaiting = 8
PROPERTY SubtasksSettle
CHECK_DEADLOCK FALSE
