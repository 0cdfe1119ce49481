SPECIFICATION Spec
CONSTANTS
    Replica = {r1, r2, r3}
    NumberOfReplicas = 2
    Commands = {}
    Amounts = {100}
    Percents = {10}
    CanCrash = {r1}
    CanEnd = {}
    PromptStart = TRUE
    MaxTransactions <- None
    MaxInFlight = 2
    MaxRestarts = 1
INVARIANTS NoLostWakeup
CHECK_DEADLOCK FALSE
