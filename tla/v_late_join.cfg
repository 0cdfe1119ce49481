SPECIFICATION Spec
CONSTANTS
    Replica = {r1, r2}
    NumberOfReplicas = 1
    Commands = {"deposit"}
    Amounts = {100}
    Percents = {10}
    CanCrash = {}
    CanEnd = {}
    PromptStart = FALSE
    MaxTransactions <- OneEach
    MaxInFlight = 2
    MaxRestarts = 0
INVARIANTS Agreement
CHECK_DEADLOCK FALSE
