SPECIFICATION FairSpec
CONSTANTS
    Replica = {r1, r2}
    NumberOfReplicas = 1
    Commands = {"deposit", "exit"}
    Amounts = {100}
    Percents = {10}
    CanCrash = {r1}
    CanEnd = {}
    PromptStart = TRUE
    MaxTransactions <- OneEach
    MaxInFlight = 1
    MaxRestarts = 1
PROPERTIES ExitCompletes
CHECK_DEADLOCK FALSE
