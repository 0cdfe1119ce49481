SPECIFICATION FairSpec
CONSTANTS
    Replica = {r1, r2}
    NumberOfReplicas = 2
    Commands = {"deposit", "exit"}
    Amounts = {100}
    Percents = {10}
    CanCrash = {r1}
    CanEnd = {r1, r2}
    PromptStart = TRUE
    MaxTransactions <- TwoAndOne
    MaxInFlight = 2
    MaxRestarts = 0
PROPERTIES IssuedIsExecuted ExecutedByAll ExitCompletes
CHECK_DEADLOCK FALSE
