SPECIFICATION Spec
CONSTANTS
    Replica = {r1, r2}
    NumberOfReplicas = 1
    Commands = {"deposit", "getSyncedBalance", "cleanHistory"}
    Amounts = {100}
    Percents = {10}
    CanCrash = {}
    CanEnd = {}
    PromptStart = FALSE
    MaxTransactions <- TwoAndOne
    MaxInFlight = 2
    MaxRestarts = 0
INVARIANTS OwnOrder ListedOnce
CHECK_DEADLOCK FALSE
