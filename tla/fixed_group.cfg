SPECIFICATION Spec
CONSTANTS
    Replica = {r1, r2}
    NumberOfReplicas = 2
    Commands = {"deposit", "addInterest"}
    Amounts = {100}
    Percents = {10}
    CanCrash = {r1, r2}
    CanEnd = {}
    PromptStart = TRUE
    MaxTransactions <- TwoEach
    MaxInFlight = 3
    MaxRestarts = 0
SYMMETRY Symmetry
INVARIANTS Agreement NothingLost
PROPERTIES ImplementsBank
CHECK_DEADLOCK FALSE
