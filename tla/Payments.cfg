SPECIFICATION FairVisits
CONSTANTS
    Call = {"internal", "p2p", "plain"}
    Keyed = {"internal", "p2p"}
    Separate = {"internal"}
    Retrying = {"internal"}
    MAX_RETRIES = 2
    MaxCalls = 1
    Nothing = Nothing
    Valid = {"r1", "r2"}
    Malformed = "malformed"
    Partial = "partial"
    Directory <- MCDirectory
    Suggested <- MCSuggested
    HubCents = {0, 10000, 2550}
    HubRetries = 2
    MaxLookups = 2
    Field = {"recipient", "amount"}
    MaxTransfers = 2
    MaxFetches = 2
    SendRetries = 2
    Total = 1
    MaxAccounts = 3
    MaxClicks = 1
    BetweenRetries = 1
    Limit = 2
    MaxOwners = 4
    MaxCreations = 1
    MaxMoves = 2
    VaultRetries = 0
    FedRouting = {"r1"}
    Listed = {"r1"}
    UsedRails = {"wire", "ach"}
    Funds = 1
    Reserve = 1
    Overdraft = 0
    FedRetries = 1
    MaxEdits = 1
    MaxSubmissions = 1
    LookupRouting = {"r1", "r2", "r3"}
    LookupListed = {"r1", "r2"}
    LookupRails = {"fednow", "wire"}
    MaxLookupEdits = 2
INVARIANTS TypesOK EndsAsPromised KeyedTwice ClaimsAreBacked MoneyKept
PROPERTIES ImplementsContract EveryCallSettles NeverGoesBack PaymentsSettle
CHECK_DEADLOCK FALSE
