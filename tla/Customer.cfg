SPECIFICATION FairVisits
CONSTANTS
    Nothing = Nothing
    Tab = {"t1"}
    ACCESS_TOKEN_EXPIRE_MINUTES = 3
    WARNING_THRESHOLDS_MINUTES = {1, 2}
    IsAdmin = FALSE
    MaxTokens = 2
    MaxClock = 4
    maxRetries = 3
    MaxChallenges = 4
    Payee = {1}
    MaxIds = 3
    MaxCalls = 2
    Erasable = {1, 2, 3}
    MaskOf <- MCMaskOf
    Subscribers = {3}
    Matching = {1, 3}
    PageSize = 3
    MaxSearches = 1
    MaxErasures = 1
    PagedUser = {1, 2, 3, 4, 5, 6, 7}
    PagedMaskOf <- MCPagedMaskOf
    PagedMatching = {1}
    PagedPageSize = 1
    MaxReads = 1
    CardTab = {"t1", "t2"}
    MaxCard = 3
    Limits = {"low"}
    HideAfter = 3
    PreviewTab = {"t1"}
    PreviewLimits = {"low", "high"}
    MaxReveals = 3
    Amounts = {"ten", "refused"}
    RefusedAmount = "refused"
    MAX_RETRIES = 1
    MaxDialogs = 2
    MaxPresses = 2
    Payment = {1, 2}
    Period <- MCPeriod
    Target = {1}
    Opening = 1
    NullKeyAllowed = TRUE
    MaxCrashes = 1
    PaymentKind <- MCKind
    ApiChoice = {"Daily"}
    LastDay = 2
    MaxRequests = 1
    LongKind <- MCLongKind
    LongFormChoice = {"One-time"}
    LongLastDay = 3
    Form <- MCForm
    ShortPassword = {"short"}
    Old = "old"
    Email = {"e1", "e2"}
    MaxChanges = 2
    MaxBackups = 2
    MaxSaves = 3
    MaxSessions = 2
    RequestId = {"r1"}
    Attempt = {1, 2, 3}
    RequestOpening = 2
INVARIANTS TypesOK SessionIsGuarded OnceOnly BooksKept ScreensAgree
PROPERTIES EverythingEnds
CHECK_DEADLOCK FALSE
