SPECIFICATION FairVisits
CONSTANTS
    TxPartition = {tx1}
    ActivityPartition = {act1}
    MaxLength = 2
    Malformed <- NoneMalformed
    BatchSize = 2
    MaxFaults = 2
    Nothing = Nothing
    PoisonedMalformed <- SecondMalformed
    PoisonedFaults = 1
    MaxRows = 3
    itemsPerPage = 2
    TableSearch <- Matches
    Ranges = {"1", "7"}
    Custom = {"7", "bad"}
    Minima = {"none", "whole"}
    MaxChanges = 4
    FailMinima = {"none", "fraction"}
    FailChanges = 2
    LogCategory = {"p2p"}
    LogLimit = 2
    MaxEvents = 3
    MaxActions = 2
    MaxFetches = 2
    FailCategory = {"p2p", "cards"}
    FailLimit = 1
    FailEvents = 2
    FailActions = 1
    FailFetches = 3
    Opening = 1
    MaxTransfers = 1
    MaxReads = 1
    Days = {1, 30}
    AuditSearch = {"none", "x"}
    AuditLimit = 1
    MaxRecords = 1
    AuditFetches = 2
    FailCopies = 2
    MovementKind <- Kinds
    Blank <- Blanks
    MaxCents = 1
    MaxMovements = 2
    TxTime <- Times
    Step = 45
    DaylightSaving = FALSE
    RoutingStart <- Routings
    AccountStart <- Accounts
    CardStart <- Cards
INVARIANTS TypesOK CommittedIsStored DamageNeedsFaults FiguresAddUp ShownIsAsked
PROPERTIES ImplementsChannel MalformedBlocksNothing ScreensCatchUp
CHECK_DEADLOCK FALSE
