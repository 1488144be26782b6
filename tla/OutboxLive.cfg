SPECIFICATION FairSpec
CONSTANTS
    Tx = {t1}
    Origins <- AllOrigins
    MaxCopies = 1
    MaxFaults = 1
    None = None
PROPERTIES EveryTransactionReported OpenIsCleared ReportConverges
