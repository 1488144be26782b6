SPECIFICATION FairSpec
CONSTANTS
    Tx = {t1}
    Origins <- PaymentsOnly
    MaxCopies = 1
    MaxFaults = 1
    None = None
PROPERTIES EveryEventIsSent
