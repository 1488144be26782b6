SPECIFICATION Spec
CONSTANTS
    Tx = {t1}
    Origins <- AllOrigins
    MaxCopies = 2
    MaxFaults = 2
    None = None
INVARIANTS TypeOK ReportIsTrue NoEventVanishes CountedTwiceOnlyIfRaced
PROPERTIES BornFinalStays
