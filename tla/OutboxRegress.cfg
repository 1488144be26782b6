SPECIFICATION Spec
CONSTANTS
    Tx = {t1}
    Origins <- SimulatedOnly
    MaxCopies = 1
    MaxFaults = 0
    None = None
PROPERTIES ClearedStays
