CONSTANTS
    Account = {a1, a2}
    Intent = {i1, i2}
    Attempt = {r1, r2, r3}
    Amount = {1}
    Kinds = {"internal", "vendor", "topup", "subscription"}
    NoOne = NoOne
    Opening <- MCOpening
SPECIFICATION Spec
SYMMETRY Symmetry
INVARIANT TypeOK VendorBooked AnsweredIsReplayed
PROPERTY ImplementsAtomic
