CONSTANTS
    Account = {a1, a2}
    Intent = {i1}
    Attempt = {r1, r2}
    Amount = {1}
    Kinds = {"topup"}
    NoOne = NoOne
    Opening <- MCOpening
SPECIFICATION Spec
SYMMETRY Symmetry
INVARIANT ExecutedOnce
