CONSTANTS
    Account = {a1, a2}
    Intent = {i1, i2}
    Attempt = {r1, r2}
    Amount = {1}
    Kinds = {"p2p"}
    NoOne = NoOne
    Opening <- MCOpening
SPECIFICATION Spec
SYMMETRY Symmetry
INVARIANT BooksBalance
