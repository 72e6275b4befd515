SPECIFICATION SlotsSpec
CONSTANTS
    Requests = {r1, r2, r3}
    Conns = {c1, c2, c3}
    Reserved = 2
    Borrowers = {b1}
    NoValue = NoValue
SYMMETRY Symmetry
INVARIANTS  NestedCanComplete
