CONSTANTS
    Phone = {p1, p2}
    Run = {r1}
    NoDoc = NoDoc
    MaxBalance = 1
SPECIFICATION Spec
SYMMETRY PhoneSymmetry
INVARIANTS TypeOK StuckHasCause
PROPERTIES AccountKept
