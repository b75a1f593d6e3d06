CONSTANTS
    Phone = {p1}
    Run = {r1, r2}
    NoDoc = NoDoc
    MaxBalance = 1
SPECIFICATION FairSpec
INVARIANTS HomeHasAccount SpinnerHasWork
PROPERTY EntryResolves
