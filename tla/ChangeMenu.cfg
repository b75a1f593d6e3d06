CONSTANTS
    Admin = {a1, a2}
    Item = {dosa}
    Price = {1, 2}
    MaxTaps = 2
    MaxEdits = 1
    MaxLosses = 1
SPECIFICATION FairSpec
INVARIANTS TypeOK NoTapLost
PROPERTIES PagesAgree
