CONSTANTS
    Item = {dosa}
    Null = Null
    Price = {1, 2}
    Amount = {0, 2}
    MaxQuantity = 2
    MaxSubtotal = 2
    MaxOrders = 2
    MaxSignOuts = 1
SPECIFICATION Spec
INVARIANTS TypeOK SubtotalIsWorth OrdersPriceTheirItems NothingLost NothingTwice SignOutIsClean
CHECK_DEADLOCK FALSE
