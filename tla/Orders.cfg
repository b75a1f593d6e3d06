CONSTANTS
    Student = {s1}
    Kitchen = {k1, k2}
    Order = {o1}
    NoDoc = NoDoc
    MaxLosses = 2
SPECIFICATION FairSpec
INVARIANTS TypeOK KitchenIsTruthful
PROPERTIES ImplementsOrderBook OrderReachesKitchens MarkReachesKitchens
