CONSTANTS Doc = {d1}
          Content = {c1}
          None = None
          MaxWrites = 1
          MaxEdits = 1
          MaxLosses = 1
          MaxMismatches = 0
          MaxRejections = 0
SPECIFICATION FairSpec
PROPERTY Converges
