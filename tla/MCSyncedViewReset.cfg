CONSTANTS Doc = {d1, d2}
          Content = {c1}
          None = None
          MaxWrites = 0
          MaxEdits = 1
          MaxLosses = 0
          MaxMismatches = 1
          MaxRejections = 0
SPECIFICATION Spec
INVARIANT SavedWithItsKeys
