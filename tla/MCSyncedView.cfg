CONSTANTS Doc = {d1, d2}
          Content = {c1}
          None = None
          MaxWrites = 1
          MaxEdits = 1
          MaxLosses = 1
          MaxMismatches = 2
          MaxRejections = 1
SPECIFICATION Spec
SYMMETRY Symmetry
INVARIANTS TypeOK ViewIsLocal SyncedSnapshotIsExact KeysMatchToken CacheIsHistory
PROPERTY NeverGoesBack
