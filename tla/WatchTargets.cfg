CONSTANTS Target = {t1}
          Doc = {d1}
          MaxListens = 2
          MaxEdits = 1
          MaxBreaks = 1
          MaxResets = 1
          MaxRefusals = 1
SPECIFICATION FairSpec
INVARIANTS TypeOK AssertionsHold OutstandingIsDue KeysMatchToken CurrentIsCaughtUp
CHECK_DEADLOCK FALSE
PROPERTY ListenIsAnswered
