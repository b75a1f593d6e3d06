CONSTANTS User = {u1, u2}
          MaxWrites = 4
          Bad = {3}
          kMaxPendingWrites = 2
SPECIFICATION FairSpec
INVARIANTS TypeOK PipelineIsQueueFront AnswersMatchPipeline
           CallbacksMatchQueue RefusedHasCause
PROPERTIES ImplementsOutbox EveryWriteSettles
CHECK_DEADLOCK FALSE
