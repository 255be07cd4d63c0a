CONSTANTS
    MaxFrames = 4
    FrameSizes = {1, 2}
    BatchLimit = 3
    MaxRetries = 2
SPECIFICATION Spec
INVARIANT TypeOK
INVARIANT ProposalBelowLimit
INVARIANT AppliedInStreamOrder
CHECK_DEADLOCK FALSE
