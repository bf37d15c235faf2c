CONSTANTS
    Commands <- HoldsAndReviews
    MaxCopies = 2
    MaxDeliveries = 3
    MaxScheduled = 2
    MaxRollovers = 1
    MaxAttempts = 2
    MaxStaleDiscards = 2
    MaxLateRounds = 8
    LateBatch = 32

SPECIFICATION Spec

INVARIANT ClosureNeverWaits

CHECK_DEADLOCK FALSE
