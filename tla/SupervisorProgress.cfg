CONSTANTS
    Commands <- Everything
    MaxCopies = 2
    MaxDeliveries = 2
    MaxScheduled = 1
    MaxRollovers = 0
    MaxAttempts = 2
    MaxStaleDiscards = 2
    MaxLateRounds = 8
    LateBatch = 32

SPECIFICATION FairSpec

INVARIANTS CommandsConserved
PROPERTIES EffectsAfterAnswers AgeCloses StopCloses ApprovalSettles

CHECK_DEADLOCK FALSE
