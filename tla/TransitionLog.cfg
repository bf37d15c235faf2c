CONSTANTS
    event = event
    command1 = command1
    command2 = command2
    create = create
    d1 = d1
    d2 = d2
    NoKey = NoKey
    Nobody = Nobody
    Keys <- MCKeys
    Digests = {d1, d2}
    Requests <- MCRequests
    Reservation <- MCReservation
    MaxAttempts = 3
    MaxOperations = 2

SPECIFICATION FairSpec

INVARIANTS TypeOK IdentityOnce SequencesGapFree RetryResolves
PROPERTIES RecordsExactlyOnce OperationSettles

CHECK_DEADLOCK FALSE
