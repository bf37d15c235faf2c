CONSTANTS
    a = a
    b = b
    none = none
    References = {a, b}
    NoReference = none
    UnknownTypes = {"address_changed"}
    EvidenceReferences = 8
    MaxEvidence = 2
    Minimum = 1
    Default = 1
    Maximum = 2
    PrioritizeSpeed = FALSE
    EscalateDelays = FALSE
    CustomerReview = FALSE
    MaximumAge = 4
    AllowedActions = {"message_payments_team", "message_customer", "create_internal_note"}
    FollowUpIntervals = 2
    DeferredLimit = 1
    RecentRecords = 2
    CompactionRecords = 8
    Events <- PaymentEvents
    Instructions <- Nothing
    Proposals <- MCProposals
    Narratives <- MCNarratives
    InstructionCapacity = 1
    LedgerRecords = 1
    MaxInputs = 3
    MaxReviews = 2

SPECIFICATION Spec

INVARIANT NewerStands

CHECK_DEADLOCK FALSE
