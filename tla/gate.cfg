SPECIFICATION Spec
CONSTANTS
    SpecialistNames <- MCSpecialistNames
    Threshold <- MCThreshold
    NoLine = NoLine
    Missing = Missing
    Outcomes <- MCOutcomes
CHECK_DEADLOCK FALSE
INVARIANTS
    OneSurvivorPerSpot
    AgreementKept
    CriticalLostOnlyAtItsSpot
    QueuedOnDoubt
    RowsAreTheReview
