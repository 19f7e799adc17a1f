SPECIFICATION FairSpec
CONSTANTS
    Targets = 3
    Extra = 2
    Capacity = 2
    collision = collision
    other = other
    Findings <- MCFindings
    Suppressed <- MCSuppressed
INVARIANTS
    TypeOK
    BoundedInFlight
    NoSlotReadEarly
    ReportInOrder
PROPERTIES
    ImplementsScan
    AlwaysReturns
    ImplementsFairScan
