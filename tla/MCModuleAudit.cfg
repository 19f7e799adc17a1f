SPECIFICATION MCSpec
CONSTANTS
    old = old
    young = young
    recent1 = recent1
    recent2 = recent2
    legacy = legacy
    pre = pre
    tip = tip
    aged = aged
    none = none
    NoVersion = none
    WalkCap = 2
    Version <- MCVersion
    Rank <- MCRank
    Major <- MCMajor
    Prerelease <- MCPrerelease
    Incompatible <- MCIncompatible
    Stub <- MCStub
    Recent <- MCRecent
    Young <- MCYoung
    Retracts <- MCRetracts
    Deprecates <- MCDeprecates
    Targets <- MCTargets
    Pins <- MCPins
    Suffixes <- MCSuffixes
    Predecessors <- MCPredecessors
INVARIANTS
    ExactWithoutTrouble
    FalseFindingsHaveACause
    MissingVersionHiddenOnlyByItsOwnRequests
PROPERTY
    AuditEnds
