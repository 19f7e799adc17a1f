SPECIFICATION Spec
CONSTANTS
    old = old
    young = young
    recent = recent
    pre = pre
    legacy = legacy
    stub = stub
    tip = tip
    none = none
    NoVersion = none
    Version <- MCVersion
    Rank <- MCRank
    Major <- MCMajor
    Prerelease = {pre}
    Incompatible = {legacy}
    Stub = {legacy, stub}
    Recent <- MCRecent
    Young <- MCYoung
    Retracts <- MCRetracts
    Deprecates = {}
    Start <- MCStart
    Tags <- MCTags
    MaxMoves = 3
INVARIANTS
    FreshnessOfOneMoment
PROPERTY
    ImplementsTwoReads
