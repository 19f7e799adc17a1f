SPECIFICATION WalkSpec
CONSTANTS
    recent1 = recent1
    recent2 = recent2
    tip = tip
    old = old
    none = none
    NoVersion = none
    WalkCap = 2
    Version <- MCVersion
    Rank <- MCRank
    Major <- MCMajor
    Prerelease = {}
    Incompatible = {}
    Stub = {}
    Recent <- MCRecent
    Young <- MCRecent
    Retracts <- MCRetracts
    Deprecates = {}
    Suffixes <- MCSuffixes
    Predecessors <- MCPredecessors
INVARIANTS
    BoundedWalk
    VerdictExact
    EvidenceIsReal
