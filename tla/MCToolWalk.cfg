SPECIFICATION ToolSpec
CONSTANTS
    only = only
    none = none
    NoVersion = none
    Version = {only}
    Rank <- MCRank
    Major <- MCMajor
    Prerelease = {}
    Incompatible = {}
    Stub = {}
    Recent = {}
    Young = {}
    Retracts <- MCRetracts
    Deprecates = {}
    ToolCap = 2
    Packages <- MCPackages
    Directives <- MCDirectives
INVARIANTS
    EachToolJudgedExactly
    WrongOwnerHasACause
    WalkStaysShort
