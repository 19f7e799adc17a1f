SPECIFICATION Spec
CONSTANTS
    Letter <- MCLetter
    popularModules <- MCPopular
    genericBaseNames <- MCGeneric
    Small <- MCSmall
    typoMinNameLen = 2
    typoScaledMaxLen = 4
    typoMaxDistance = 2
    NameInputs <- MCNameInputs
    ForkInputs <- MCForkInputs
    PatternInputs <- MCPatternInputs
    QueryInputs <- MCQueryInputs
    GoInputs <- MCGoInputs
    Releases <- MCReleases
INVARIANTS
    NearestNameFound
    ForksOfNamedDropped
    PrivateExactly
    QueriesAnswered
    GoVerdictsExact
