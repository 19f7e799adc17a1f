SPECIFICATION Spec
CONSTANTS
    a = a
    b = b
    c = c
    dir = dir
    none = none
    short = short
    full = full
    other = other
    query = query
    NoText = none
    Path <- MCPath
    Directory = {dir}
    Text <- MCText
    Tag <- MCTag
    Ambiguous = {query}
    Files <- MCFiles
INVARIANTS
    ReplacementInForce
    AuditsWhatTheBuildFetches
    SlotsStayParallel
    ContradictionsAreReal
    ContradictionsAreReported
    NoSilentChoice
