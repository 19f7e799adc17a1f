SPECIFICATION Spec
CONSTANTS
    Unreadable = Unreadable
    GoMods <- MCGoMods
    GoWorks <- MCGoWorks
    MaxEdits = 0
INVARIANT
    UnsatisfiableMeansFuture
