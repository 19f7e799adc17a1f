SPECIFICATION Spec
CONSTANTS
    Unreadable = Unreadable
    GoMods <- MCGoMods
    GoWorks <- MCGoWorks
    MaxEdits = 2
INVARIANTS
    ExactWhenUndisturbed
    NothingInvented
    StandingFlawsReported
    CleanOnce
