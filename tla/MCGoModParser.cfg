SPECIFICATION Spec
CONSTANTS
    Lines <- MCLines
    MaxLines = 4
INVARIANTS
    ScannersAgree
    RefusedExactlyWhenInvalid
    CollectedAsWritten
    TopLevelAsWritten
    OverlayAsWritten
    WorkReportsAreReal
