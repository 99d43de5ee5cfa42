SPECIFICATION Spec
CONSTANTS
    Null = Null
    Malformed = Malformed
    Impossible = Impossible
    Extracted <- MCExtracted
    Corrected <- MCCorrected
    Inputs <- MCInputs
    MaxEdits = 1
    MaxRows = 2
INVARIANTS
    RulesTypeOK
    MapsWhatValidationPasses
    PageAgreesWithServer
    UntouchedFindingsRemain
    StopsAreExplained
    LinesShareTheirBreakdown
    TotalsReflectTheRows
CHECK_DEADLOCK FALSE
