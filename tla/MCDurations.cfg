CONSTANT
    Texts <- MCTexts
SPECIFICATION DurationSpec
INVARIANTS
    ParsedIsValue
    ReportFaithful
CHECK_DEADLOCK FALSE
