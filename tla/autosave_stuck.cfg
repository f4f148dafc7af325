\* One conflict after the other.
SPECIFICATION Spec
CONSTANTS
    blank = blank  spaces = spaces  words = words  prose = prose
    Texts <- MCPlainTexts
    Canon <- MCPlainCanon
    Blank = blank
    Suggestion = words
    None = None
    MaxRetries = 1
    Limits <- MCConflicts
CHECK_DEADLOCK FALSE
INVARIANTS
    ConflictStaysResolvable
