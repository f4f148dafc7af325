\* One edit of texts the server may store as another, with a change from
\* another device and a fault or a second editor, under fairness.
SPECIFICATION FairSpec
CONSTANTS
    blank = blank  spaces = spaces  words = words  prose = prose
    Texts <- MCTexts
    Canon <- MCCanon
    Blank = blank
    Suggestion = words
    None = None
    MaxRetries = 1
    Limits <- MCLive
CHECK_DEADLOCK FALSE
INVARIANTS
    TypeOK
    NoBlindOverwrite
PROPERTIES
    UnsavedSettles
