\* Two edits in one editor, or two editors one after the other, with changes
\* from other devices, faults and blurs in between.
SPECIFICATION Spec
CONSTANTS
    blank = blank  spaces = spaces  words = words  prose = prose
    Texts <- MCTwoTexts
    Canon <- MCTwoCanon
    Blank = blank
    Suggestion = words
    None = None
    MaxRetries = 1
    Limits <- MCSafety
CHECK_DEADLOCK FALSE
INVARIANTS
    SavedMeansSaved
    UnsavedIsKept
    StartsWhatWasShown
    CleanedUpForGood
PROPERTIES
    TypedTextStays
