\* A loss or a login, and a fault, in two tabs of one browser, under fairness.
SPECIFICATION FairSpec
CONSTANTS
    Tabs = {t1, t2}
    Google = Google
    None = None
    MaxUsers = 6
    Limits <- MCLimits
CHECK_DEADLOCK FALSE
INVARIANTS
    AnswersFitThePage
    LiveSessionsKept
PROPERTIES
    HiddenPagesComeBack
