SPECIFICATION Spec
CONSTANTS
    Goals = {g1}
    Ops = {o1, o2}
    Bodies = {blank, b1}
    BlankBody = blank
    Signals = {unset, s1}
    NoSignal = unset
    Frames = {act}
    ActionFrame = act
    Texts = {empty, text}
    BlankText = empty
    MaxProgressingGoals = 1
    MaxCycles = 2
    MaxRevision = 1
    NoContent = NoContent
    NoReceipt = NoReceipt
SYMMETRY Symmetry
CHECK_DEADLOCK FALSE
INVARIANTS
    CompleteReplayIsAnswered
