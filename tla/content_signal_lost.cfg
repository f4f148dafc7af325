\* A success signal that may be there before the first activation.
SPECIFICATION Spec
CONSTANTS
    s1 = s1  s2 = s2  op = op
    c1 = c1  d1 = d1  x1 = x1
    f = f  g = g
    t0 = t0
    None = None
    Servers = {s1, s2}
    Operator = op
    Contents = {c1}
    Signals = {d1}
    Generations = {x1}
    Fields = {f, g}
    Source = f
    Old = t0
    InitialRows = {d1}
    MaxVersion = 2
    Attempts = 2
    MaxStarts = 2
    MaxFaults = 1
CHECK_DEADLOCK FALSE
INVARIANTS
    SignalsKept
