SPECIFICATION Spec
CONSTANTS
    None = None
    s1 = s1
    s2 = s2
    Slot = {s1, s2}
    Edit <- MCEdit
    Says <- MCSays
    MaxRequests = 4
INVARIANT PreFounderHasNoHistory
SYMMETRY SlotsAlike
CHECK_DEADLOCK FALSE
