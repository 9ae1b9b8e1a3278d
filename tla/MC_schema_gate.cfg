SPECIFICATION Spec

CONSTANTS
    s1 = s1
    Slots = {s1}
    c1 = c1
    Columns = {c1}
    FirstNamed <- Namesakes
    MaxOverlaps = 0
    MaxFaults = 0

INVARIANTS
    HierarchyWaits

CHECK_DEADLOCK FALSE
