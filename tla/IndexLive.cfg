SPECIFICATION FairSpec
CONSTANTS
    a = a
    b = b
    base = base
    l1 = l1
    l2 = l2
    v = v
    w = w
    blank = blank
    bad = bad
    NoHash = NoHash
    Paths = {a, b}
    Bases = {base}
    SlugOf <- MCShared
    Contents = {v, w, bad}
    SizeOf <- MCSize
    Blank = {}
    Broken = {bad}
    Lanes = {l1}
    UTCAhead <- MCEast
    Faults = {"crash"}
    MaxTime = 2
    MaxEdits = 2
    MaxFaults = 1
CHECK_DEADLOCK FALSE
PROPERTIES
    IndexSettles
