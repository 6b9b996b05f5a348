SPECIFICATION Spec
CONSTANTS
    a = a
    b = b
    base = base
    l1 = l1
    l2 = l2
    v = v
    w = w
    blank = blank
    bad = bad
    NoHash = NoHash
    Paths = {a, b}
    Bases = {base}
    SlugOf <- MCShared
    Contents = {v, w, blank}
    SizeOf <- MCSize
    Blank = {blank}
    Broken = {}
    Lanes = {l1, l2}
    UTCAhead = 1
    Faults = {"crash"}
    MaxTime = 2
    MaxEdits = 3
    MaxFaults = 1
SYMMETRY MCSymmetry
CHECK_DEADLOCK FALSE
INVARIANTS
    FreshIsFindable
    OneBookPerFile
PROPERTIES
    ImplementsCatalogue
