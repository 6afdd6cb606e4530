CONSTANTS
    A = A
    B = B
    C = C
    k1 = k1
    k2 = k2
    p1 = p1
    p2 = p2
    None = None
    Local = Local
    Node = {A, B}
    Kernel = {k1, k2}
    Origin <- MCOriginSame
    Parent <- MCParent
    CarriesParent = {FALSE}
    MaxBreaks = 1
SPECIFICATION Spec
CHECK_DEADLOCK FALSE
INVARIANT PluggedParentIsOwn
