CONSTANTS
    c1 = c1
    c2 = c2
    h = h
    None = None
    Local = Local
    Client = {c1, c2}
    Order <- MCOrder
    Here = h
    W = 2
    InitWeight = {0, 2}
    MaxWeight = {1, 2}
    Source = {None, c1}
    Hint <- MCHint
    LocalFlag = TRUE
SPECIFICATION Spec
INVARIANT TypeOK
PROPERTY ImplementsAbstract
