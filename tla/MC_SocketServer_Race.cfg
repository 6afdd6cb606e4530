CONSTANTS
    p1 = p1
    p2 = p2
    k1 = k1
    k2 = k2
    q1 = q1
    q2 = q2
    Peer = {q1, q2}
    Order <- MCOrder
    MaxFailures = 0
    Producer = {p1, p2}
    Kernel = {k1, k2}
    Sender <- MCSender
    Dest <- MCDest
    None = None
    MaxStopIterations = 13
    QuiescentStop = FALSE
SPECIFICATION Spec
CHECK_DEADLOCK FALSE
PROPERTY StopTerminates
