SPECIFICATION Spec
CONSTANTS
    n1 = n1
    n2 = n2
    Net = {n1, n2}
    None = None
    Wired = Wired
    MaxDisturbances = 0
INVARIANT WiredRouteKept
