SPECIFICATION TeleopSpec
CONSTANTS
    Limit = 3
    Period = 5
    MaxTime = 6
    Thread = {t1, t2}
    Known = {r1, r2, r3}
    Stranger = Stranger
    None = None
SYMMETRY Alike
INVARIANT TypeOK
INVARIANT WindowBound
INVARIANT WaitIsShort
INVARIANT TeleopTypeOK
INVARIANT LateBound
INVARIANT Stranded
