CONSTANTS
    s1 = s1
    s2 = s2
    Kinds <- MCKinds
    Stoppers <- MCStoppers
    GCResults = {"ok"}
    MaxTicks = 2

SPECIFICATION Spec

\* The routines end: every Start returns and nothing is left to do.
CHECK_DEADLOCK FALSE

INVARIANT TypeOK
PROPERTY StopReturns
PROPERTY StartsReturnAfterStop
