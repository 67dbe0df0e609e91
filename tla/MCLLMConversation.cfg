CONSTANTS
    t1 = t1
    t2 = t2
    t3 = t3
    d1 = d1
    d2 = d2
    None = None
    Turns = {t1, t2}
    Dialogs = {d1, d2}
    Traced = {TRUE, FALSE}
    HasCLI = TRUE
    Outcomes <- EveryOutcome
    MaxClock = 1

SPECIFICATION ConvFairSpec
CHECK_DEADLOCK FALSE
INVARIANT ConvTypeOK
INVARIANT NoCrossTalk
INVARIANT NoOrphanCLI
INVARIANT Continuity
PROPERTY HandledAsPromised
PROPERTY TurnsEnd
